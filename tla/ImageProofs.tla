---------------------------- MODULE ImageProofs ----------------------------
(***************************************************************************)
(* Proofs about what the loader does with a mapped image: Exports, for     *)
(* every directory, name and hint, and Relocs, for any number of values of *)
(* a cell and any images.                                                  *)
(*                                                                         *)
(* The sums of Relocs are defined by recursion: Induction, which is proved *)
(* from the least number principle, is what they are unfolded with.        *)
(***************************************************************************)
EXTENDS Exports, Relocs, SequenceTheorems, WellFoundedInduction, TLAPS

Sound(d) == d \in Directory /\ Len(d.names) = Len(d.numbers)

ExportsInv ==
  /\ Sound(dir)
  /\ name \in Name /\ hint \in U16
  /\ found \in {NoResult, Results(dir, name, hint)}

LEMMA Tables ==
  ASSUME NEW d, Sound(d)
  PROVE  /\ d.base \in Nat /\ d.count \in Nat
         /\ Len(d.names) \in Nat
         /\ \A i \in 1..Len(d.names) : d.names[i] \in Name /\ d.numbers[i] \in U16
<1>1. d.names \in Seq(Name) /\ d.numbers \in Seq(U16)
  BY DEF Sound, Directory
<1> QED
  BY <1>1, LenProperties, ElementOfSeq DEF Sound, Directory

(* With distinct names, the entry that has the name is the first.          *)
LEMMA TheEntryIsFirst ==
  ASSUME NEW d, Sound(d), Distinct(d), NEW i \in 1..Len(d.names)
  PROVE  /\ \E j \in 1..Len(d.names) : IsFirst(d, d.names[i], j)
         /\ (CHOOSE j \in 1..Len(d.names) : IsFirst(d, d.names[i], j)) = i
<1>1. Len(d.names) \in Nat
  BY Tables
<1>2. IsFirst(d, d.names[i], i)
  BY <1>1 DEF IsFirst, Distinct
<1>3. \A j \in 1..Len(d.names) : IsFirst(d, d.names[i], j) => j = i
  BY DEF IsFirst, Distinct
<1> QED
  BY <1>2, <1>3

LEMMA ModU16 == \A k \in 0..MaxU16 : (k - 0) % (MaxU16 + 1) = k
  BY ExportsAssumption

(* In a table of base 0 the entry at the hint resolves as its name does.   *)
LEMMA HintAsName ==
  ASSUME NEW d, Sound(d), Distinct(d), d.base = 0,
         NEW n, NEW h \in U16, h < Len(d.names)
  PROVE  ByHint(d, n, h) = ByName(d, n)
<1>1. CASE At(d, h).name # n
  BY <1>1 DEF ByHint
<1>2. CASE At(d, h).name = n
  <2> DEFINE i == h + 1
  <2>1. h \in Nat /\ MaxU16 \in Nat
    BY ExportsAssumption DEF U16
  <2>2. i \in 1..Len(d.names)
    BY <2>1, Tables
  <2>3. At(d, h).number = d.numbers[i] /\ n = d.names[i]
    BY <1>2 DEF At
  <2>4. d.numbers[i] \in 0..MaxU16
    BY <2>2, Tables DEF U16
  <2>5. (d.numbers[i] - d.base) % (MaxU16 + 1) = d.numbers[i]
    BY <2>4, ModU16
  <2>6. ByHint(d, n, h) = Function(d, d.numbers[i])
    BY <1>2, <2>3, <2>5 DEF ByHint
  <2>7. /\ \E j \in 1..Len(d.names) : IsFirst(d, n, j)
        /\ (CHOOSE j \in 1..Len(d.names) : IsFirst(d, n, j)) = i
    <3> HIDE DEF i
    <3> QED
      BY <2>2, <2>3, TheEntryIsFirst
  <2>8. ByName(d, n) = Function(d, d.numbers[i])
    BY <2>7 DEF ByName
  <2> QED
    BY <2>6, <2>8
<1> QED
  BY <1>1, <1>2

(* In any table the entry at the hint resolves as its number, taken for an *)
(* ordinal, does.                                                          *)
LEMMA HintAsOrdinal ==
  ASSUME NEW d, Sound(d), NEW h \in U16, NEW n, At(d, h).name = n,
         At(d, h).number \in d.base..(MaxU16 - 1),
         At(d, h).number - d.base < d.count
  PROVE  ByHint(d, n, h) = ByOrdinal(d, At(d, h).number)
<1> DEFINE number == At(d, h).number
<1>1. d.base \in Nat /\ d.count \in Nat /\ MaxU16 \in Nat
  BY Tables, ExportsAssumption
<1>2. number \in Nat /\ number < MaxU16 /\ number >= d.base
  BY <1>1
<1>3. (number - d.base) % (MaxU16 + 1) = number - d.base
  BY <1>1, <1>2
<1>4. ByHint(d, n, h) = number - d.base
  BY <1>1, <1>2, <1>3 DEF ByHint, Function
<1>5. ByOrdinal(d, number) = number - d.base
  BY <1>1, <1>2 DEF ByOrdinal
<1> QED
  BY <1>4, <1>5
-----------------------------------------------------------------------------
LEMMA ExportsInitInv == ExportsInit => ExportsInv
  BY DEF ExportsInit, ExportsInv, Sound

LEMMA ExportsStepInv == ExportsInv /\ [Lookup]_exportsVars => ExportsInv'
  BY DEF ExportsInv, Lookup, exportsVars

THEOREM ExportsInvariance == ExportsSpec => []ExportsInv
  BY ExportsInitInv, ExportsStepInv, PTL DEF ExportsSpec

(* With ordinal base 0, pe_get_proc_addr_indexed and pe_get_proc_addr give *)
(* the same address for every hint inside the table (exports.c:51-69).     *)
THEOREM HintHarmlessAlways == ExportsSpec => []HintHarmless
<1>1. ExportsInv => HintHarmless
  BY HintAsName DEF ExportsInv, HintHarmless, HintInTable, Results
<1> QED
  BY <1>1, ExportsInvariance, PTL

(* With any base, a hint that matches is resolved as the ordinal of that   *)
(* number (exports.c:64-66 against 27-33).                                 *)
THEOREM HintTakesOrdinalAlways == ExportsSpec => []HintTakesOrdinal
<1>1. ExportsInv => HintTakesOrdinal
  BY HintAsOrdinal DEF ExportsInv, HintTakesOrdinal, HintInTable, Results
<1> QED
  BY <1>1, ExportsInvariance, PTL

(* A name the table lacks resolves to NULL (exports.c:40-48, 63-69).       *)
THEOREM AbsentIsNullAlways == ExportsSpec => []AbsentIsNull
<1>1. ASSUME ExportsInv, found # NoResult, HintInTable,
             \A i \in 1..Len(dir.names) : dir.names[i] # name
      PROVE  found.hinted = Null
  <2>1. hint \in Nat /\ Len(dir.names) \in Nat /\ hint < Len(dir.names)
    BY <1>1, Tables, ExportsAssumption DEF ExportsInv, U16, HintInTable
  <2>2. At(dir, hint).name # name
    BY <1>1, <2>1 DEF At
  <2>3. ByName(dir, name) = Null
    BY <1>1 DEF ByName, IsFirst
  <2>4. ByHint(dir, name, hint) = Null
    BY <2>2, <2>3 DEF ByHint
  <2>5. found.hinted = ByHint(dir, name, hint)
    BY <1>1 DEF ExportsInv, Results
  <2> QED
    BY <2>4, <2>5
<1>2. ExportsInv => AbsentIsNull
  BY <1>1 DEF AbsentIsNull
<1> QED
  BY <1>2, ExportsInvariance, PTL
-----------------------------------------------------------------------------
(* Induction over the numbers, for a set.                                  *)
LEMMA Induction ==
  ASSUME NEW S, 0 \in S, \A n \in Nat : n \in S => n + 1 \in S
  PROVE  Nat \subseteq S
<1> SUFFICES ASSUME Nat \ S # {} PROVE FALSE
  OBVIOUS
<1> DEFINE R == OpToRel(<, Nat)
<1>1. IsWellFoundedOn(R, Nat)
  BY NatLessThanWellFounded
<1>2. \A x, y \in Nat : y < x => <<y, x>> \in R
  BY DEF OpToRel
<1> HIDE DEF R
<1>3. PICK x \in Nat \ S : \A y \in Nat \ S : ~ (<<y, x>> \in R)
  <2>1. \A U \in SUBSET Nat : U # {} => \E x \in U : \A y \in U : ~ (<<y, x>> \in R)
    BY <1>1, WFMin
  <2>2. Nat \ S \in SUBSET Nat
    OBVIOUS
  <2> QED
    BY <2>1, <2>2, Zenon
<1>4. x # 0 /\ x - 1 \in Nat /\ x - 1 < x
  OBVIOUS
<1>5. x - 1 \in S
  BY <1>2, <1>3, <1>4
<1>6. (x - 1) + 1 \in S
  BY <1>4, <1>5
<1> QED
  BY <1>3, <1>6

(* The sums of the first elements of a sequence.                           *)
IsSums(f, s, n) == f = [i \in 0..n |-> IF i = 0 THEN 0 ELSE f[i - 1] + s[i]]

LEMMA SumsExist ==
  ASSUME NEW s, NEW n \in Nat
  PROVE  \E f : IsSums(f, s, n)
<1> DEFINE S == {k \in Nat : \E f : IsSums(f, s, k)}
<1>1. 0 \in S
  <2> DEFINE f == [i \in 0..0 |-> 0]
  <2>1. IsSums(f, s, 0)
    BY DEF IsSums
  <2> QED
    BY <2>1
<1>2. ASSUME NEW k \in Nat, k \in S
      PROVE  k + 1 \in S
  <2>1. PICK f : IsSums(f, s, k)
    BY <1>2
  <2> DEFINE g == [i \in 0..(k + 1) |-> IF i = k + 1 THEN f[k] + s[k + 1] ELSE f[i]]
  <2>2. \A i \in 0..k : f[i] = IF i = 0 THEN 0 ELSE f[i - 1] + s[i]
    BY <2>1 DEF IsSums
  <2>3. \A i \in 0..(k + 1) : g[i] = IF i = 0 THEN 0 ELSE g[i - 1] + s[i]
    <3> SUFFICES ASSUME NEW i \in 0..(k + 1)
                 PROVE  g[i] = IF i = 0 THEN 0 ELSE g[i - 1] + s[i]
      OBVIOUS
    <3>1. CASE i = k + 1
      <4>1. k \in 0..(k + 1) /\ k # k + 1 /\ i - 1 = k /\ i # 0
        BY <3>1
      <4>2. g[k] = f[k]
        BY <4>1
      <4> QED
        BY <3>1, <4>1, <4>2
    <3>2. CASE i # k + 1 /\ i # 0
      <4>1. i \in 0..k /\ i - 1 \in 0..(k + 1) /\ i - 1 # k + 1
        BY <3>2
      <4> QED
        BY <2>2, <3>2, <4>1
    <3>3. CASE i = 0
      BY <2>2, <3>3
    <3> QED
      BY <3>1, <3>2, <3>3
  <2>4. IsSums(g, s, k + 1)
    BY <2>3 DEF IsSums
  <2> HIDE DEF g
  <2> QED
    BY <2>4
<1>3. Nat \subseteq S
  <2> HIDE DEF S
  <2> QED
    BY <1>1, <1>2, Induction
<1> QED
  BY <1>3

Sums(s) == CHOOSE f : IsSums(f, s, Len(s))

LEMMA SumsOf ==
  ASSUME NEW s, Len(s) \in Nat
  PROVE  /\ Sum(s) = Sums(s)[Len(s)]
         /\ Sums(s)[0] = 0
         /\ \A i \in 1..Len(s) : Sums(s)[i] = Sums(s)[i - 1] + s[i]
<1>1. IsSums(Sums(s), s, Len(s))
  BY SumsExist DEF Sums
<1>2. Sum(s) = Sums(s)[Len(s)]
  BY DEF Sum, Sums, IsSums
<1> QED
  BY <1>1, <1>2 DEF IsSums

(* If no element is negative, the sums grow, by what the elements are at   *)
(* least.                                                                  *)
LEMMA SumsGrow ==
  ASSUME NEW s \in Seq(Nat), NEW least \in Nat, \A i \in 1..Len(s) : s[i] >= least
  PROVE  /\ \A i \in 0..Len(s) : Sums(s)[i] \in Nat
         /\ \A i \in 0..Len(s) : i < Len(s) => Sums(s)[i] + least <= Sum(s)
<1> DEFINE n == Len(s)
           f == Sums(s)
<1>1. /\ n \in Nat /\ Sum(s) = f[n] /\ f[0] = 0
      /\ \A i \in 1..n : f[i] = f[i - 1] + s[i] /\ s[i] \in Nat
  BY SumsOf, ElementOfSeq
<1> HIDE DEF n, f
<1>2. ASSUME NEW i \in 0..n PROVE f[i] \in Nat
  <2> DEFINE S == {k \in Nat : k <= n => f[k] \in Nat}
  <2>1. 0 \in S
    BY <1>1
  <2>2. ASSUME NEW k \in Nat, k \in S PROVE k + 1 \in S
    <3>0. SUFFICES ASSUME k + 1 <= n PROVE f[k + 1] \in Nat
      OBVIOUS
    <3>1. k + 1 \in 1..n /\ (k + 1) - 1 = k /\ k <= n
      BY <1>1, <3>0
    <3>2. f[k + 1] = f[k] + s[k + 1] /\ s[k + 1] \in Nat
      BY <1>1, <3>1
    <3> QED
      BY <2>2, <3>1, <3>2
  <2>3. Nat \subseteq S
    <3> HIDE DEF S
    <3> QED
      BY <2>1, <2>2, Induction
  <2> QED
    BY <2>3, <1>1
<1>3. ASSUME NEW i \in 0..n, i < n PROVE f[i] + least <= f[n]
  <2> DEFINE S == {k \in Nat : i + k + 1 <= n => f[i] + least <= f[i + k + 1]}
  <2>1. 0 \in S
    <3>1. i + 1 \in 1..n /\ (i + 1) - 1 = i /\ i + 0 + 1 = i + 1
      BY <1>1, <1>3
    <3>2. f[i + 1] = f[i] + s[i + 1] /\ s[i + 1] >= least
      BY <1>1, <3>1 DEF n
    <3> QED
      BY <1>1, <1>2, <3>1, <3>2
  <2>2. ASSUME NEW k \in Nat, k \in S PROVE k + 1 \in S
    <3>0. SUFFICES ASSUME i + (k + 1) + 1 <= n
                   PROVE  f[i] + least <= f[i + (k + 1) + 1]
      OBVIOUS
    <3> DEFINE j == i + (k + 1) + 1
    <3>1. j \in 1..n /\ j - 1 = i + k + 1 /\ i + k + 1 \in 0..n
      BY <1>1, <3>0
    <3>2. f[j] = f[i + k + 1] + s[j] /\ s[j] \in Nat
      BY <1>1, <3>1
    <3>3. f[i] + least <= f[i + k + 1]
      BY <2>2, <3>1, <1>1
    <3>4. f[i] \in Nat /\ f[i + k + 1] \in Nat
      BY <1>2, <3>1
    <3> QED
      BY <3>2, <3>3, <3>4
  <2>3. Nat \subseteq S
    <3> HIDE DEF S
    <3> QED
      BY <2>1, <2>2, Induction
  <2>4. n - i - 1 \in Nat /\ i + (n - i - 1) + 1 = n
    BY <1>1, <1>3
  <2>5. n - i - 1 \in S
    <3> HIDE DEF S
    <3> QED
      BY <2>3, <2>4
  <2>6. f[i] + least <= f[i + (n - i - 1) + 1]
    BY <2>4, <2>5
  <2> QED
    BY <2>4, <2>6
<1> QED
  BY <1>1, <1>2, <1>3 DEF n, f
-----------------------------------------------------------------------------
(* Division.                                                               *)
LEMMA Quotient ==
  ASSUME NEW a \in Int, NEW b \in Nat \ {0}
  PROVE  /\ a \div b \in Int /\ a % b \in 0..(b - 1)
         /\ a = (a \div b) * b + (a % b)
OBVIOUS

LEMMA Distributes ==
  ASSUME NEW a \in Int, NEW b \in Int, NEW c \in Int
  PROVE  /\ (a + b) * c = a * c + b * c
         /\ (a - b) * c = a * c - b * c
         /\ a * c \in Int /\ a * c = c * a
<1>1. a * c \in Int /\ b * c \in Int /\ a * c = c * a
  OBVIOUS
<1>2. (a + b) * c = a * c + b * c
  OBVIOUS
<1>3. (a - b) * c = a * c - b * c
  OBVIOUS
<1> QED
  BY <1>1, <1>2, <1>3

LEMMA Grows ==
  ASSUME NEW a \in Nat \ {0}, NEW b \in Nat
  PROVE  a * b >= b /\ a * b \in Nat
<1>1. (a - 1) * b \in Nat
  OBVIOUS
<1>2. (a - 1) * b = a * b - 1 * b /\ a * b \in Int
  BY Distributes
<1> QED
  BY <1>1, <1>2

LEMMA Unique ==
  ASSUME NEW b \in Nat \ {0}, NEW q \in Int, NEW r \in 0..(b - 1), NEW a, a = q * b + r
  PROVE  a \div b = q /\ a % b = r
<1>1. a \in Int
  BY Distributes
<1>2. PICK p \in Int : p = a \div b
  BY <1>1, Quotient
<1>3. PICK t \in 0..(b - 1) : t = a % b
  BY <1>1, Quotient
<1>4. p * b + t = q * b + r
  BY <1>1, <1>2, <1>3, Quotient
<1>5. ~ (p < q)
  <2> SUFFICES ASSUME p < q PROVE FALSE
    OBVIOUS
  <2>1. q - p \in Nat \ {0}
    OBVIOUS
  <2>2. (q - p) * b >= b /\ (q - p) * b = q * b - p * b
    BY <2>1, Grows, Distributes
  <2>3. q * b \in Int /\ p * b \in Int
    BY Distributes
  <2> QED
    BY <1>4, <2>2, <2>3
<1>6. ~ (q < p)
  <2> SUFFICES ASSUME q < p PROVE FALSE
    OBVIOUS
  <2>1. p - q \in Nat \ {0}
    OBVIOUS
  <2>2. (p - q) * b >= b /\ (p - q) * b = p * b - q * b
    BY <2>1, Grows, Distributes
  <2>3. q * b \in Int /\ p * b \in Int
    BY Distributes
  <2> QED
    BY <1>4, <2>2, <2>3
<1>7. p = q
  BY <1>5, <1>6
<1>8. q * b \in Int /\ t = r
  BY <1>4, <1>7, Distributes
<1> QED
  BY <1>2, <1>3, <1>7, <1>8

(* Whole multiples of b make no difference.                                *)
LEMMA Modulo ==
  ASSUME NEW b \in Nat \ {0}, NEW a \in Int, NEW k \in Int
  PROVE  (a + k * b) % b = a % b
<1>1. PICK q \in Int, r \in 0..(b - 1) : a = q * b + r /\ r = a % b
  BY Quotient
<1>2. PICK p \in Int : p = q + k
  OBVIOUS
<1>3. PICK s : s = a + k * b
  OBVIOUS
<1>4. s = p * b + r
  <2>1. PICK x \in Int, y \in Int : x = q * b /\ y = k * b
    BY Distributes
  <2>2. p * b = x + y
    BY <1>2, <2>1, Distributes
  <2>3. a = x + r /\ s = a + y
    BY <1>1, <1>3, <2>1
  <2> QED
    BY <2>2, <2>3
<1>5. s % b = r
  BY <1>4, Unique
<1> QED
  BY <1>1, <1>3, <1>5

(* The remainder of a product has one digit more.                          *)
LEMMA OneDigitMore ==
  ASSUME NEW b \in Nat \ {0}, NEW c \in Nat \ {0}, NEW s \in Int
  PROVE  /\ b * c \in Nat \ {0}
         /\ s % (b * c) = (s % b) + ((s \div b) % c) * b
<1>1. PICK q \in Int, r \in 0..(b - 1) : s = q * b + r /\ q = s \div b /\ r = s % b
  BY Quotient
<1>2. PICK p \in Int, t \in 0..(c - 1) : q = p * c + t /\ p = q \div c /\ t = q % c
  BY Quotient
<1>3. PICK m \in Nat : m = b * c /\ m >= c
  <2>1. b * c >= c /\ b * c \in Nat
    BY Grows
  <2> QED
    BY <2>1
<1>4. PICK u \in Nat : u = t * b
  <2>1. b * t \in Nat /\ b * t = t * b
    BY Grows, Distributes
  <2> QED
    BY <2>1
<1>5. u + b <= m
  <2>1. (c - 1 - t) * b \in Nat
    BY Grows
  <2>2. (c - 1 - t) * b = (c - 1) * b - u /\ (c - 1) * b = m - b
    BY <1>3, <1>4, Distributes
  <2> QED
    BY <2>1, <2>2
<1>6. s = p * m + (u + r)
  <2>1. q * b = (p * c) * b + u
    BY <1>2, <1>4, Distributes
  <2>2. (p * c) * b = p * m
    BY <1>3
  <2>3. p * m \in Int
    BY Distributes
  <2> QED
    BY <1>1, <2>1, <2>2, <2>3
<1>7. PICK v \in 0..(m - 1) : v = u + r /\ m # 0
  BY <1>3, <1>5
<1>8. s % m = v
  <2>1. s = p * m + v /\ m \in Nat \ {0}
    BY <1>6, <1>7
  <2> QED
    BY <2>1, Unique
<1>9. s % m = (s % b) + ((s \div b) % c) * b
  <2>1. v = r + u
    BY <1>7
  <2>2. s % m = r + t * b
    BY <1>4, <1>8, <2>1
  <2>3. r = s % b /\ t = (s \div b) % c
    BY <1>1, <1>2
  <2> QED
    BY <2>2, <2>3, Zenon
<1>10. m \in Nat \ {0}
  BY <1>7
<1> QED
  BY <1>3, <1>9, <1>10

LEMMA Powers ==
  /\ \A n \in 0..4 : Power(n) \in Nat \ {0}
  /\ \A n \in 0..3 : Power(n + 1) = Power(n) * C
  /\ Power(0) = 1 /\ Power(1) = C /\ Power(2) = C * C
<1>1. C \in Nat \ {0}
  BY RelocsAssumption
<1>2. /\ Power(0) = 1 /\ Power(1) = C /\ Power(2) = C * C
      /\ Power(3) = C * C * C /\ Power(4) = C * C * C * C
  BY DEF Power
<1>3. C * C \in Nat \ {0}
  BY <1>1, OneDigitMore
<1>4. C * C * C \in Nat \ {0}
  BY <1>1, <1>3, OneDigitMore
<1>5. C * C * C * C \in Nat \ {0}
  BY <1>1, <1>4, OneDigitMore
<1>6. \A n \in 0..4 : n = 0 \/ n = 1 \/ n = 2 \/ n = 3 \/ n = 4
  OBVIOUS
<1>7. \A n \in 0..4 : Power(n) \in Nat \ {0}
  BY <1>1, <1>2, <1>3, <1>4, <1>5, <1>6
<1>8. \A n \in 0..3 : Power(n + 1) = Power(n) * C
  <2>1. Power(0) * C = C
    BY <1>1, <1>2
  <2>2. Power(0 + 1) = Power(1) /\ Power(1 + 1) = Power(2) /\ Power(2 + 1) = Power(3)
        /\ Power(3 + 1) = Power(4)
    OBVIOUS
  <2>3. \A n \in 0..3 : n = 0 \/ n = 1 \/ n = 2 \/ n = 3
    OBVIOUS
  <2> QED
    BY <1>2, <2>1, <2>2, <2>3
<1> QED
  BY <1>2, <1>7, <1>8
-----------------------------------------------------------------------------
(* A field is the sum of its cells, each in its place.                     *)
Weighted(m, c, n) == [i \in 1..n |-> m[c + i - 1] * Power(i - 1)]

(* f adds the cells up, from the least.                                    *)
FieldSums(f, m, c, n) ==
  /\ Field(m, c, n) = f[n] /\ f[0] = 0
  /\ \A i \in 0..(n - 1) : f[i + 1] = f[i] + m[c + i] * Power(i)

LEMMA FieldIsSum ==
  ASSUME NEW m, NEW c \in Nat, NEW n \in 0..4,
         \A x \in c..(c + n - 1) : m[x] \in 0..(C - 1)
  PROVE  \E f : FieldSums(f, m, c, n)
<1> DEFINE s == Weighted(m, c, n)
<1>1. \A i \in 1..n : s[i] = m[c + i - 1] * Power(i - 1) /\ s[i] \in Int
  <2> SUFFICES ASSUME NEW i \in 1..n
               PROVE  s[i] = m[c + i - 1] * Power(i - 1) /\ s[i] \in Int
    OBVIOUS
  <2>1. PICK a \in Int, b \in Int : a = m[c + i - 1] /\ b = Power(i - 1)
    <3>1. c + i - 1 \in c..(c + n - 1) /\ i - 1 \in 0..4
      OBVIOUS
    <3> QED
      BY <3>1, Powers, RelocsAssumption
  <2>2. s[i] = a * b
    BY <2>1 DEF Weighted
  <2> QED
    BY <2>1, <2>2, Distributes
<1>2. s \in Seq(Int) /\ Len(s) = n
  <2>1. s \in [1..n -> Int]
    BY <1>1 DEF Weighted
  <2> HIDE DEF s
  <2> QED
    BY <2>1, LenProperties
<1>3. Field(m, c, n) = Sum(s)
  BY DEF Field, Weighted
<1> HIDE DEF s
<1>4. PICK f : f = Sums(s)
  OBVIOUS
<1>5. Field(m, c, n) = f[n] /\ f[0] = 0 /\ \A i \in 1..n : f[i] = f[i - 1] + s[i]
  <2>1. Len(s) \in Nat
    BY <1>2
  <2>2. /\ Sum(s) = Sums(s)[Len(s)] /\ Sums(s)[0] = 0
        /\ \A i \in 1..Len(s) : Sums(s)[i] = Sums(s)[i - 1] + s[i]
    BY <2>1, SumsOf
  <2> QED
    BY <1>2, <1>3, <1>4, <2>2
<1>6. ASSUME NEW i \in 0..(n - 1) PROVE f[i + 1] = f[i] + m[c + i] * Power(i)
  <2>1. i + 1 \in 1..n /\ (i + 1) - 1 = i /\ c + (i + 1) - 1 = c + i
    OBVIOUS
  <2>2. f[i + 1] = f[(i + 1) - 1] + s[i + 1]
    BY <1>5, <2>1
  <2>3. s[i + 1] = m[c + (i + 1) - 1] * Power((i + 1) - 1)
    BY <1>1, <2>1
  <2> QED
    BY <2>1, <2>2, <2>3
<1> QED
  BY <1>5, <1>6 DEF FieldSums

LEMMA FieldAgrees ==
  ASSUME NEW m, NEW w, NEW c \in Nat, NEW n \in Nat, \A x \in c..(c + n - 1) : m[x] = w[x]
  PROVE  Field(m, c, n) = Field(w, c, n)
<1>1. \A i \in 1..n : m[c + i - 1] = w[c + i - 1]
  <2>1. \A i \in 1..n : c + i - 1 \in c..(c + n - 1)
    OBVIOUS
  <2> QED
    BY <2>1
<1>2. Weighted(m, c, n) = Weighted(w, c, n)
  BY <1>1 DEF Weighted
<1> QED
  BY <1>2 DEF Field, Weighted

(* Up to n, which is small, by steps of one.                               *)
LEMMA UpTo ==
  ASSUME NEW n \in Nat, NEW S, 0 \in S, \A i \in 0..(n - 1) : i \in S => i + 1 \in S
  PROVE  n \in S
<1> DEFINE T == {k \in Nat : k <= n => k \in S}
<1>1. 0 \in T
  OBVIOUS
<1>2. ASSUME NEW k \in Nat, k \in T PROVE k + 1 \in T
  <2>1. k + 1 <= n => k \in 0..(n - 1)
    OBVIOUS
  <2> QED
    BY <1>2, <2>1
<1>3. Nat \subseteq T
  <2> HIDE DEF T
  <2> QED
    BY <1>1, <1>2, Induction
<1> QED
  BY <1>3

(* What the value of a field can be.                                       *)
LEMMA FieldRange ==
  ASSUME NEW m, NEW c \in Nat, NEW n \in 0..4,
         \A x \in c..(c + n - 1) : m[x] \in 0..(C - 1)
  PROVE  Field(m, c, n) \in 0..(Power(n) - 1)
<1>0. PICK f : FieldSums(f, m, c, n)
  BY FieldIsSum
<1>1. /\ Field(m, c, n) = f[n] /\ f[0] = 0
      /\ \A i \in 0..(n - 1) : f[i + 1] = f[i] + m[c + i] * Power(i)
  BY <1>0 DEF FieldSums
<1> DEFINE S == {i \in 0..n : f[i] \in 0..(Power(i) - 1)}
<1>2. 0 \in S
  BY <1>1, Powers
<1>3. ASSUME NEW i \in 0..(n - 1), i \in S PROVE i + 1 \in S
  <2>1. PICK p \in Nat \ {0} : p = Power(i)
    BY Powers
  <2>2. PICK a \in 0..(C - 1) : a = m[c + i]
    <3>1. c + i \in c..(c + n - 1)
      OBVIOUS
    <3> QED
      BY <3>1
  <2>3. PICK u \in Nat, z \in Nat : u = a * p /\ z = p * C
    BY RelocsAssumption, Grows, <2>1, <2>2
  <2>4. u + p <= z
    <3>1. C - 1 - a \in Nat /\ p \in Nat /\ C \in Nat \ {0} /\ a \in Int
      BY RelocsAssumption
    <3>2. (C - 1 - a) * p \in Nat
      BY <3>1, OneDigitMore
    <3>3. (C - 1 - a) * p = (C - 1) * p - u /\ (C - 1) * p = z - p
      BY <2>3, <3>1, Distributes
    <3> QED
      BY <3>2, <3>3
  <2>5. Power(i + 1) = z /\ f[i + 1] = f[i] + u /\ f[i] \in 0..(p - 1)
    BY <1>1, <1>3, <2>1, <2>2, <2>3, Powers
  <2> QED
    BY <2>4, <2>5
<1>4. n \in S
  <2> HIDE DEF S
  <2> QED
    BY <1>2, <1>3, UpTo
<1> QED
  BY <1>1, <1>4

(* The digits of a number make up a field with that number in it.          *)
LEMMA FieldOfDigits ==
  ASSUME NEW m, NEW c \in Nat, NEW n \in 0..4, NEW s \in Nat,
         \A i \in 0..(n - 1) : m[c + i] = (s \div Power(i)) % C
  PROVE  Field(m, c, n) = s % Power(n)
<1>0. C \in Nat \ {0}
  BY RelocsAssumption
<1>1. \A x \in c..(c + n - 1) : m[x] \in 0..(C - 1)
  <2> SUFFICES ASSUME NEW x \in c..(c + n - 1) PROVE m[x] \in 0..(C - 1)
    OBVIOUS
  <2>1. PICK i \in 0..(n - 1) : i = x - c
    OBVIOUS
  <2>2. m[x] = (s \div Power(i)) % C /\ Power(i) \in Nat \ {0}
    <3>1. c + i = x /\ i \in 0..4
      BY <2>1
    <3> QED
      BY <3>1, Powers
  <2>3. s \div Power(i) \in Int
    BY <2>2, Quotient
  <2> QED
    BY <1>0, <2>2, <2>3, Quotient
<1>2. PICK f : FieldSums(f, m, c, n)
  BY <1>1, FieldIsSum
<1>3. /\ Field(m, c, n) = f[n] /\ f[0] = 0
      /\ \A i \in 0..(n - 1) : f[i + 1] = f[i] + m[c + i] * Power(i)
  BY <1>2 DEF FieldSums
<1> DEFINE S == {i \in 0..n : f[i] = s % Power(i)}
<1>4. 0 \in S
  BY <1>3, Powers
<1>5. ASSUME NEW i \in 0..(n - 1), i \in S PROVE i + 1 \in S
  <2>1. PICK p \in Nat \ {0} : p = Power(i) /\ Power(i + 1) = p * C
    BY Powers
  <2>2. s % (p * C) = (s % p) + ((s \div p) % C) * p
    <3>1. s \in Int
      OBVIOUS
    <3> QED
      BY <1>0, <3>1, OneDigitMore, Zenon
  <2>3. f[i + 1] = (s % p) + ((s \div p) % C) * p
    BY <1>3, <1>5, <2>1
  <2> QED
    BY <2>1, <2>2, <2>3
<1>6. n \in S
  <2> HIDE DEF S
  <2> QED
    BY <1>4, <1>5, UpTo
<1> QED
  BY <1>3, <1>6
-----------------------------------------------------------------------------
Cell == 0..(C - 1)

(* An increase of a field within the image is an increase of its value.    *)
LEMMA PlusAdds ==
  ASSUME NEW m, NEW c \in Nat, NEW n \in 1..4, NEW d \in Nat,
         c..(c + n - 1) \subseteq DOMAIN m,
         \A x \in c..(c + n - 1) : m[x] \in Cell
  PROVE  /\ Field(Plus(m, c, n, d), c, n) = (Field(m, c, n) + d) % Power(n)
         /\ \A x \in c..(c + n - 1) : Plus(m, c, n, d)[x] \in Cell
<1>1. C \in Nat \ {0} /\ n \in 0..4 /\ Power(n) \in Nat \ {0}
  BY RelocsAssumption, Powers
<1>2. Field(m, c, n) \in Nat
  <2>1. Field(m, c, n) \in 0..(Power(n) - 1)
    BY ONLY <1>1, c \in Nat, FieldRange, \A x \in c..(c + n - 1) : m[x] \in Cell DEF Cell
  <2> QED
    BY <1>1, <2>1
<1>3. PICK s \in 0..(Power(n) - 1) : s = (Field(m, c, n) + d) % Power(n)
  <2>1. PICK v \in Int : v = Field(m, c, n) + d
    BY <1>2
  <2> QED
    BY <1>1, <2>1, Quotient
<1>4. s \in Nat
  BY <1>1
<1> DEFINE w == Plus(m, c, n, d)
<1>5. \A i \in 0..(n - 1) : w[c + i] = (s \div Power(i)) % C
  <2> SUFFICES ASSUME NEW i \in 0..(n - 1) PROVE w[c + i] = (s \div Power(i)) % C
    OBVIOUS
  <2>1. c + i \in c..(c + n - 1) /\ (c + i) - c = i
    OBVIOUS
  <2>2. c + i \in DOMAIN m
    BY <2>1
  <2> QED
    BY <1>3, <2>1, <2>2 DEF Plus
<1>6. \A x \in c..(c + n - 1) : w[x] \in Cell
  <2> SUFFICES ASSUME NEW x \in c..(c + n - 1) PROVE w[x] \in Cell
    OBVIOUS
  <2>1. PICK i \in 0..(n - 1) : c + i = x
    <3>1. x - c \in 0..(n - 1) /\ c + (x - c) = x
      OBVIOUS
    <3> QED
      BY <3>1
  <2>2. PICK p \in Nat \ {0} : p = Power(i)
    BY Powers
  <2>3. PICK q \in Int : q = s \div p
    BY <1>4, <2>2, Quotient
  <2>4. w[x] = q % C
    BY <1>5, <2>1, <2>2, <2>3
  <2> QED
    BY <1>1, <2>4, Quotient DEF Cell
<1> HIDE DEF w
<1>7. Field(w, c, n) = s % Power(n)
  BY ONLY <1>1, <1>4, <1>5, c \in Nat, FieldOfDigits
<1>8. s % Power(n) = s
  <2>1. s = 0 * Power(n) + s
    BY <1>1, <1>4
  <2> QED
    BY <1>1, <2>1, Unique
<1> QED
  BY <1>3, <1>6, <1>7, <1>8 DEF w
-----------------------------------------------------------------------------
LEMMA DeltaType ==
  ASSUME image \in Images
  PROVE  Delta \in Nat /\ Delta < Power(4)
<1>1. Power(4) \in Nat \ {0}
  BY Powers
<1>2. image.base \in Int /\ image.linked \in Int
  BY ImagesAssumption, <1>1 DEF ImageOK
<1>3. PICK a \in Int : a = image.base - image.linked
  BY <1>2
<1>4. a % Power(4) \in 0..(Power(4) - 1)
  BY <1>1, Quotient
<1> QED
  BY <1>1, <1>3, <1>4 DEF Delta

(* What is added to a field of each kind, and how long it is.              *)
Added(e) ==
  CASE e.type = Low -> Delta % C
    [] e.type = High -> (Delta \div C) % C
    [] e.type = HighLow -> Delta % Power(2)
    [] e.type = Dir64 -> Delta
    [] OTHER -> 0

LEMMA AppliedIsPlus ==
  ASSUME image \in Images, NEW e
  PROVE  /\ e.type \in {Low, High, HighLow, Dir64} =>
              /\ Width(e.type) \in 1..4
              /\ \A m : Applied(m, e) = Plus(m, e.at, Width(e.type), Added(e))
         /\ e.type \notin {Low, High, HighLow, Dir64} =>
              /\ Width(e.type) = 0
              /\ \A m : Applied(m, e) = m
         /\ Added(e) \in Nat
<1> USE DEF Low, High, HighLow, Dir64
<1>0. Added(e) \in Nat
  <2>1. C \in Nat \ {0} /\ Power(2) \in Nat \ {0} /\ Delta \in Int /\ Delta \in Nat
    BY RelocsAssumption, Powers, DeltaType
  <2>2. \A a \in Int, b \in Nat \ {0} : a % b \in Nat /\ a \div b \in Int
    BY Quotient
  <2>3. Delta % C \in Nat /\ Delta % Power(2) \in Nat /\ (Delta \div C) % C \in Nat
    BY <2>1, <2>2
  <2> QED
    BY <2>1, <2>2, <2>3 DEF Added
<1>1. CASE e.type = Low
  BY <1>0, <1>1 DEF Width, Applied, Added
<1>2. CASE e.type = High
  BY <1>0, <1>2 DEF Width, Applied, Added
<1>3. CASE e.type = HighLow
  BY <1>0, <1>3 DEF Width, Applied, Added
<1>4. CASE e.type = Dir64
  BY <1>0, <1>4 DEF Width, Applied, Added
<1>5. CASE e.type \notin {Low, High, HighLow, Dir64}
  BY <1>0, <1>5 DEF Width, Applied, Added
<1> QED
  BY <1>1, <1>2, <1>3, <1>4, <1>5

(* The new contents of a field depend on its old ones only.                *)
LEMMA AppliedAgrees ==
  ASSUME image \in Images, NEW e, e.at \in Nat, NEW m, NEW w,
         CellsOf(e) \subseteq DOMAIN m, CellsOf(e) \subseteq DOMAIN w,
         \A x \in CellsOf(e) : m[x] = w[x]
  PROVE  \A x \in CellsOf(e) : Applied(m, e)[x] = Applied(w, e)[x]
<1>1. CASE e.type \in {Low, High, HighLow, Dir64}
  <2> DEFINE n == Width(e.type)
  <2>1. n \in 1..4 /\ \A u : Applied(u, e) = Plus(u, e.at, n, Added(e))
    BY <1>1, AppliedIsPlus
  <2>2. CellsOf(e) = e.at..(e.at + n - 1)
    BY DEF CellsOf
  <2> HIDE DEF n
  <2>3. Field(m, e.at, n) = Field(w, e.at, n)
    <3>1. n \in Nat /\ \A x \in e.at..(e.at + n - 1) : m[x] = w[x]
      BY <2>1, <2>2
    <3> QED
      BY <3>1, FieldAgrees, Zenon
  <2> QED
    BY <2>1, <2>2, <2>3 DEF Plus
<1>2. CASE e.type \notin {Low, High, HighLow, Dir64}
  BY <1>2, AppliedIsPlus
<1> QED
  BY <1>1, <1>2

(* What an entry does to the field it is for.                              *)
LEMMA AppliedAdds ==
  ASSUME image \in Images, NEW e, e.at \in Nat, NEW m,
         CellsOf(e) \subseteq DOMAIN m, \A x \in CellsOf(e) : m[x] \in Cell
  PROVE  /\ \A x \in CellsOf(e) : Applied(m, e)[x] \in Cell
         /\ e.type \in {HighLow, Dir64} =>
              Field(Applied(m, e), e.at, Width(e.type))
                = (Field(m, e.at, Width(e.type)) + Delta) % Power(Width(e.type))
         /\ e.type = Low => Applied(m, e)[e.at] = (m[e.at] + (Delta % C)) % C
         /\ e.type = High => Applied(m, e)[e.at] = (m[e.at] + ((Delta \div C) % C)) % C
<1> DEFINE n == Width(e.type)
<1>0. CellsOf(e) = e.at..(e.at + n - 1)
  BY DEF CellsOf
<1>1. CASE e.type \notin {Low, High, HighLow, Dir64}
  <2>1. Applied(m, e) = m
    BY <1>1, AppliedIsPlus
  <2> QED
    BY <1>1, <2>1
<1>2. CASE e.type \in {Low, High, HighLow, Dir64}
  <2>1. n \in 1..4 /\ Applied(m, e) = Plus(m, e.at, n, Added(e)) /\ Added(e) \in Nat
    BY <1>2, AppliedIsPlus
  <2> HIDE DEF n
  <2>2. /\ Field(Applied(m, e), e.at, n) = (Field(m, e.at, n) + Added(e)) % Power(n)
        /\ \A x \in CellsOf(e) : Applied(m, e)[x] \in Cell
    <3>1. /\ e.at..(e.at + n - 1) \subseteq DOMAIN m
          /\ \A x \in e.at..(e.at + n - 1) : m[x] \in Cell
      BY <1>0 DEF n
    <3>2. /\ Field(Plus(m, e.at, n, Added(e)), e.at, n) = (Field(m, e.at, n) + Added(e)) % Power(n)
          /\ \A x \in e.at..(e.at + n - 1) : Plus(m, e.at, n, Added(e))[x] \in Cell
      BY ONLY <2>1, <3>1, PlusAdds, e.at \in Nat
    <3> QED
      BY <1>0, <2>1, <3>2 DEF n
  <2>3. Field(m, e.at, n) \in Int
    <3>1. n \in 0..4 /\ Power(n) \in Nat
      BY <2>1, Powers
    <3>2. Field(m, e.at, n) \in 0..(Power(n) - 1)
      BY <1>0, <3>1, FieldRange DEF Cell
    <3> QED
      BY <3>1, <3>2
  <2>4. CASE e.type = Dir64
    <3>1. Added(e) = Delta
      BY <2>4 DEF Added, Low, High, HighLow, Dir64
    <3> QED
      BY <2>2, <2>4, <3>1 DEF n, Low, High, Dir64
  <2>5. CASE e.type = HighLow
    <3>1. Added(e) = Delta % Power(2) /\ n = 2
      BY <2>5 DEF Added, n, Width, Low, High, HighLow, Dir64
    <3>2. PICK p \in Nat \ {0}, q \in Int, a \in Int, d \in Int, k \in Int :
            /\ p = Power(2) /\ a = Field(m, e.at, 2) /\ d = Delta
            /\ q = d % p /\ k = d \div p /\ d = k * p + q
      <4>1. Power(2) \in Nat \ {0} /\ Delta \in Int
        BY Powers, DeltaType
      <4>2. PICK p \in Nat \ {0}, d \in Int : p = Power(2) /\ d = Delta
        BY <4>1
      <4>3. d % p \in Int /\ d \div p \in Int /\ d = (d \div p) * p + (d % p)
        BY Quotient
      <4>4. Field(m, e.at, 2) \in Int
        BY <2>3, <3>1
      <4> QED
        BY <4>2, <4>3, <4>4
    <3>3. (a + q + k * p) % p = (a + q) % p
      <4>1. PICK t \in Int : t = a + q
        OBVIOUS
      <4>2. (t + k * p) % p = t % p
        BY Modulo
      <4> QED
        BY <4>1, <4>2
    <3>4. a + d = a + q + k * p
      <4>1. k * p \in Int
        BY Distributes
      <4> QED
        BY <3>2, <4>1
    <3>5. (a + d) % p = (a + q) % p
      BY <3>3, <3>4
    <3> QED
      BY <2>2, <2>5, <3>1, <3>2, <3>5 DEF n, Low, High, HighLow
  <2>6. CASE e.type = Low \/ e.type = High
    <3>1. n = 1
      BY <2>6 DEF n, Width, High, Low, HighLow, Dir64
    <3>2. e.at \in CellsOf(e) /\ m[e.at] \in Cell
      BY <1>0, <3>1
    <3>3. \A u : u[e.at] \in Cell => Field(u, e.at, 1) = u[e.at]
      <4> SUFFICES ASSUME NEW u, u[e.at] \in Cell PROVE Field(u, e.at, 1) = u[e.at]
        OBVIOUS
      <4>1. u[e.at] = (u[e.at] \div Power(0)) % C
        BY RelocsAssumption, Powers DEF Cell
      <4>2. \A i \in 0..(1 - 1) : u[e.at + i] = (u[e.at] \div Power(i)) % C
        BY <4>1
      <4>3. Field(u, e.at, 1) = u[e.at] % Power(1)
        <5>1. u[e.at] \in Nat /\ 1 \in 0..4
          BY RelocsAssumption DEF Cell
        <5> QED
          BY <4>2, <5>1, FieldOfDigits
      <4> QED
        BY <4>3, Powers, RelocsAssumption DEF Cell
    <3>4. Applied(m, e)[e.at] = (m[e.at] + Added(e)) % C
      BY <2>2, <3>1, <3>2, <3>3, Powers
    <3> QED
      BY <2>2, <2>6, <3>4 DEF Added, Low, High, HighLow, Dir64
  <2> QED
    BY <1>2, <2>4, <2>5, <2>6
<1> QED
  BY <1>1, <1>2

(* An increase changes the cells of its field and no others.               *)
LEMMA PlusInside ==
  ASSUME NEW m, NEW at, NEW n, NEW d
  PROVE  /\ DOMAIN Plus(m, at, n, d) = DOMAIN m
         /\ \A c \in DOMAIN m : c \notin at..(at + n - 1) => Plus(m, at, n, d)[c] = m[c]
BY DEF Plus

LEMMA AppliedInside ==
  ASSUME NEW m, NEW e
  PROVE  /\ DOMAIN Applied(m, e) = DOMAIN m
         /\ \A c \in DOMAIN m : c \notin CellsOf(e) => Applied(m, e)[c] = m[c]
<1> USE DEF CellsOf, Width, Absolute, High, Low, HighLow, HighAdj, Dir64
<1>1. CASE e.type = Low \/ e.type = High
  BY <1>1, PlusInside DEF Applied
<1>2. CASE e.type = HighLow
  BY <1>2, PlusInside DEF Applied
<1>3. CASE e.type = Dir64
  BY <1>3, PlusInside DEF Applied
<1>4. CASE e.type \notin {Low, High, HighLow, Dir64}
  BY <1>4 DEF Applied
<1> QED
  BY <1>1, <1>2, <1>3, <1>4

(* The entry to apply is one of the directory.                             *)
RelocsInv ==
  /\ image \in Images /\ blk \in 1..(Len(image.blocks) + 1) /\ ent \in Nat
  /\ pc = "entries" => MoreBlocks /\ ent <= Len(Entries)
  /\ DOMAIN cells = DOMAIN image.cells
  /\ RestUntouched

Sizes == [b \in DOMAIN image.blocks |-> BlockSize(image.blocks[b])]

(* A sound directory: as many bytes are passed as the blocks before take,  *)
(* and the walk ends after the last of them, or before the first if the    *)
(* image has not moved.                                                    *)
WalkInv ==
  WellFormed =>
    /\ pc \in {"start", "block"} => done = Sums(Sizes)[blk - 1]
    /\ pc = "entries" => done = Sums(Sizes)[blk]
    /\ pc # "crash"
    /\ pc = "done" => (Delta = 0 /\ cells = image.cells) \/ blk = Len(image.blocks) + 1
    /\ pc = "start" => cells = image.cells

Passed(x) == x[1] < blk \/ (pc = "entries" /\ x[1] = blk /\ x[2] <= ent)

(* A field holds what its entry made of it, or what it held at first.      *)
FieldsInv ==
  WellFormed =>
    \A x \in AllEntries : \A c \in CellsOf(EntryAt(x)) :
      cells[c] = IF Passed(x) THEN Applied(image.cells, EntryAt(x))[c] ELSE image.cells[c]

MovedInv == RelocsInv /\ WalkInv /\ FieldsInv
-----------------------------------------------------------------------------
(* The entries of a directory, and the sums of the sizes of its blocks.    *)
LEMMA EntriesOf ==
  ASSUME image \in Images
  PROVE  /\ Len(image.blocks) \in Nat /\ DOMAIN image.blocks = 1..Len(image.blocks)
         /\ \A b \in 1..Len(image.blocks) :
              /\ Len(image.blocks[b].entries) \in Nat
              /\ DOMAIN image.blocks[b].entries = 1..Len(image.blocks[b].entries)
              /\ \A j \in 1..Len(image.blocks[b].entries) :
                   /\ <<b, j>> \in AllEntries
                   /\ EntryAt(<<b, j>>) = image.blocks[b].entries[j]
         /\ \A x \in AllEntries :
              /\ x = <<x[1], x[2]>> /\ x[1] \in 1..Len(image.blocks)
              /\ x[2] \in 1..Len(image.blocks[x[1]].entries)
              /\ EntryAt(x).at \in Nat
<1>1. image.blocks \in Seq(Block)
  BY ImagesAssumption DEF ImageOK
<1>2. Len(image.blocks) \in Nat /\ DOMAIN image.blocks = 1..Len(image.blocks)
  BY <1>1
<1>3. \A b \in 1..Len(image.blocks) : image.blocks[b].entries \in Seq(Entry)
  <2>1. \A b \in 1..Len(image.blocks) : image.blocks[b] \in Block
    BY <1>1, ElementOfSeq
  <2> QED
    BY <2>1, Zenon DEF Block
<1>4. \A b \in 1..Len(image.blocks) :
        /\ Len(image.blocks[b].entries) \in Nat
        /\ DOMAIN image.blocks[b].entries = 1..Len(image.blocks[b].entries)
  BY <1>3
<1>5. \A b \in 1..Len(image.blocks) : \A j \in 1..Len(image.blocks[b].entries) :
        /\ <<b, j>> \in AllEntries
        /\ EntryAt(<<b, j>>) = image.blocks[b].entries[j]
  BY <1>2, <1>4 DEF AllEntries, EntryAt
<1>6. ASSUME NEW x \in AllEntries
      PROVE  /\ x = <<x[1], x[2]>> /\ x[1] \in 1..Len(image.blocks)
             /\ x[2] \in 1..Len(image.blocks[x[1]].entries)
             /\ EntryAt(x).at \in Nat
  <2>1. PICK b \in 1..Len(image.blocks) :
          \E j \in 1..Len(image.blocks[b].entries) : x = <<b, j>>
    BY <1>2, <1>4 DEF AllEntries
  <2>2. PICK j \in 1..Len(image.blocks[b].entries) : x = <<b, j>>
    BY <2>1
  <2>3. image.blocks[b].entries[j] \in Entry
    BY <1>3, <2>2, ElementOfSeq
  <2> QED
    BY <2>2, <2>3 DEF EntryAt, Entry
<1> QED
  BY <1>2, <1>4, <1>5, <1>6

LEMMA SizesOf ==
  ASSUME image \in Images
  PROVE  /\ Len(Sizes) = Len(image.blocks)
         /\ Sums(Sizes)[0] = 0 /\ Sum(Sizes) = Sums(Sizes)[Len(image.blocks)]
         /\ \A b \in 1..Len(image.blocks) :
              Sums(Sizes)[b] = Sums(Sizes)[b - 1] + BlockSize(image.blocks[b])
         /\ \A b \in 0..Len(image.blocks) : Sums(Sizes)[b] \in Nat
         /\ \A b \in 0..Len(image.blocks) :
              b < Len(image.blocks) => Sums(Sizes)[b] + HeaderSize <= Sum(Sizes)
         /\ \A b \in 1..Len(image.blocks) : BlockSize(image.blocks[b]) >= HeaderSize
<1> DEFINE n == Len(image.blocks)
<1>1. n \in Nat /\ DOMAIN image.blocks = 1..n
  BY EntriesOf
<1>2. \A b \in 1..n : BlockSize(image.blocks[b]) \in Nat /\ BlockSize(image.blocks[b]) >= HeaderSize
  BY EntriesOf DEF BlockSize, HeaderSize
<1>3. Sizes \in Seq(Nat) /\ Len(Sizes) = n /\ \A b \in 1..n : Sizes[b] = BlockSize(image.blocks[b])
  <2>1. Sizes \in [1..n -> Nat] /\ \A b \in 1..n : Sizes[b] = BlockSize(image.blocks[b])
    BY <1>1, <1>2 DEF Sizes
  <2> QED
    BY <1>1, <2>1, LenProperties
<1> HIDE DEF n
<1>4. /\ Sum(Sizes) = Sums(Sizes)[n] /\ Sums(Sizes)[0] = 0
      /\ \A i \in 1..n : Sums(Sizes)[i] = Sums(Sizes)[i - 1] + Sizes[i]
  BY <1>1, <1>3, SumsOf
<1>5. /\ \A i \in 0..n : Sums(Sizes)[i] \in Nat
      /\ \A i \in 0..n : i < n => Sums(Sizes)[i] + HeaderSize <= Sum(Sizes)
  <2>1. HeaderSize \in Nat /\ \A i \in 1..Len(Sizes) : Sizes[i] >= HeaderSize
    BY <1>2, <1>3 DEF HeaderSize
  <2> QED
    BY <1>3, <2>1, SumsGrow
<1> QED
  BY <1>2, <1>3, <1>4, <1>5 DEF n

LEMMA InitRelocs == Init => MovedInv
<1> SUFFICES ASSUME Init PROVE MovedInv
  OBVIOUS
<1>1. image \in Images /\ cells = image.cells /\ blk = 1 /\ done = 0 /\ ent = 0 /\ pc = "start"
  BY DEF Init
<1>2. Len(image.blocks) \in Nat
  BY <1>1, EntriesOf
<1>3. RelocsInv
  BY <1>1, <1>2, RelocsAssumption DEF RelocsInv, RestUntouched
<1>4. WalkInv
  BY <1>1, SizesOf DEF WalkInv
<1>5. FieldsInv
  <2>1. \A x \in AllEntries : ~ Passed(x)
    BY <1>1, EntriesOf DEF Passed
  <2> QED
    BY <1>1, <2>1 DEF FieldsInv
<1> QED
  BY <1>3, <1>4, <1>5 DEF MovedInv

LEMMA SameImage ==
  ASSUME image' = image
  PROVE  /\ AllEntries' = AllEntries /\ Delta' = Delta /\ Sizes' = Sizes
         /\ WellFormed' = WellFormed
         /\ \A x : EntryAt(x)' = EntryAt(x)
         /\ \A m, e : Applied(m, e)' = Applied(m, e)
BY DEF AllEntries, EntryAt, Delta, Sizes, WellFormed, Applied

(* The field of a sound entry is in the image, and it is read whole.       *)
LEMMA SoundEntry ==
  ASSUME RelocsInv, WellFormed, pc = "entries"
  PROVE  /\ ent < Len(Entries) => Inside(Entries[ent + 1])
         /\ Count(image.blocks[blk]) = Len(Entries)
<1>1. blk \in 1..Len(image.blocks) /\ Len(Entries) \in Nat
  BY EntriesOf DEF RelocsInv, MoreBlocks, Entries
<1>2. ASSUME ent < Len(Entries)
      PROVE  Inside(Entries[ent + 1])
  <2>1. ent + 1 \in 1..Len(Entries)
    BY <1>1, <1>2 DEF RelocsInv
  <2>2. /\ <<blk, ent + 1>> \in AllEntries
        /\ EntryAt(<<blk, ent + 1>>) = Entries[ent + 1]
    BY <1>1, <2>1, EntriesOf DEF Entries, RelocsInv
  <2> QED
    BY <2>2 DEF WellFormed, Inside, RelocsInv
<1>3. Count(image.blocks[blk]) = Len(Entries)
  <2>1. PICK n \in Nat : n = Len(Entries)
    BY <1>1
  <2>2. image.blocks[blk].size = HeaderSize + 2 * n
    BY <1>1, <2>1, EntriesOf DEF WellFormed, BlockSize, Entries, RelocsInv
  <2>3. image.blocks[blk].size \in 0..(U32 - 1)
    <3>1. image.blocks \in Seq(Block)
      BY ImagesAssumption DEF ImageOK, RelocsInv
    <3>2. image.blocks[blk] \in Block
      BY <1>1, <3>1, ElementOfSeq
    <3> QED
      BY <3>2 DEF Block
  <2>4. image.blocks[blk].size - HeaderSize = 2 * n /\ 2 * n < U32
    BY <2>2, <2>3, RelocsAssumption DEF HeaderSize
  <2>5. (2 * n) % U32 = 2 * n
    <3>1. PICK z \in 0..(U32 - 1) : z = 2 * n
      BY <2>4, RelocsAssumption DEF HeaderSize
    <3>2. z = 0 * U32 + z /\ U32 \in Nat \ {0}
      BY RelocsAssumption DEF HeaderSize
    <3>3. z % U32 = z
      BY <3>2, Unique
    <3> QED
      BY <3>1, <3>3
  <2>6. (2 * n) \div 2 = n
    OBVIOUS
  <2> QED
    BY <2>1, <2>4, <2>5, <2>6 DEF Count
<1> QED
  BY <1>2, <1>3

LEMMA NextRelocs ==
  ASSUME RelocsInv, [Next]_vars
  PROVE  RelocsInv' /\ image' = image
<1> USE DEF RelocsInv
<1>0. Len(image.blocks) \in Nat
  BY EntriesOf
<1>1. CASE Start \/ NoMoreBlocks \/ NoMoreEntries \/ Finish \/ UNCHANGED vars
  <2>1. UNCHANGED <<image, cells, blk, ent>> /\ (pc' = "entries" => pc = "entries")
    BY <1>1 DEF Start, NoMoreBlocks, NoMoreEntries, Finish, vars
  <2>2. RestUntouched'
    BY <2>1, SameImage DEF RestUntouched, CellsOf
  <2> QED
    BY <2>1, <2>2 DEF MoreBlocks, Entries
<1>2. CASE NextBlock
  <2>1. UNCHANGED <<image, cells, blk>> /\ ent' = 0 /\ pc' = "entries" /\ MoreBlocks
    BY <1>2 DEF NextBlock
  <2>2. RestUntouched'
    BY <2>1, SameImage DEF RestUntouched, CellsOf
  <2>3. Len(Entries) \in Nat
    BY <2>1, EntriesOf DEF MoreBlocks, Entries
  <2> QED
    BY <2>1, <2>2, <2>3 DEF MoreBlocks, Entries
<1>3. CASE BlockDone
  <2>1. UNCHANGED <<image, cells, ent>> /\ blk' = blk + 1 /\ pc' = "block" /\ pc = "entries"
    BY <1>3 DEF BlockDone
  <2>2. RestUntouched'
    BY <2>1, SameImage DEF RestUntouched, CellsOf
  <2> QED
    BY <1>0, <2>1, <2>2 DEF MoreBlocks
<1>4. CASE ApplyEntry \/ WriteOutside
  <2> DEFINE e == Entries[ent + 1]
  <2>1. /\ pc = "entries" /\ ent < Len(Entries) /\ pc' \in {"entries", "crash"}
        /\ ent' = ent + 1 /\ UNCHANGED <<image, blk>>
    BY <1>4 DEF ApplyEntry, WriteOutside
  <2>2. <<blk, ent + 1>> \in AllEntries /\ EntryAt(<<blk, ent + 1>>) = e
    <3>1. blk \in 1..Len(image.blocks)
      BY <1>0, <2>1 DEF MoreBlocks
    <3>2. ent + 1 \in 1..Len(Entries)
      BY <2>1, <3>1, EntriesOf DEF Entries
    <3> QED
      BY <3>1, <3>2, EntriesOf DEF Entries
  <2>3. /\ DOMAIN cells' = DOMAIN cells
        /\ \A c \in DOMAIN cells : c \notin CellsOf(e) => cells'[c] = cells[c]
    <3>1. CASE ApplyEntry
      BY <3>1, AppliedInside DEF ApplyEntry
    <3>2. CASE WriteOutside
      BY <3>2 DEF WriteOutside
    <3> QED
      BY <1>4, <3>1, <3>2
  <2> HIDE DEF e
  <2>4. /\ AllEntries' = AllEntries /\ WellFormed' = WellFormed
        /\ \A x : EntryAt(x)' = EntryAt(x)
    BY <2>1, SameImage
  <2>5. RestUntouched'
    BY <2>1, <2>2, <2>3, <2>4 DEF RestUntouched, CellsOf
  <2>6. Len(Entries) \in Nat /\ Entries' = Entries
    BY <1>0, <2>1, EntriesOf DEF MoreBlocks, Entries
  <2> QED
    BY <2>1, <2>3, <2>5, <2>6 DEF MoreBlocks
<1> QED
  BY <1>1, <1>2, <1>3, <1>4 DEF Next, Step

LEMMA NextWalk ==
  ASSUME RelocsInv, WalkInv, [Next]_vars
  PROVE  WalkInv'
<1>0. RelocsInv' /\ image' = image
  BY NextRelocs
<1>1. Delta' = Delta /\ Sizes' = Sizes /\ WellFormed' = WellFormed
  BY <1>0, SameImage
<1> SUFFICES ASSUME WellFormed
             PROVE  /\ pc' \in {"start", "block"} => done' = Sums(Sizes)[blk' - 1]
                    /\ pc' = "entries" => done' = Sums(Sizes)[blk']
                    /\ pc' # "crash"
                    /\ pc' = "done" =>
                         (Delta = 0 /\ cells' = image.cells) \/ blk' = Len(image.blocks) + 1
                    /\ pc' = "start" => cells' = image.cells
  BY <1>0, <1>1 DEF WalkInv
<1>2. PICK n \in Nat : n = Len(image.blocks)
  BY EntriesOf DEF RelocsInv
<1>3. /\ blk \in 1..(n + 1)
      /\ pc \in {"start", "block"} => done = Sums(Sizes)[blk - 1]
      /\ pc = "entries" => done = Sums(Sizes)[blk] /\ blk <= n
      /\ pc # "crash"
      /\ pc = "done" => (Delta = 0 /\ cells = image.cells) \/ blk = n + 1
      /\ pc = "start" => cells = image.cells
  BY <1>2 DEF RelocsInv, WalkInv, MoreBlocks
<1>4. /\ image.total = Sums(Sizes)[n] /\ Sums(Sizes)[0] = 0 /\ image.total = Sum(Sizes)
      /\ \A b \in 1..n : Sums(Sizes)[b] = Sums(Sizes)[b - 1] + image.blocks[b].size
      /\ \A b \in 1..n : image.blocks[b].size >= HeaderSize
      /\ \A b \in 0..n : Sums(Sizes)[b] \in Nat
      /\ \A b \in 0..n : b < n => Sums(Sizes)[b] + HeaderSize <= Sum(Sizes)
  <2>1. image \in Images /\ DOMAIN image.blocks = 1..n
    BY <1>2, EntriesOf DEF RelocsInv
  <2>2. \A b \in 1..n : image.blocks[b].size = BlockSize(image.blocks[b])
    BY <2>1 DEF WellFormed
  <2>3. image.total = Sum(Sizes)
    BY DEF WellFormed, Sizes
  <2> QED
    BY <1>2, <2>1, <2>2, <2>3, SizesOf
<1>5. CASE Start
  BY <1>3, <1>5 DEF Start
<1>6. CASE NextBlock
  <2>1. /\ blk <= n /\ blk' = blk /\ done' = (done + image.blocks[blk].size) % U32
        /\ pc = "block" /\ pc' = "entries"
    BY <1>2, <1>6 DEF NextBlock, MoreBlocks
  <2>2. blk \in 1..n
    BY <1>3, <2>1
  <2>3. PICK d \in Nat : d = done + image.blocks[blk].size /\ d = Sums(Sizes)[blk]
    BY <1>3, <1>4, <2>1, <2>2
  <2>4. d < U32
    <3>1. d <= image.total
      <4>1. blk < n => d + HeaderSize <= image.total
        BY <1>4, <2>2, <2>3
      <4>2. image.total \in Nat
        BY <1>0, ImagesAssumption DEF ImageOK, RelocsInv
      <4>3. blk = n => d = image.total
        BY <1>4, <2>3
      <4>4. blk < n \/ blk = n
        BY <2>2
      <4>5. PICK t \in Nat : t = image.total
        BY <4>2
      <4> QED
        BY <4>1, <4>3, <4>4, <4>5 DEF HeaderSize
    <3>2. image.total \in 0..(U32 - 1)
      BY <1>0, ImagesAssumption DEF ImageOK, RelocsInv
    <3> QED
      BY <3>1, <3>2, RelocsAssumption
  <2>5. d % U32 = d
    <3>1. d \in 0..(U32 - 1) /\ d = 0 * U32 + d /\ U32 \in Nat \ {0}
      BY <2>4, RelocsAssumption DEF HeaderSize
    <3> QED
      BY <3>1, Unique
  <2> QED
    BY <2>1, <2>3, <2>5
<1>7. CASE NoMoreBlocks
  <2>1. pc = "block" /\ done < image.total /\ blk = n + 1
    BY <1>2, <1>3, <1>7 DEF NoMoreBlocks, MoreBlocks
  <2>2. blk - 1 = n
    BY <2>1
  <2>3. done = image.total
    BY <1>3, <1>4, <2>1, <2>2
  <2>4. PICK t \in Nat : t = image.total
    BY <1>0, ImagesAssumption DEF ImageOK, RelocsInv
  <2> QED
    BY <2>1, <2>3, <2>4
<1>8. CASE ApplyEntry
  BY <1>3, <1>8 DEF ApplyEntry
<1>9. CASE WriteOutside
  BY <1>9, SoundEntry DEF WriteOutside
<1>10. CASE NoMoreEntries
  <2>1. Len(Entries) \in Nat
    BY <1>10, EntriesOf DEF NoMoreEntries, RelocsInv, MoreBlocks, Entries
  <2> QED
    BY <1>10, <2>1, SoundEntry DEF NoMoreEntries
<1>11. CASE BlockDone
  <2>1. pc = "entries" /\ blk' = blk + 1 /\ pc' = "block" /\ done' = done
    BY <1>11 DEF BlockDone
  <2>2. blk' - 1 = blk
    BY <1>3, <2>1
  <2> QED
    BY <1>3, <2>1, <2>2
<1>12. CASE Finish
  <2>1. pc = "block" /\ done >= image.total /\ pc' = "done" /\ blk' = blk
    BY <1>12 DEF Finish
  <2>2. blk = n + 1
    <3>1. blk - 1 \in 0..n /\ Sums(Sizes)[blk - 1] \in Nat /\ n \in 0..n
      BY <1>3, <1>4
    <3>2. blk - 1 < n => Sums(Sizes)[blk - 1] + HeaderSize <= Sums(Sizes)[n]
      BY <1>4, <3>1
    <3>3. Sums(Sizes)[n] \in Nat /\ Sums(Sizes)[blk - 1] >= Sums(Sizes)[n]
      BY <1>3, <1>4, <2>1, <3>1
    <3>4. ~ (blk - 1 < n)
      BY <3>1, <3>2, <3>3 DEF HeaderSize
    <3> QED
      BY <1>3, <3>4
  <2> QED
    BY <1>2, <2>1, <2>2
<1>13. CASE UNCHANGED vars
  BY <1>2, <1>3, <1>13 DEF vars
<1> QED
  BY <1>5, <1>6, <1>7, <1>8, <1>11, <1>12, <1>13, <1>9, <1>10 DEF Next, Step

LEMMA NextFields ==
  ASSUME MovedInv, [Next]_vars
  PROVE  FieldsInv'
<1> USE DEF MovedInv
<1>0. RelocsInv' /\ image' = image
  BY NextRelocs
<1>1. /\ AllEntries' = AllEntries /\ WellFormed' = WellFormed
      /\ \A x : EntryAt(x)' = EntryAt(x)
      /\ \A m, e : Applied(m, e)' = Applied(m, e)
  BY <1>0, SameImage
<1> SUFFICES ASSUME WellFormed, NEW x \in AllEntries, NEW c \in CellsOf(EntryAt(x))
             PROVE  cells'[c] = IF Passed(x)' THEN Applied(image.cells, EntryAt(x))[c]
                                ELSE image.cells[c]
  BY <1>0, <1>1 DEF FieldsInv, CellsOf
<1>2. cells[c] = IF Passed(x) THEN Applied(image.cells, EntryAt(x))[c] ELSE image.cells[c]
  BY DEF FieldsInv
<1>3. image \in Images /\ blk \in Nat /\ ent \in Nat
  BY EntriesOf DEF RelocsInv
<1>4. /\ x = <<x[1], x[2]>> /\ x[1] \in Nat /\ x[2] \in Nat /\ x[1] >= 1 /\ x[2] >= 1
      /\ x[1] \in 1..Len(image.blocks)
      /\ x[2] \in 1..Len(image.blocks[x[1]].entries)
  BY <1>3, EntriesOf
<1>5. ASSUME cells' = cells, Passed(x)' = Passed(x)
      PROVE  cells'[c] = IF Passed(x)' THEN Applied(image.cells, EntryAt(x))[c]
                         ELSE image.cells[c]
  BY <1>2, <1>5
<1>6. CASE Start \/ NoMoreBlocks \/ Finish \/ UNCHANGED vars
  <2>1. cells' = cells
    BY <1>6 DEF Start, NoMoreBlocks, Finish, vars
  <2>2. Passed(x)' <=> Passed(x)
    BY <1>6 DEF Start, NoMoreBlocks, Finish, vars, Passed
  <2> QED
    BY <1>2, <2>1, <2>2
<1>7. CASE NextBlock
  <2>1. cells' = cells /\ blk' = blk /\ ent' = 0 /\ pc = "block"
    BY <1>7 DEF NextBlock
  <2>2. Passed(x)' <=> Passed(x)
    BY <1>3, <1>4, <2>1 DEF Passed
  <2> QED
    BY <1>2, <2>1, <2>2
<1>8. CASE BlockDone
  <2>1. /\ cells' = cells /\ blk' = blk + 1 /\ ent = Len(Entries) /\ pc = "entries"
        /\ pc' = "block"
    BY <1>8, SoundEntry DEF BlockDone
  <2>2. x[1] = blk => x[2] <= ent
    BY <1>4, <2>1 DEF Entries
  <2>3. Passed(x)' <=> Passed(x)
    BY <1>3, <1>4, <2>1, <2>2 DEF Passed
  <2> QED
    BY <1>2, <2>1, <2>3
<1>9. CASE ApplyEntry
  <2> DEFINE e == Entries[ent + 1]
  <2>0. PICK y : y = <<blk, ent + 1>>
    OBVIOUS
  <2>1. /\ pc = "entries" /\ ent < Len(Entries) /\ cells' = Applied(cells, e)
        /\ ent' = ent + 1 /\ UNCHANGED <<image, blk, done, pc>>
    BY <1>9 DEF ApplyEntry
  <2>2. y \in AllEntries /\ EntryAt(y) = e /\ e.at \in Nat
    <3>1. blk \in 1..Len(image.blocks)
      BY <1>3, <2>1, EntriesOf DEF RelocsInv, MoreBlocks
    <3>2. ent + 1 \in 1..Len(Entries)
      BY <1>3, <2>1, <3>1, EntriesOf DEF Entries
    <3>3. y \in AllEntries /\ EntryAt(y) = e
      BY <1>3, <2>0, <3>1, <3>2, EntriesOf DEF Entries
    <3> QED
      BY <1>3, <3>3, EntriesOf
  <2> HIDE DEF e
  <2>3. CASE x = y
    <3>1. ~ Passed(y) /\ Passed(y)'
      BY <1>3, <2>0, <2>1 DEF Passed
    <3>2. CellsOf(e) \subseteq DOMAIN image.cells /\ CellsOf(e) \subseteq DOMAIN cells
      BY <2>2 DEF WellFormed, RelocsInv
    <3>3. \A z \in CellsOf(e) : cells[z] = image.cells[z]
      BY <2>2, <3>1 DEF FieldsInv
    <3>4. Applied(cells, e)[c] = Applied(image.cells, e)[c]
      BY <1>3, <2>2, <2>3, <3>2, <3>3, AppliedAgrees
    <3> QED
      BY <2>1, <2>2, <2>3, <3>1, <3>4
  <2>4. CASE x # y
    <3>1. CellsOf(EntryAt(x)) \cap CellsOf(e) = {}
      BY <2>2, <2>4 DEF WellFormed
    <3>2. c \in DOMAIN cells /\ c \notin CellsOf(e)
      BY <3>1 DEF WellFormed, RelocsInv
    <3>3. cells'[c] = cells[c]
      BY <2>1, <3>2, AppliedInside
    <3>4. ~ (x[1] = blk /\ x[2] = ent + 1)
      BY <1>4, <2>0, <2>4
    <3>5. Passed(x)' <=> Passed(x)
      BY <1>3, <1>4, <2>1, <3>4 DEF Passed
    <3> QED
      BY <1>2, <3>3, <3>5
  <2> QED
    BY <2>3, <2>4
<1>10. ~ WriteOutside /\ ~ NoMoreEntries
  <2>1. pc = "entries" => Len(Entries) \in Nat
    BY EntriesOf DEF RelocsInv, MoreBlocks, Entries
  <2> QED
    BY <2>1, SoundEntry DEF WriteOutside, NoMoreEntries
<1> QED
  BY <1>6, <1>7, <1>8, <1>9, <1>10 DEF Next, Step

LEMMA RelocsInvariant == Spec => []MovedInv
<1>1. MovedInv /\ [Next]_vars => MovedInv'
  BY NextRelocs, NextWalk, NextFields DEF MovedInv
<1> QED
  BY <1>1, InitRelocs, PTL DEF Spec
-----------------------------------------------------------------------------
(* At the end of the walk over a sound directory every field is moved, or  *)
(* nothing is because there is no distance.                                *)
LEMMA AtTheEnd ==
  ASSUME MovedInv, pc = "done", WellFormed
  PROVE  \/ Delta = 0 /\ cells = image.cells
         \/ \A x \in AllEntries : \A c \in CellsOf(EntryAt(x)) :
              cells[c] = Applied(image.cells, EntryAt(x))[c]
<1> SUFFICES ASSUME blk = Len(image.blocks) + 1,
                    NEW x \in AllEntries, NEW c \in CellsOf(EntryAt(x))
             PROVE  cells[c] = Applied(image.cells, EntryAt(x))[c]
  BY DEF MovedInv, WalkInv
<1>1. x[1] \in 1..Len(image.blocks) /\ Len(image.blocks) \in Nat
  BY EntriesOf DEF MovedInv, RelocsInv
<1>2. Passed(x)
  BY <1>1 DEF Passed
<1> QED
  BY <1>2 DEF MovedInv, FieldsInv

(* The cells of a sound entry.                                             *)
LEMMA Fields ==
  ASSUME image \in Images, WellFormed, NEW x \in AllEntries
  PROVE  /\ EntryAt(x).at \in Nat
         /\ CellsOf(EntryAt(x)) \subseteq DOMAIN image.cells
         /\ \A c \in CellsOf(EntryAt(x)) : image.cells[c] \in Cell
<1>1. CellsOf(EntryAt(x)) \subseteq DOMAIN image.cells
  BY DEF WellFormed
<1>2. image.cells \in [0..(image.length - 1) -> 0..(C - 1)]
  BY ImagesAssumption DEF ImageOK
<1> QED
  BY <1>1, <1>2, EntriesOf DEF Cell

LEMMA MovesAddresses ==
  ASSUME MovedInv
  PROVE  AddressesMoved
<1> SUFFICES ASSUME pc = "done", WellFormed, NEW x \in AllEntries,
                    EntryAt(x).type \in {HighLow, Dir64}
             PROVE  Field(cells, EntryAt(x).at, Width(EntryAt(x).type))
                      = (Field(image.cells, EntryAt(x).at, Width(EntryAt(x).type)) + Delta)
                          % Power(Width(EntryAt(x).type))
  BY DEF AddressesMoved
<1>0. image \in Images
  BY DEF MovedInv, RelocsInv
<1>1. PICK e : e = EntryAt(x)
  OBVIOUS
<1>2. PICK n \in 1..4 : n = Width(e.type)
  BY <1>1 DEF Width, High, Low, HighLow, Dir64
<1>3. /\ CellsOf(e) \subseteq DOMAIN image.cells /\ e.at \in Nat
      /\ \A c \in CellsOf(e) : image.cells[c] \in Cell
  BY <1>0, <1>1, Fields
<1>4. CellsOf(e) = e.at..(e.at + n - 1) /\ n \in Nat /\ n \in 0..4
  BY <1>2 DEF CellsOf
<1>5. CASE Delta = 0 /\ cells = image.cells
  <2>1. Field(image.cells, e.at, n) \in 0..(Power(n) - 1) /\ Power(n) \in Nat \ {0}
    <3>1. \A c \in e.at..(e.at + n - 1) : image.cells[c] \in 0..(C - 1)
      BY <1>3, <1>4 DEF Cell
    <3> QED
      BY <1>3, <1>4, <3>1, FieldRange, Powers
  <2>2. PICK v \in Nat, p \in Nat \ {0} : v = Field(image.cells, e.at, n) /\ p = Power(n) /\ v < p
    BY <2>1
  <2>3. v = 0 * p + v /\ v \in 0..(p - 1)
    BY <2>2
  <2>4. v % p = v
    BY <2>3, Unique
  <2>5. v + 0 = v
    OBVIOUS
  <2> QED
    BY <1>1, <1>2, <1>5, <2>2, <2>4, <2>5
<1>6. CASE \A c \in CellsOf(e) : cells[c] = Applied(image.cells, e)[c]
  <2>1. Field(cells, e.at, n) = Field(Applied(image.cells, e), e.at, n)
    <3>1. \A c \in e.at..(e.at + n - 1) : cells[c] = Applied(image.cells, e)[c]
      BY <1>4, <1>6
    <3> QED
      BY <1>3, <1>4, <3>1, FieldAgrees, Zenon
  <2>2. Field(Applied(image.cells, e), e.at, n)
          = (Field(image.cells, e.at, n) + Delta) % Power(n)
    BY <1>0, <1>1, <1>2, <1>3, AppliedAdds
  <2> QED
    BY <1>1, <1>2, <2>1, <2>2
<1> QED
  BY <1>1, <1>5, <1>6, AtTheEnd

(* The halves h and l of an address, moved by d: the sum of the halves and *)
(* the carry is the sum.                                                   *)
LEMMA HalvesAdd ==
  ASSUME NEW b \in Nat \ {0}, NEW h \in Int, NEW l \in Int, NEW d \in Int
  PROVE  (((h + ((d \div b) % b)) % b) * b + ((l + (d % b)) % b) + ((l + (d % b)) \div b) * b) % (b * b)
           = (h * b + l + d) % (b * b)
<1>1. PICK q \in Int, r \in 0..(b - 1) : d = q * b + r /\ q = d \div b /\ r = d % b
  BY Quotient
<1>2. PICK p \in Int, t \in 0..(b - 1) : q = p * b + t /\ t = q % b
  BY Quotient
<1>3. PICK u \in Int, v \in 0..(b - 1) :
        l + r = u * b + v /\ u = (l + r) \div b /\ v = (l + r) % b
  <2>1. PICK a \in Int : a = l + r
    OBVIOUS
  <2>2. a \div b \in Int /\ a % b \in 0..(b - 1) /\ a = (a \div b) * b + (a % b)
    BY Quotient
  <2> QED
    BY <2>1, <2>2
<1>4. PICK w \in Int, x \in 0..(b - 1) : h + t = w * b + x /\ x = (h + t) % b
  <2>1. PICK a \in Int : a = h + t
    OBVIOUS
  <2>2. a \div b \in Int /\ a % b \in 0..(b - 1) /\ a = (a \div b) * b + (a % b)
    BY Quotient
  <2> QED
    BY <2>1, <2>2
<1>5. PICK m \in Nat \ {0} : m = b * b
  BY OneDigitMore
<1>6. x * b + v + u * b + (p + w) * m = h * b + l + d
  <2>1. PICK bx \in Int, bu \in Int, bh \in Int, bt \in Int, bq \in Int :
          bx = x * b /\ bu = u * b /\ bh = h * b /\ bt = t * b /\ bq = q * b
    BY Distributes
  <2>2. PICK pm \in Int, wm \in Int : pm = p * m /\ wm = w * m
    BY Distributes
  <2>3. (p + w) * m = pm + wm
    BY <2>2, Distributes
  <2>4. bq = pm + bt
    <3>1. PICK a \in Int : a = p * b
      BY Distributes
    <3>2. q * b = a * b + t * b
      BY <1>2, <3>1, Distributes
    <3>3. a * b = p * m
      BY <1>5, <3>1
    <3> QED
      BY <2>1, <2>2, <3>2, <3>3
  <2>5. bh + bt = wm + bx
    <3>1. PICK a \in Int : a = w * b
      BY Distributes
    <3>2. (h + t) * b = h * b + t * b /\ (a + x) * b = a * b + x * b
      BY Distributes
    <3>3. a * b = w * m /\ h + t = a + x
      BY <1>4, <1>5, <3>1
    <3> QED
      BY <2>1, <2>2, <3>2, <3>3
  <2>6. d = bq + r /\ l + r = bu + v
    BY <1>1, <1>3, <2>1
  <2>7. bx + v + bu + (pm + wm) = bh + l + d
    BY <2>4, <2>5, <2>6
  <2> QED
    BY <2>1, <2>3, <2>7
<1>7. PICK a \in Int, k \in Int, z \in Int :
        a = x * b + v + u * b /\ k = p + w /\ z = h * b + l + d
  <2>1. x * b \in Int /\ u * b \in Int /\ h * b \in Int
    BY Distributes
  <2> QED
    BY <2>1
<1>8. (a + k * m) % m = a % m /\ a + k * m = z
  BY <1>6, <1>7, Modulo
<1>9. z % m = a % m
  BY <1>8
<1> QED
  BY <1>1, <1>2, <1>3, <1>4, <1>5, <1>7, <1>9

LEMMA MovesHalves ==
  ASSUME MovedInv
  PROVE  SplitAddresses
<1> SUFFICES ASSUME pc = "done", WellFormed, NEW x \in AllEntries, NEW y \in AllEntries,
                    EntryAt(x).type = High, EntryAt(y).type = Low,
                    NEW hi, NEW lo, hi = EntryAt(x).at, lo = EntryAt(y).at
             PROVE  (cells[hi] * C + cells[lo] + ((image.cells[lo] + (Delta % C)) \div C) * C) % Power(2)
                      = (image.cells[hi] * C + image.cells[lo] + Delta) % Power(2)
  BY DEF SplitAddresses
<1>0. image \in Images
  BY DEF MovedInv, RelocsInv
<1>1. PICK e, f : e = EntryAt(x) /\ f = EntryAt(y)
  OBVIOUS
<1>2. C \in Nat \ {0} /\ Power(2) = C * C /\ Delta \in Int
  BY <1>0, RelocsAssumption, Powers, DeltaType
<1>3. /\ CellsOf(e) \subseteq DOMAIN image.cells /\ e.at \in Nat
      /\ \A c \in CellsOf(e) : image.cells[c] \in Cell
      /\ CellsOf(f) \subseteq DOMAIN image.cells /\ f.at \in Nat
      /\ \A c \in CellsOf(f) : image.cells[c] \in Cell
  BY <1>0, <1>1, Fields
<1>4. hi \in CellsOf(e) /\ lo \in CellsOf(f)
  BY <1>1, <1>3 DEF CellsOf, Width, High, Low
<1>5. PICK h \in Cell, l \in Cell : h = image.cells[hi] /\ l = image.cells[lo]
  BY <1>3, <1>4
<1>6. h \in Int /\ l \in Int /\ h < C /\ l < C /\ l >= 0
  BY <1>2 DEF Cell
<1>7. CASE Delta = 0 /\ cells = image.cells
  <2>1. l = 0 * C + l /\ l \in 0..(C - 1)
    BY <1>2, <1>6
  <2>2. l \div C = 0
    <3>1. PICK q \in Int : q = 0 /\ l = q * C + l
      BY <2>1
    <3>2. l \div C = q
      BY <1>2, <2>1, <3>1, Unique, Zenon
    <3> QED
      BY <3>1, <3>2
  <2>3. 0 = 0 * C + 0 /\ 0 \in 0..(C - 1)
    BY <1>2
  <2>4. 0 % C = 0
    BY <1>2, <2>3, Unique
  <2>5. l + 0 = l /\ 0 * C = 0
    BY <1>2, <1>6
  <2>6. PICK z \in Int : z = h * C + l
    BY <1>2, <1>6, Distributes
  <2>7. z + 0 = z
    BY <2>6
  <2> QED
    BY <1>5, <1>7, <2>2, <2>4, <2>5, <2>6, <2>7
<1>8. CASE \A z \in AllEntries : \A c \in CellsOf(EntryAt(z)) :
             cells[c] = Applied(image.cells, EntryAt(z))[c]
  <2>1. cells[hi] = Applied(image.cells, e)[hi] /\ cells[lo] = Applied(image.cells, f)[lo]
    BY <1>1, <1>4, <1>8
  <2>2. cells[hi] = (h + ((Delta \div C) % C)) % C
    BY <1>0, <1>1, <1>3, <1>5, <2>1, AppliedAdds
  <2>3. cells[lo] = (l + (Delta % C)) % C
    BY <1>0, <1>1, <1>3, <1>5, <2>1, AppliedAdds
  <2>4. (((h + ((Delta \div C) % C)) % C) * C + ((l + (Delta % C)) % C)
           + ((l + (Delta % C)) \div C) * C) % (C * C)
          = (h * C + l + Delta) % (C * C)
    BY <1>2, <1>6, HalvesAdd
  <2> QED
    BY <1>2, <1>5, <2>2, <2>3, <2>4
<1> QED
  BY <1>7, <1>8, AtTheEnd
-----------------------------------------------------------------------------
(* apply_relocations: a sound directory moves every address stored whole   *)
(* by the distance between where the image was linked and where it is      *)
(* mapped, an address stored in halves too but for the carry, and no other *)
(* cell; for any number of values of a cell and any image.                 *)
THEOREM RelocsRelocated == Spec => []Relocated
<1>1. MovedInv => Relocated
  BY MovesAddresses, MovesHalves DEF MovedInv, RelocsInv, Relocated
<1> QED
  BY <1>1, RelocsInvariant, PTL

(* apply_relocations: the walk over a sound directory never leaves it.     *)
THEOREM RelocsWalkStaysInside == Spec => []WalkStaysInside
<1>1. MovedInv => WalkStaysInside
  BY DEF MovedInv, WalkInv, WalkStaysInside
<1> QED
  BY <1>1, RelocsInvariant, PTL
=============================================================================
