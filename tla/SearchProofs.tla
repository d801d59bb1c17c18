---------------------------- MODULE SearchProofs ----------------------------
(***************************************************************************)
(* Proofs about Search, for any import paths, names, files and bounds.     *)
(***************************************************************************)
EXTENDS Search, WellFoundedInduction, SequenceTheorems, TLAPS

(* The descriptor of a file being mapped is the only one a search holds.   *)
OneDescriptor == fds = faults + (IF pc = "map" THEN 1 ELSE 0)

(* A library is registered without a directory.                            *)
TableFlat == \A i \in DOMAIN libs : libs[i].name.dir = <<>>

(* An entry is the first with its number of extensions.                    *)
FirstWith(s, k, i) ==
  /\ i \in 1..Len(s) /\ Len(s[i].name.ext) = k
  /\ \A j \in 1..(i - 1) : Len(s[j].name.ext) # k

(* A handle is the first entry of its name, or a native library that was   *)
(* opened because that one's imports were incomplete.                      *)
GivenFirst ==
  \A g \in given :
    /\ Len(libs[g[2]].name.ext) = g[1]
    /\ \/ FirstWith(libs, g[1], g[2])
       \/ libs[g[2]].type = "NATIVE" /\ \E j \in broken : FirstWith(libs, g[1], j)

(* The entries of the loads under way lie one behind the other, and the    *)
(* one a native library is looked for in the place of lies behind them.    *)
Holds(i, n) == i \in DOMAIN libs /\ libs[i] = [name |-> LastPart(n), type |-> "PE"]

Loads ==
  /\ \A a \in DOMAIN stack : Holds(stack[a].entry, stack[a].want)
  /\ \A a, b \in DOMAIN stack : a < b => stack[a].entry < stack[b].entry
  /\ pc \in {"open", "map"} => found = 0
  /\ pc = "native" /\ found # 0 =>
       /\ found \in broken /\ Holds(found, want)
       /\ \A a \in DOMAIN stack : stack[a].entry < found

(* While a load for the guest is under way its entry is the only handle of *)
(* its name there can be.                                                  *)
Sole(n, i) ==
  /\ FirstWith(libs, Len(n.ext), i)
  /\ \A g \in given : g[1] = Len(n.ext) => g[2] = i

GuestHeld ==
  /\ \A a \in DOMAIN stack : stack[a].asker = "guest" => Sole(stack[a].want, stack[a].entry)
  /\ pc = "native" /\ asker = "guest" /\ found # 0 => Sole(want, found)

(* What the guest searches for, the table lacks.                           *)
GuestFresh ==
  /\ pc # "idle" => want \in LibName
  /\ pc # "idle" /\ asker = "guest" /\ found = 0 =>
       \A i \in DOMAIN libs : Len(libs[i].name.ext) # Len(want.ext)

TableInv ==
  TableFlat /\ GivenFirst /\ HandlesStable /\ Loads /\ GuestHeld /\ GuestFresh

(* No file that was there throughout has been passed over.                 *)
NonePassed ==
  pc = "open" =>
    \A f \in steady :
      f[2] \in {FileSpelling(want, 1), FileSpelling(want, 2)} =>
        f[1] >= path /\ (f[1] = path /\ spelling = 2 => f[2] # want)

(* Once the files have been tried there was none, nor was there a native   *)
(* library at the paths tried since; and so it is for what was missed.     *)
Spelled(n) == {FileSpelling(n, 1), FileSpelling(n, 2)}
NoFile(n) == \A f \in steady : f[2] \notin Spelled(n)
NoNative(n, p, k) == <<p, NativeSpelling(n, k)>> \notin natives

NoneTried ==
  /\ pc = "open" => missed = None
  /\ pc = "map" => opened[2] \in Spelled(want)
  /\ pc = "native" =>
       /\ found = 0 => NoFile(want)
       /\ \A p \in 1..PathCount, k \in 1..2 :
            p < path \/ (p = path /\ k < spelling) => NoNative(want, p, k)

NoneMissed ==
  missed # None =>
    /\ why = "absent" => NoFile(missed)
    /\ why = "refused" => opened[2] \in Spelled(missed)
    /\ why \in {"NOT_FOUND", "INVALID"} => \E i \in broken : Holds(i, missed)
    /\ why \in {"absent", "NOT_FOUND"} =>
         \A p \in 1..PathCount, k \in 1..2 : NoNative(missed, p, k)

SearchInv ==
  /\ TypeOK /\ TableInv
  /\ OneDescriptor /\ NonePassed /\ EarliestPath /\ NoneTried /\ NoneMissed
-----------------------------------------------------------------------------
(* A set of numbers has a least element.                                   *)
LEMMA LeastNumber ==
  ASSUME NEW T, T \subseteq Nat, T # {}
  PROVE  \E x \in T : \A y \in T : x <= y
<1> DEFINE R == OpToRel(<, Nat)
<1>1. IsWellFoundedOn(R, Nat)
  BY NatLessThanWellFounded
<1>2. \A x, y \in Nat : y < x => <<y, x>> \in R
  BY DEF OpToRel
<1> HIDE DEF R
<1>3. PICK x \in T : \A y \in T : ~ (<<y, x>> \in R)
  <2>1. \A U \in SUBSET Nat : U # {} => \E x \in U : \A y \in U : ~ (<<y, x>> \in R)
    BY <1>1, WFMin
  <2> QED
    BY <2>1, Zenon
<1>4. ASSUME NEW y \in T
      PROVE  ~ (y < x)
  BY <1>2, <1>3
<1> QED
  BY <1>3, <1>4

(* Find returns the first entry of a name, and 0 only if there is none.    *)
LEMMA FindIsFirst ==
  ASSUME NEW s \in Seq(Entry), NEW n
  PROVE  /\ Find(s, n) # 0 =>
              /\ Find(s, n) \in 1..Len(s)
              /\ SameName(s[Find(s, n)].name, n)
              /\ \A j \in 1..(Find(s, n) - 1) : ~ SameName(s[j].name, n)
         /\ Find(s, n) = 0 => \A i \in 1..Len(s) : ~ SameName(s[i].name, n)
<1> DEFINE Hit(i) == SameName(s[i].name, n)
           First1(i) == i \in 1..Len(s) /\ Hit(i) /\ \A j \in 1..(i - 1) : ~ Hit(j)
<1>1. DOMAIN s = 1..Len(s) /\ Len(s) \in Nat
  OBVIOUS
<1>2. CASE \E i \in 1..Len(s) : Hit(i)
  <2> DEFINE T == {i \in 1..Len(s) : Hit(i)}
  <2>1. PICK x \in T : \A y \in T : x <= y
    <3>1. T \subseteq Nat /\ T # {}
      BY <1>2
    <3> HIDE DEF T
    <3> QED
      BY <3>1, LeastNumber
  <2>2. First1(x)
    <3>1. ASSUME NEW j \in 1..(x - 1)
          PROVE  ~ Hit(j)
      BY <1>1, <2>1
    <3> QED
      BY <2>1, <3>1
  <2>3. Find(s, n) = CHOOSE i \in 1..Len(s) : Hit(i) /\ \A j \in 1..(i - 1) : ~ Hit(j)
    BY <1>1, <1>2 DEF Find
  <2>4. First1(Find(s, n))
    <3> HIDE DEF Hit
    <3> QED
      BY <2>2, <2>3, Zenon
  <2> QED
    BY <1>1, <2>4
<1>3. CASE ~ \E i \in 1..Len(s) : Hit(i)
  BY <1>1, <1>3 DEF Find
<1> QED
  BY <1>2, <1>3

(* In a table without directories that is the first with as many           *)
(* extensions, and the name has no directory either.                       *)
LEMMA FindInFlat ==
  ASSUME NEW s \in Seq(Entry), \A i \in DOMAIN s : s[i].name.dir = <<>>,
         NEW n \in LibName
  PROVE  /\ Find(s, n) # 0 => FirstWith(s, Len(n.ext), Find(s, n))
         /\ Find(s, n) = 0 /\ n.dir = <<>> =>
              \A i \in DOMAIN s : Len(s[i].name.ext) # Len(n.ext)
<1>1. ASSUME NEW i \in 1..Len(s)
      PROVE  SameName(s[i].name, n) <=> n.dir = <<>> /\ Len(s[i].name.ext) = Len(n.ext)
  <2>1. n.dir \in Seq(Case) /\ s[i].name.dir = <<>>
    BY DEF LibName
  <2>2. Len(s[i].name.dir) = 0 /\ (Len(n.dir) = 0 <=> n.dir = <<>>)
    BY <2>1, EmptySeq
  <2> QED
    BY <2>2 DEF SameName
<1>2. CASE Find(s, n) # 0
  <2>1. Find(s, n) \in 1..Len(s) /\ Len(s) \in Nat
    BY <1>2, FindIsFirst
  <2> QED
    BY <1>1, <1>2, <2>1, FindIsFirst DEF FirstWith
<1>3. CASE Find(s, n) = 0
  BY <1>1, <1>3, FindIsFirst
<1> QED
  BY <1>2, <1>3

(* The first stays the first when an entry is added; and the added entry   *)
(* is the first if there was none.                                         *)
LEMMA FirstAfterAppend ==
  ASSUME NEW s \in Seq(Entry), NEW lib \in Entry, NEW k, NEW i
  PROVE  /\ FirstWith(s, k, i) => FirstWith(Append(s, lib), k, i)
         /\ (\A j \in DOMAIN s : Len(s[j].name.ext) # Len(lib.name.ext)) =>
              FirstWith(Append(s, lib), Len(lib.name.ext), Len(s) + 1)
BY DEF FirstWith

(* There is one first entry: handles to one name are equal.                *)
LEMMA FirstIsOne ==
  ASSUME NEW s \in Seq(Entry), NEW k,
         NEW i, FirstWith(s, k, i), NEW j, FirstWith(s, k, j)
  PROVE  i = j
BY DEF FirstWith

(* The names the callers make are names of libraries.                      *)
LEMMA NamesMade ==
  ASSUME NEW n \in LibName
  PROVE  /\ Completed(n) \in LibName /\ LastPart(n) \in LibName
         /\ LastPart(n).dir = <<>> /\ LastPart(n).ext = n.ext
         /\ Len(n.ext) \in Nat
<1>1. n.dir \in Seq(Case) /\ n.stem \in Case /\ n.ext \in Seq({"lower", "upper"})
  BY DEF LibName
<1>2. LastPart(n) = [dir |-> <<>>, stem |-> n.stem, ext |-> n.ext]
  BY DEF LastPart, LibName
<1>3. LastPart(n) \in LibName
  <2>1. <<>> \in Seq(Case)
    OBVIOUS
  <2> QED
    BY <1>1, <1>2, <2>1 DEF LibName
<1>4. Completed(n) \in LibName
  <2>1. CASE LastExt(n)
    BY <2>1 DEF Completed
  <2>2. CASE ~ LastExt(n)
    <3>1. Completed(n) = [dir |-> n.dir, stem |-> n.stem, ext |-> Append(n.ext, "lower")]
      BY <2>2 DEF Completed, LibName
    <3>2. Append(n.ext, "lower") \in Seq({"lower", "upper"})
      BY <1>1
    <3> QED
      BY <1>1, <3>1, <3>2 DEF LibName
  <2> QED
    BY <2>1, <2>2
<1> QED
  BY <1>1, <1>2, <1>3, <1>4

(* So are those GetModuleHandle makes.                                      *)
LEMMA HandleNames ==
  ASSUME NEW n \in LibName
  PROVE  HandleNameW(n) \in LibName /\ HandleNameA(n) \in LibName
<1>1. ASSUME NEW m \in LibName, m.ext # <<>>
      PROVE  WithoutExt(m) \in LibName
  <2>1. m.dir \in Seq(Case) /\ m.stem \in Case /\ m.ext \in Seq({"lower", "upper"})
    BY DEF LibName
  <2> DEFINE e == SubSeq(m.ext, 1, Len(m.ext) - 1)
  <2>2. e \in Seq({"lower", "upper"})
    BY <1>1, <2>1
  <2>3. WithoutExt(m) = [m EXCEPT !.ext = e]
    BY Zenon DEF WithoutExt
  <2> HIDE DEF e
  <2> QED
    BY <2>1, <2>2, <2>3 DEF LibName
<1>2. Stripped(n) \in LibName
  BY <1>1 DEF Stripped, LastExt, LastIs
<1> QED
  BY <1>1, <1>2 DEF HandleNameW, HandleNameA, LastIs

LEMMA InitInv == Init => SearchInv
BY SearchAssumption DEF Init, SearchInv, TypeOK, TableInv, OneDescriptor, TableFlat, GivenFirst,
   HandlesStable, Loads, GuestHeld, GuestFresh, NonePassed, EarliestPath, NoneTried, NoneMissed

(* What was tried in vain, refused or incomplete stays so, until the next  *)
(* search.                                                                 *)
LEMMA MissedKept ==
  ASSUME NoneMissed, UNCHANGED <<natives, missed, why>>, steady' \subseteq steady,
         broken \subseteq broken', opened' = opened \/ missed = None,
         \A i, n : Holds(i, n) => Holds(i, n)'
  PROVE  NoneMissed'
BY DEF NoneMissed, NoFile, NoNative

(* A report changes no more of the loads under way than the status of one. *)
StackSame ==
  /\ stack' \in Seq(Frame) /\ Len(stack') = Len(stack)
  /\ \A k \in DOMAIN stack :
       /\ stack'[k].want = stack[k].want /\ stack'[k].asker = stack[k].asker
       /\ stack'[k].entry = stack[k].entry

LEMMA ReportStack ==
  ASSUME stack \in Seq(Frame), NEW r, Report(r) \/ UNCHANGED stack
  PROVE  StackSame
<1>1. CASE UNCHANGED stack
  BY <1>1 DEF StackSame
<1>2. CASE ~ UNCHANGED stack
  <2> DEFINE t == Len(stack)
             f == [stack[t] EXCEPT !.status = "NOT_FOUND"]
  <2>1. stack # <<>> /\ stack' = [stack EXCEPT ![t] = f]
    BY <1>2, Zenon DEF Report
  <2>2. t \in DOMAIN stack /\ t \in Nat /\ DOMAIN stack = 1..t
    BY <2>1
  <2>3. stack[t] \in Frame
    BY <2>2
  <2>4. f \in Frame /\ f.want = stack[t].want /\ f.asker = stack[t].asker
        /\ f.entry = stack[t].entry
    BY <2>3 DEF Frame, Status
  <2> HIDE DEF f
  <2>5. stack' \in Seq(Frame) /\ Len(stack') = Len(stack)
    BY <2>1, <2>2, <2>4
  <2> HIDE DEF t
  <2>6. \A k \in DOMAIN stack : stack'[k] = IF k = t THEN f ELSE stack[k]
    BY <2>1
  <2> QED
    BY <2>4, <2>5, <2>6 DEF StackSame
<1> QED
  BY <1>1, <1>2

(* A step that leaves the table and the handles alone and goes on with the *)
(* search, or ends it.                                                     *)
LEMMA TableKept ==
  ASSUME TypeOK, TableInv, StackSame, UNCHANGED <<libs, given, broken, want, asker, found>>,
         \/ pc' = "idle"
         \/ pc # "idle" /\ (pc' = "native" => pc = "native" \/ found = 0)
            /\ (pc' # "native" => pc # "native" /\ pc' \in {"open", "map"})
  PROVE  TableInv'
<1> USE DEF TypeOK, TableInv
<1>1. TableFlat' /\ GivenFirst' /\ HandlesStable'
  BY DEF TableFlat, GivenFirst, HandlesStable, FirstWith
<1>2. DOMAIN stack' = DOMAIN stack
  BY DEF StackSame
<1>3. pc \in {"idle", "open", "map", "native"} /\ (pc' \in {"open", "map"} => found = 0)
  BY DEF Loads
<1>4. \A i, n : Holds(i, n)' <=> Holds(i, n)
  BY DEF Holds
<1>5. \A n, i : Sole(n, i)' <=> Sole(n, i)
  BY DEF Sole, FirstWith
<1>6. Loads'
  BY <1>2, <1>3, <1>4 DEF Loads, StackSame
<1>7. GuestHeld'
  BY <1>2, <1>3, <1>5 DEF GuestHeld, StackSame
<1>8. GuestFresh'
  BY DEF GuestFresh
<1> QED
  BY <1>1, <1>6, <1>7, <1>8

(* Giving the first entry of a name once more.                             *)
LEMMA GiveFirst ==
  ASSUME TypeOK, TableInv, NEW k \in Nat, NEW i, FirstWith(libs, k, i),
         given' = given \cup {<<k, i>>}, UNCHANGED libs, broken \subseteq broken'
  PROVE  /\ given' \subseteq Nat \X (1..Len(libs)) /\ GivenFirst' /\ HandlesStable'
         /\ \A n, j : Sole(n, j) => Sole(n, j)'
<1> USE DEF TypeOK, TableInv
<1>1. i \in 1..Len(libs) /\ Len(libs) \in Nat /\ Len(libs[i].name.ext) = k
  BY DEF FirstWith
<1>2. given' \subseteq Nat \X (1..Len(libs))
  BY <1>1
<1>3. GivenFirst'
  BY <1>1 DEF GivenFirst
<1>4. ASSUME NEW g \in given, g[1] = k
      PROVE  g[2] = i \/ (i < g[2] /\ i \in broken /\ libs[g[2]].type = "NATIVE")
  <2>1. g[2] \in 1..Len(libs) /\ Len(libs[g[2]].name.ext) = k
    BY <1>4 DEF GivenFirst
  <2>2. ~ (g[2] < i)
    BY <1>1, <2>1 DEF FirstWith
  <2>3. CASE FirstWith(libs, k, g[2])
    BY <1>1, <2>3, FirstIsOne
  <2>4. CASE libs[g[2]].type = "NATIVE" /\ \E j \in broken : FirstWith(libs, k, j)
    BY <1>1, <2>1, <2>2, <2>4, FirstIsOne
  <2> QED
    BY <1>4, <2>3, <2>4 DEF GivenFirst
<1>5. HandlesStable'
  <2> SUFFICES ASSUME NEW g \in given', NEW h \in given', g[1] = h[1], g[2] < h[2]
               PROVE  g[2] \in broken' /\ libs[h[2]].type = "NATIVE"
    BY DEF HandlesStable
  <2>1. CASE g \in given /\ h \in given
    BY <2>1 DEF HandlesStable
  <2>2. CASE g = <<k, i>> /\ h \in given
    BY <1>1, <1>2, <1>4, <2>2
  <2>3. CASE h = <<k, i>>
    <3>1. g # h
      BY <1>1, <2>3
    <3>2. g \in given /\ g[1] = k /\ g[2] < i /\ g[2] \in Nat
      BY <1>1, <1>2, <2>3, <3>1
    <3> QED
      BY <1>1, <1>4, <3>2
  <2> QED
    BY <2>1, <2>2, <2>3
<1>6. ASSUME NEW n, NEW j, Sole(n, j)
      PROVE  Sole(n, j)'
  BY <1>1, <1>6, FirstIsOne DEF Sole
<1> QED
  BY <1>2, <1>3, <1>5, <1>6

(* Entries keep their place when one is added.                             *)
LEMMA HoldsKept ==
  ASSUME TypeOK, libs' = libs \/ \E lib \in Entry : libs' = Append(libs, lib)
  PROVE  \A i, n : Holds(i, n) => Holds(i, n)'
<1>1. libs \in Seq(Entry)
  BY DEF TypeOK
<1>2. \A i \in DOMAIN libs : i \in DOMAIN libs' /\ libs'[i] = libs[i]
  BY <1>1
<1> QED
  BY <1>2, Zenon DEF Holds

(* Registering a library, which gives no handle yet.                       *)
LEMMA Registered ==
  ASSUME TypeOK, TableInv, NEW lib \in Entry, lib.name.dir = <<>>,
         libs' = Append(libs, lib), UNCHANGED given, broken \subseteq broken'
  PROVE  /\ libs' \in Seq(Entry) /\ TableFlat' /\ GivenFirst' /\ HandlesStable'
         /\ \A n, j : Sole(n, j) => Sole(n, j)'
<1> USE DEF TypeOK, TableInv
<1>1. libs' \in Seq(Entry) /\ Len(libs') = Len(libs) + 1 /\ Len(libs) \in Nat
      /\ \A i \in 1..Len(libs) : libs'[i] = libs[i]
  OBVIOUS
<1>2. TableFlat'
  BY DEF TableFlat
<1>3. \A k, i : FirstWith(libs, k, i) => FirstWith(libs', k, i)
  BY FirstAfterAppend
<1>4. GivenFirst'
  BY <1>1, <1>3 DEF GivenFirst
<1>5. HandlesStable'
  BY <1>1 DEF HandlesStable
<1>6. \A n, j : Sole(n, j) => Sole(n, j)'
  BY <1>3 DEF Sole
<1> QED
  BY <1>1, <1>2, <1>4, <1>5, <1>6

(* A handle from the table is the first entry of its name.                 *)
LEMMA HitInv ==
  ASSUME SearchInv, pc = "idle", NEW n \in LibName,
         Find(libs, n) # 0, NEW m \in LibName, m.ext = n.ext, Give(m, Find(libs, n)),
         UNCHANGED <<fs, libs, stack, pc, cursor, found, opened, fds, report, broken,
                     steady, faults>>
  PROVE  SearchInv'
<1> USE DEF SearchInv, TypeOK, Give
<1>1. FirstWith(libs, Len(n.ext), Find(libs, n)) /\ Len(n.ext) \in Nat
  BY FindInFlat, NamesMade DEF TableInv, TableFlat
<1>2. /\ given' \subseteq Nat \X (1..Len(libs)) /\ GivenFirst' /\ HandlesStable'
      /\ \A k, j : Sole(k, j) => Sole(k, j)'
  BY <1>1, GiveFirst
<1>3. TableInv'
  BY <1>2 DEF TableInv, TableFlat, Loads, Holds, GuestHeld, GuestFresh
<1>4. NoneMissed'
  BY MissedKept, HoldsKept DEF fs, cursor, report
<1> QED
  BY <1>2, <1>3, <1>4
  DEF fs, cursor, report, OneDescriptor, NonePassed, EarliestPath, NoneTried

LEMMA StartInv ==
  ASSUME SearchInv, NEW n \in LibName, NEW who \in {"guest", "import"},
         pc = "idle", StartSearch(n, who),
         who = "guest" => Find(libs, LastPart(n)) = 0
  PROVE  SearchInv'
<1> USE DEF SearchInv, TypeOK, StartSearch, fs
<1>1. GuestFresh'
  <2>1. LastPart(n) \in LibName /\ LastPart(n).dir = <<>> /\ LastPart(n).ext = n.ext
    BY NamesMade
  <2>2. who = "guest" => \A i \in DOMAIN libs : Len(libs[i].name.ext) # Len(n.ext)
    BY <2>1, FindInFlat DEF TableInv, TableFlat
  <2> QED
    BY <2>2 DEF GuestFresh
<1>2. TableInv'
  <2>1. \A i, k : Holds(i, k)' <=> Holds(i, k)
    BY DEF Holds
  <2>2. \A k, i : Sole(k, i)' <=> Sole(k, i)
    BY DEF Sole, FirstWith
  <2>3. Loads' /\ GuestHeld'
    BY <2>1, <2>2 DEF TableInv, Loads, GuestHeld
  <2>4. TableFlat' /\ GivenFirst' /\ HandlesStable'
    BY DEF TableInv, TableFlat, GivenFirst, HandlesStable
  <2> QED
    BY <1>1, <2>3, <2>4 DEF TableInv
<1>3. NonePassed'
  <2>1. \A f \in files : f[1] \in Nat /\ f[1] >= 1
    BY SearchAssumption
  <2> QED
    BY <2>1 DEF NonePassed
<1>4. NoneTried' /\ NoneMissed'
  BY DEF NoneTried, NoneMissed
<1> QED
  BY <1>2, <1>3, <1>4, SearchAssumption DEF OneDescriptor, EarliestPath

LEMMA MapFileInv ==
  ASSUME SearchInv, MapFile
  PROVE  SearchInv'
<1> USE DEF SearchInv, TypeOK, MapFile
<1> DEFINE lib == [name |-> LastPart(want), type |-> "PE"]
           e == Len(libs) + 1
           f == [want |-> want, asker |-> asker, entry |-> e, status |-> "SUCCESS"]
<1>1. want \in LibName /\ found = 0
  BY DEF TableInv, GuestFresh, Loads
<1>2. LastPart(want) \in LibName /\ LastPart(want).dir = <<>> /\ LastPart(want).ext = want.ext
      /\ Len(want.ext) \in Nat
  BY <1>1, NamesMade
<1>3. lib \in Entry /\ lib.name = LastPart(want) /\ f \in Frame
  BY <1>1, <1>2 DEF Entry, Frame, Status
<1>4. libs' = Append(libs, lib) /\ stack' = Append(stack, f)
      /\ UNCHANGED <<given, broken, found, want, asker>>
  BY Zenon DEF history, cursor
<1>5. /\ libs' \in Seq(Entry) /\ TableFlat' /\ GivenFirst' /\ HandlesStable'
      /\ \A n, j : Sole(n, j) => Sole(n, j)'
  BY <1>2, <1>3, <1>4, Registered
<1>6. \A i, n : Holds(i, n) => Holds(i, n)'
  BY <1>3, <1>4, HoldsKept
<1>7. Len(libs') = e /\ libs'[e] = lib /\ Len(libs) \in Nat /\ DOMAIN libs' = 1..e
      /\ \A i \in DOMAIN libs : i \in DOMAIN libs' /\ libs'[i] = libs[i]
  BY <1>4
<1>8. /\ stack' \in Seq(Frame) /\ Len(stack') = Len(stack) + 1 /\ Len(stack) \in Nat
      /\ DOMAIN stack' = 1..(Len(stack) + 1) /\ DOMAIN stack = 1..Len(stack)
      /\ stack'[Len(stack) + 1] = f
      /\ \A k \in DOMAIN stack : stack'[k] = stack[k]
  BY <1>3, <1>4
<1>9. Holds(Len(libs), want)'
  BY <1>4, <1>7 DEF Holds
<1>10. asker = "guest" => Sole(want, Len(libs))'
  <2> SUFFICES ASSUME asker = "guest"
               PROVE  Sole(want, Len(libs))'
    OBVIOUS
  <2>1. \A i \in DOMAIN libs : Len(libs[i].name.ext) # Len(want.ext)
    BY <1>1 DEF TableInv, GuestFresh
  <2>2. FirstWith(libs', Len(want.ext), e)
    BY <1>2, <1>3, <1>4, <2>1, FirstAfterAppend
  <2>3. \A g \in given : g[1] # Len(want.ext)
    <3>1. \A g \in given : g[2] \in DOMAIN libs
      OBVIOUS
    <3>2. \A g \in given : Len(libs[g[2]].name.ext) = g[1]
      BY DEF TableInv, GivenFirst
    <3> QED
      BY <2>1, <3>1, <3>2
  <2> QED
    BY <1>4, <1>7, <2>2, <2>3 DEF Sole
<1> HIDE DEF lib, e, f
<1>11. f.want = want /\ f.asker = asker /\ f.entry = e /\ e = Len(libs) + 1
  BY DEF f, e
<1>12. Loads'
  <2>1. (\A a \in DOMAIN stack : Holds(stack[a].entry, stack[a].want))'
    <3>1. \A a \in DOMAIN stack : Holds(stack[a].entry, stack[a].want)
      BY DEF TableInv, Loads
    <3>2. e \in DOMAIN libs' /\ libs'[e] = [name |-> LastPart(want), type |-> "PE"]
      BY <1>4, <1>7, <1>9 DEF Holds
    <3> HIDE DEF SearchInv, TypeOK, MapFile
    <3>3. \A i, n : Holds(i, n) =>
            i \in DOMAIN libs' /\ libs'[i] = [name |-> LastPart(n), type |-> "PE"]
      BY <1>6 DEF Holds
    <3>4. ASSUME NEW a \in DOMAIN stack'
          PROVE  /\ stack'[a].entry \in DOMAIN libs'
                 /\ libs'[stack'[a].entry] = [name |-> LastPart(stack'[a].want), type |-> "PE"]
      <4>1. CASE a \in DOMAIN stack
        BY <1>8, <3>1, <3>3, <4>1
      <4>2. CASE a = Len(stack) + 1
        BY <1>8, <1>11, <3>2, <4>2
      <4> QED
        BY <1>8, <4>1, <4>2
    <3> QED
      BY <3>4 DEF Holds
  <2>2. \A a, b \in DOMAIN stack' : a < b => stack'[a].entry < stack'[b].entry
    BY <1>7, <1>8, <1>11 DEF TableInv, Loads
  <2> QED
    BY <2>1, <2>2 DEF Loads
<1>13. GuestHeld'
  <2>1. \A a \in DOMAIN stack : stack[a].asker = "guest" =>
          FirstWith(libs', Len(stack[a].want.ext), stack[a].entry)
          /\ \A g \in given' : g[1] = Len(stack[a].want.ext) => g[2] = stack[a].entry
    BY <1>5 DEF TableInv, GuestHeld, Sole
  <2>2. asker = "guest" =>
          FirstWith(libs', Len(want.ext), e)
          /\ \A g \in given' : g[1] = Len(want.ext) => g[2] = e
    BY <1>4, <1>7, <1>10 DEF Sole
  <2> QED
    BY <1>8, <1>11, <2>1, <2>2 DEF GuestHeld, Sole
<1>14. TableInv'
  BY <1>5, <1>12, <1>13 DEF TableInv, GuestFresh
<1>15. NoneMissed'
  BY <1>4, <1>6, MissedKept DEF fs, history, report
<1>16. TypeOK'
  <2>1. \A k \in DOMAIN stack' : stack'[k].entry \in 1..Len(libs')
    BY <1>7, <1>8, <1>11
  <2>2. UNCHANGED <<fs, cursor, found, opened, history, faults>> /\ fds' = fds - 1 /\ pc' = "idle"
    OBVIOUS
  <2>3. fds' \in Nat
    BY <2>2 DEF OneDescriptor
  <2> QED
    BY <1>5, <1>7, <1>8, <2>1, <2>2, <2>3 DEF fs, cursor, history, report
<1>17. pc = "map" /\ pc' = "idle" /\ fds' = fds - 1 /\ faults' = faults
  BY DEF history
<1>18. NonePassed' /\ EarliestPath' /\ NoneTried'
  BY <1>17, Zenon DEF NonePassed, EarliestPath, NoneTried
<1>19. OneDescriptor'
  BY <1>17 DEF OneDescriptor
<1> QED
  BY <1>14, <1>15, <1>16, <1>18, <1>19

LEMMA BoundInv ==
  ASSUME SearchInv, NEW s \in Status, Bound(s)
  PROVE  SearchInv'
<1> USE DEF SearchInv, TypeOK
<1> DEFINE t == Len(stack)
<1>1. stack # <<>> /\ pc = "idle" /\ stack' = SubSeq(stack, 1, t - 1)
      /\ want' = Top.want /\ asker' = Top.asker /\ path' = 1 /\ spelling' = 1
      /\ UNCHANGED <<fs, libs, opened, fds, steady, faults>>
  BY DEF Bound
<1>2. t \in Nat /\ t >= 1 /\ t \in DOMAIN stack /\ DOMAIN stack = 1..t /\ Top = stack[t]
      /\ Top \in Frame
  BY <1>1 DEF Top
<1>3. /\ stack' \in Seq(Frame) /\ Len(stack') = t - 1 /\ DOMAIN stack' = 1..(t - 1)
      /\ \A k \in 1..(t - 1) : stack'[k] = stack[k]
  BY <1>1, <1>2
<1>4. Top.want \in LibName /\ Top.asker \in {"guest", "import"} /\ Top.entry \in 1..Len(libs)
      /\ Len(libs) \in Nat
  <2>1. stack[t].entry \in 1..Len(libs) /\ Len(libs) \in Nat
    BY <1>2
  <2> HIDE DEF SearchInv, TypeOK, t
  <2> QED
    BY <1>2, <2>1 DEF Frame
<1>5. Holds(Top.entry, Top.want) /\ \A a \in DOMAIN stack' : stack[a].entry < Top.entry
  <2>1. /\ \A a \in DOMAIN stack : Holds(stack[a].entry, stack[a].want)
        /\ \A a, b \in DOMAIN stack : a < b => stack[a].entry < stack[b].entry
    BY DEF TableInv, Loads
  <2> HIDE DEF SearchInv, TypeOK
  <2>2. \A a \in DOMAIN stack' : a \in DOMAIN stack /\ a < t
    BY <1>2, <1>3
  <2> HIDE DEF t
  <2> QED
    BY <1>2, <2>1, <2>2
<1>6. Top.asker = "guest" => Sole(Top.want, Top.entry)
  BY <1>2 DEF TableInv, GuestHeld
<1>7. broken' \subseteq 1..Len(libs) /\ broken \subseteq broken'
      /\ (s # "SUCCESS" => Top.entry \in broken')
  BY <1>4 DEF Bound
<1>8. given' = given \/ (Top.asker = "guest" /\ given' = given \cup {<<Len(Top.want.ext), Top.entry>>})
  BY DEF Bound, Give
<1>9. /\ given' \subseteq Nat \X (1..Len(libs)) /\ GivenFirst' /\ HandlesStable'
      /\ \A n, j : Sole(n, j) => Sole(n, j)'
  <2>1. CASE given' = given
    BY <1>1, <1>7, <2>1 DEF TableInv, GivenFirst, HandlesStable, Sole
  <2>2. CASE Top.asker = "guest" /\ given' = given \cup {<<Len(Top.want.ext), Top.entry>>}
    <3>1. FirstWith(libs, Len(Top.want.ext), Top.entry) /\ Len(Top.want.ext) \in Nat
      BY <1>4, <1>6, <2>2, NamesMade DEF Sole
    <3> QED
      BY <1>1, <1>7, <2>2, <3>1, GiveFirst
  <2> QED
    BY <1>8, <2>1, <2>2
<1>10. \A i, n : Holds(i, n)' <=> Holds(i, n)
  BY <1>1 DEF Holds
<1>11. \/ s = "NOT_FOUND" /\ pc' = "native" /\ found' = Top.entry
       \/ s # "NOT_FOUND" /\ pc' = "idle" /\ found' = found
  BY <1>1 DEF Bound
<1> HIDE DEF t
<1>12. Loads'
  <2>1. (\A a \in DOMAIN stack : Holds(stack[a].entry, stack[a].want))'
    <3>1. \A a \in DOMAIN stack : Holds(stack[a].entry, stack[a].want)
      BY DEF TableInv, Loads
    <3> QED
      BY <1>1, <1>2, <1>3, <3>1 DEF Holds
  <2>2. \A a, b \in DOMAIN stack' : a < b => stack'[a].entry < stack'[b].entry
    <3>1. \A a, b \in DOMAIN stack : a < b => stack[a].entry < stack[b].entry
      BY DEF TableInv, Loads
    <3> HIDE DEF SearchInv, TypeOK
    <3>2. \A a \in DOMAIN stack' : a \in DOMAIN stack /\ stack'[a] = stack[a]
      BY <1>2, <1>3
    <3> QED
      BY <3>1, <3>2
  <2> QED
    BY <1>1, <1>3, <1>5, <1>7, <1>10, <1>11, <2>1, <2>2 DEF Loads
<1>13. GuestHeld'
  <2>1. \A a \in DOMAIN stack : stack[a].asker = "guest" =>
          FirstWith(libs', Len(stack[a].want.ext), stack[a].entry)
          /\ \A g \in given' : g[1] = Len(stack[a].want.ext) => g[2] = stack[a].entry
    BY <1>9 DEF TableInv, GuestHeld, Sole
  <2>2. Top.asker = "guest" =>
          FirstWith(libs', Len(Top.want.ext), Top.entry)
          /\ \A g \in given' : g[1] = Len(Top.want.ext) => g[2] = Top.entry
    BY <1>6, <1>9 DEF Sole
  <2>3. (pc = "native" /\ asker = "guest" /\ found # 0 => Sole(want, found))'
    BY <1>1, <1>11, <2>2 DEF Sole
  <2> HIDE DEF SearchInv, TypeOK
  <2>4. \A a \in DOMAIN stack' : a \in DOMAIN stack /\ stack'[a] = stack[a]
    BY <1>2, <1>3
  <2> QED
    BY <2>1, <2>3, <2>4 DEF GuestHeld, Sole
<1>14. GuestFresh'
  BY <1>1, <1>4, <1>11 DEF GuestFresh
<1>15. TableInv'
  BY <1>1, <1>9, <1>12, <1>13, <1>14 DEF TableInv, TableFlat
<1>16. NoneMissed'
  <2>1. CASE UNCHANGED report
    BY <1>1, <1>7, <1>10, <2>1, MissedKept DEF fs, report
  <2>2. CASE ~ UNCHANGED report
    <3>1. missed' = Top.want /\ why' = "INVALID" /\ Top.entry \in broken'
      BY <1>7, <2>2 DEF Bound
    <3> QED
      BY <1>5, <1>10, <3>1 DEF NoneMissed
  <2> QED
    BY <2>1, <2>2
<1>17. TypeOK'
  <2>1. /\ missed' \in LibName \cup {None}
        /\ why' \in {"none", "absent", "refused", "NOT_FOUND", "INVALID"}
    BY <1>4 DEF Bound, report
  <2>2. \A k \in DOMAIN stack' : stack'[k].entry \in 1..Len(libs)
    BY <1>2, <1>3
  <2>3. found' \in 0..Len(libs) /\ pc' \in {"idle", "native"}
    BY <1>4, <1>11
  <2>4. path' \in 1..PathCount /\ spelling' \in 1..2
    BY <1>1, SearchAssumption
  <2> QED
    BY <1>1, <1>3, <1>4, <1>7, <1>9, <2>1, <2>2, <2>3, <2>4 DEF fs
<1>18. NoneTried'
  BY <1>1, <1>4, <1>11 DEF NoneTried
<1> QED
  BY <1>1, <1>11, <1>15, <1>16, <1>17, <1>18 DEF OneDescriptor, NonePassed, EarliestPath

(* A native library is found by names without a directory only.            *)
LEMMA NativeIsFlat ==
  ASSUME NEW n \in LibName, NEW k \in {1, 2},
         NativeSpelling(n, k).dir = <<>>
  PROVE  n.dir = <<>>
<1>1. Stripped(n).dir = n.dir
  BY DEF Stripped, WithoutExt, LibName
<1>2. CASE k = 1
  BY <1>1, <1>2 DEF NativeSpelling
<1>3. CASE k = 2
  <2>1. NativeSpelling(n, k).dir = [j \in DOMAIN n.dir |-> OtherCase(n)]
    BY <1>1, <1>3 DEF NativeSpelling, Recased
  <2>2. n.dir \in Seq(Case)
    BY DEF LibName
  <2>3. DOMAIN n.dir = {}
    BY <2>1
  <2>4. Len(n.dir) \in Nat /\ DOMAIN n.dir = 1..Len(n.dir)
    BY <2>2, LenProperties
  <2>5. Len(n.dir) = 0
    BY <2>3, <2>4
  <2> QED
    BY <2>2, <2>5, EmptySeq
<1> QED
  BY <1>2, <1>3

(* A native library is found: a second handle of the name, if the guest    *)
(* asked and a file was mapped.                                            *)
LEMMA NativeHitInv ==
  ASSUME SearchInv, pc = "native", OpenNative,
         <<path, NativeSpelling(want, spelling)>> \in natives
  PROVE  SearchInv'
<1> USE DEF SearchInv, TypeOK
<1> DEFINE lib == [name |-> want, type |-> "NATIVE"]
           e == Len(libs) + 1
<1>1. /\ libs' = Append(libs, lib) /\ pc' = "idle"
      /\ given' = IF asker = "guest" THEN given \cup {<<Len(want.ext), Len(libs')>>} ELSE given
      /\ UNCHANGED <<path, spelling, report, stack, fs, want, asker, found, opened, fds,
                     broken, steady, faults>>
  BY DEF OpenNative, Give
<1>2. want \in LibName /\ want.dir = <<>>
  <2>1. want \in LibName
    BY DEF TableInv, GuestFresh
  <2>2. NativeSpelling(want, spelling).dir = <<>>
    BY NativesAssumption
  <2> QED
    BY <2>1, <2>2, NativeIsFlat
<1>3. lib \in Entry /\ lib.name = want /\ lib.type = "NATIVE" /\ Len(want.ext) \in Nat
  BY <1>2, NamesMade DEF Entry
<1> HIDE DEF lib
<1>4. libs' \in Seq(Entry) /\ Len(libs') = e /\ Len(libs) \in Nat /\ libs'[e] = lib
      /\ DOMAIN libs = 1..Len(libs) /\ DOMAIN libs' = 1..e /\ \A i \in DOMAIN libs : libs'[i] = libs[i]
  BY <1>1, <1>3
<1>5. \A k, i : FirstWith(libs, k, i) => FirstWith(libs', k, i)
  BY <1>1, <1>3, FirstAfterAppend
<1>6. \A i, n : Holds(i, n) => Holds(i, n)'
  BY <1>1, <1>3, HoldsKept
<1>7. \A g \in given : g[2] \in DOMAIN libs /\ Len(libs[g[2]].name.ext) = g[1]
                       /\ g[1] \in Nat
  BY <1>4 DEF TableInv, GivenFirst
<1>8. TableFlat'
  <2>1. \A i \in DOMAIN libs : libs[i].name.dir = <<>>
    BY DEF TableInv, TableFlat
  <2> HIDE DEF SearchInv, TypeOK, e
  <2>2. \A i \in DOMAIN libs' : i = e \/ i \in DOMAIN libs
    BY <1>4 DEF e
  <2>3. libs'[e].name.dir = <<>>
    BY <1>2, <1>3, <1>4
  <2> QED
    BY <1>4, <2>1, <2>2, <2>3 DEF TableFlat
<1> HIDE DEF e
<1>9. ASSUME asker = "guest"
      PROVE  \/ /\ found # 0 /\ found \in broken /\ FirstWith(libs, Len(want.ext), found)
                /\ \A g \in given : g[1] = Len(want.ext) => g[2] = found
             \/ /\ found = 0 /\ FirstWith(libs', Len(want.ext), e)
                /\ \A i \in DOMAIN libs : Len(libs[i].name.ext) # Len(want.ext)
                /\ \A g \in given : g[1] # Len(want.ext)
  <2>1. CASE found # 0
    BY <1>9, <2>1 DEF TableInv, Loads, GuestHeld, Sole
  <2>2. CASE found = 0
    <3>1. \A i \in DOMAIN libs : Len(libs[i].name.ext) # Len(want.ext)
      BY <1>9, <2>2 DEF TableInv, GuestFresh
    <3>2. FirstWith(libs', Len(want.ext), e)
      BY <1>1, <1>3, <3>1, FirstAfterAppend DEF e
    <3>3. \A g \in given : g[1] # Len(want.ext)
      BY <1>7, <3>1
    <3> QED
      BY <2>2, <3>1, <3>2, <3>3
  <2> QED
    BY <2>1, <2>2
<1>10. GivenFirst'
  <2>1. ASSUME NEW g \in given
        PROVE  /\ Len(libs'[g[2]].name.ext) = g[1]
               /\ \/ FirstWith(libs', g[1], g[2])
                  \/ libs'[g[2]].type = "NATIVE" /\ \E j \in broken : FirstWith(libs', g[1], j)
    BY <1>4, <1>5, <1>7 DEF TableInv, GivenFirst
  <2>2. asker = "guest" =>
          /\ Len(libs'[e].name.ext) = Len(want.ext)
          /\ \/ FirstWith(libs', Len(want.ext), e)
             \/ libs'[e].type = "NATIVE" /\ \E j \in broken : FirstWith(libs', Len(want.ext), j)
    BY <1>3, <1>4, <1>5, <1>9
  <2> QED
    BY <1>1, <1>4, <2>1, <2>2 DEF GivenFirst
<1>11. HandlesStable'
  <2> SUFFICES ASSUME NEW g \in given', NEW h \in given', g[1] = h[1], g[2] < h[2]
               PROVE  g[2] \in broken' /\ libs'[h[2]].type = "NATIVE"
    BY DEF HandlesStable
  <2>1. CASE g \in given /\ h \in given
    BY <1>1, <1>4, <1>7, <2>1 DEF TableInv, HandlesStable
  <2>2. CASE asker = "guest" /\ g = <<Len(want.ext), e>>
    BY <1>1, <1>4, <1>7, <2>2 DEF e
  <2>3. CASE asker = "guest" /\ h = <<Len(want.ext), e>> /\ g \in given
    BY <1>1, <1>3, <1>4, <1>9, <2>3
  <2> QED
    BY <1>1, <1>4, <2>1, <2>2, <2>3
<1>12. Loads'
  BY <1>1, <1>6 DEF TableInv, Loads
<1>13. GuestHeld'
  <2>1. ASSUME NEW a \in DOMAIN stack, stack[a].asker = "guest"
        PROVE  /\ FirstWith(libs', Len(stack[a].want.ext), stack[a].entry)
               /\ \A g \in given' : g[1] = Len(stack[a].want.ext) => g[2] = stack[a].entry
    <3>1. /\ FirstWith(libs, Len(stack[a].want.ext), stack[a].entry)
          /\ \A g \in given : g[1] = Len(stack[a].want.ext) => g[2] = stack[a].entry
      BY <2>1 DEF TableInv, GuestHeld, Sole
    <3>2. asker = "guest" => Len(stack[a].want.ext) # Len(want.ext)
      <4>1. ASSUME asker = "guest", found # 0, Len(stack[a].want.ext) = Len(want.ext)
            PROVE  FALSE
        <5>1. stack[a].entry < found
          BY <4>1 DEF TableInv, Loads
        <5>2. stack[a].entry = found
          BY <1>9, <3>1, <4>1, FirstIsOne
        <5> QED
          BY <5>1, <5>2
      <4>2. ASSUME asker = "guest", found = 0
            PROVE  Len(stack[a].want.ext) # Len(want.ext)
        <5>1. stack[a].entry \in DOMAIN libs
              /\ Len(libs[stack[a].entry].name.ext) = Len(stack[a].want.ext)
          BY <1>4, <3>1 DEF FirstWith
        <5> QED
          BY <1>9, <4>2, <5>1
      <4> QED
        BY <4>1, <4>2
    <3> QED
      BY <1>1, <1>5, <3>1, <3>2
  <2> QED
    BY <1>1, <2>1 DEF GuestHeld, Sole
<1>14. NoneMissed'
  BY <1>1, <1>6, MissedKept DEF fs, report
<1>15. TypeOK'
  <2>1. given' \subseteq Nat \X (1..Len(libs'))
    BY <1>1, <1>3, <1>4, <1>7 DEF e
  <2>2. \A k \in DOMAIN stack' : stack'[k].entry \in 1..Len(libs')
    BY <1>1, <1>4 DEF e
  <2> QED
    BY <1>1, <1>4, <2>1, <2>2 DEF fs, report, e
<1>16. GuestFresh'
  BY <1>1 DEF GuestFresh
<1> QED
  BY <1>1, <1>8, <1>10, <1>11, <1>12, <1>13, <1>14, <1>15, <1>16
  DEF TableInv, OneDescriptor, NonePassed, EarliestPath, NoneTried

(* There is none at this attempt, and perhaps none at all.                 *)
LEMMA NativeMissInv ==
  ASSUME SearchInv, pc = "native", OpenNative,
         <<path, NativeSpelling(want, spelling)>> \notin natives
  PROVE  SearchInv'
<1> USE DEF SearchInv, TypeOK
<1> DEFINE last == pc' = "idle"
<1>1. /\ Advance("idle")
      /\ IF last /\ (found = 0 \/ asker = "guest")
         THEN Report(IF found = 0 THEN "absent" ELSE "NOT_FOUND")
         ELSE UNCHANGED <<report, stack>>
      /\ given' = IF last /\ found # 0 /\ asker = "guest"
                  THEN given \cup {<<Len(want.ext), found>>} ELSE given
      /\ UNCHANGED <<libs, fs, want, asker, found, opened, fds, broken, steady, faults>>
  BY DEF OpenNative, Give
<1>2. want \in LibName /\ Len(want.ext) \in Nat
  BY NamesMade DEF TableInv, GuestFresh
<1>3. path' \in 1..PathCount /\ spelling' \in 1..2 /\ pc' \in {"native", "idle"}
  BY <1>1, SearchAssumption DEF Advance
<1>4. StackSame
  BY <1>1, ReportStack
<1>5. /\ given' \subseteq Nat \X (1..Len(libs)) /\ GivenFirst' /\ HandlesStable'
      /\ \A n, j : Sole(n, j) => Sole(n, j)'
  <2>1. CASE given' = given
    BY <1>1, <2>1 DEF TableInv, GivenFirst, HandlesStable, Sole
  <2>2. CASE found # 0 /\ asker = "guest" /\ given' = given \cup {<<Len(want.ext), found>>}
    <3>1. FirstWith(libs, Len(want.ext), found)
      BY <2>2 DEF TableInv, GuestHeld, Sole
    <3> QED
      BY <1>1, <1>2, <2>2, <3>1, GiveFirst
  <2> QED
    BY <1>1, <2>1, <2>2
<1>6. \A i, n : Holds(i, n)' <=> Holds(i, n)
  BY <1>1 DEF Holds
<1>7. TableInv'
  <2>1. DOMAIN stack' = DOMAIN stack
    BY <1>4 DEF StackSame
  <2>2. Loads'
    BY <1>1, <1>3, <1>4, <1>6, <2>1 DEF TableInv, Loads, StackSame
  <2>3. GuestHeld'
    BY <1>1, <1>3, <1>4, <1>5, <2>1 DEF TableInv, GuestHeld, StackSame
  <2>4. TableFlat' /\ GuestFresh'
    BY <1>1, <1>3 DEF TableInv, TableFlat, GuestFresh
  <2> QED
    BY <1>5, <2>2, <2>3, <2>4 DEF TableInv
<1>8. NoNative(want, path, spelling)
  BY DEF NoNative
<1>9. \A p \in 1..PathCount, k \in 1..2 :
        last \/ p < path' \/ (p = path' /\ k < spelling') => NoNative(want, p, k)
  BY <1>1, <1>8, SearchAssumption DEF Advance, NoneTried
<1>10. NoneTried'
  BY <1>1, <1>3, <1>9 DEF NoneTried, NoFile, NoNative, fs
<1>11. NoneMissed'
  <2>1. CASE UNCHANGED report
    BY <1>1, <1>6, <2>1, MissedKept DEF fs, report
  <2>2. CASE ~ UNCHANGED report
    <3>1. /\ last /\ missed' = want
          /\ \/ found = 0 /\ why' = "absent"
             \/ found # 0 /\ why' = "NOT_FOUND"
      BY <1>1, <2>2 DEF Report, report
    <3>2. found = 0 => NoFile(want)
      BY DEF NoneTried
    <3>3. found # 0 => found \in broken /\ Holds(found, want)
      BY DEF TableInv, Loads
    <3> QED
      BY <1>1, <1>6, <1>9, <3>1, <3>2, <3>3 DEF NoneMissed, NoFile, NoNative, fs
  <2> QED
    BY <2>1, <2>2
<1>12. TypeOK'
  <2>1. /\ missed' \in LibName \cup {None}
        /\ why' \in {"none", "absent", "refused", "NOT_FOUND", "INVALID"}
    BY <1>1, <1>2 DEF Report, report
  <2>2. stack' \in Seq(Frame) /\ \A k \in DOMAIN stack' : stack'[k].entry \in 1..Len(libs)
    <3>1. DOMAIN stack' = DOMAIN stack
      BY <1>4 DEF StackSame
    <3>2. \A k \in DOMAIN stack : stack[k].entry \in 1..Len(libs)
      OBVIOUS
    <3> HIDE DEF SearchInv, TypeOK
    <3> QED
      BY <1>4, <3>1, <3>2 DEF StackSame
  <2> QED
    BY <1>1, <1>3, <1>5, <2>1, <2>2 DEF fs
<1> QED
  BY <1>1, <1>3, <1>7, <1>10, <1>11, <1>12 DEF OneDescriptor, NonePassed, EarliestPath

LEMMA OpenFileInv ==
  ASSUME SearchInv, OpenFile
  PROVE  SearchInv'
<1> USE DEF SearchInv, TypeOK, OpenFile
<1> DEFINE f == <<path, FileSpelling(want, spelling)>>
<1>1. UNCHANGED <<fs, libs, stack, want, asker, found, history, faults>> /\ steady \subseteq files
      /\ pc = "open"
  OBVIOUS
<1>2. FileSpelling(want, 1) = want
  BY DEF FileSpelling
<1>3. \A g \in files : g = <<g[1], g[2]>> /\ g[1] \in 1..PathCount
  BY SearchAssumption
<1>4. StackSame /\ found = 0 /\ missed = None
  BY <1>1, ReportStack DEF TableInv, Loads, NoneTried
<1>5. NoneMissed'
  BY <1>1, <1>4 DEF NoneMissed, history, report
<1>6. CASE f \in files
  <2>1. opened' = f /\ fds' = fds + 1 /\ pc' = "map" /\ UNCHANGED <<path, spelling>>
    BY <1>6
  <2>2. EarliestPath'
    BY <1>1, <1>2, <1>3, <2>1 DEF NonePassed, EarliestPath, history
  <2>3. NoneTried'
    BY <1>1, <2>1 DEF NoneTried, Spelled
  <2>4. TableInv'
    BY <1>1, <1>4, <2>1, TableKept DEF history
  <2> QED
    BY <1>1, <1>5, <1>6, <2>1, <2>2, <2>3, <2>4
    DEF fs, history, report, OneDescriptor, NonePassed
<1>7. CASE f \notin files
  <2>1. Advance("native") /\ UNCHANGED <<opened, fds>>
    BY <1>7
  <2>2. path' \in 1..PathCount /\ spelling' \in 1..2 /\ pc' \in {"open", "native"}
    BY <1>1, <2>1, SearchAssumption DEF Advance
  <2>3. NonePassed'
    <3>1. UNCHANGED <<steady, want>> /\ \A g \in steady : g # f /\ g = <<g[1], g[2]>>
          /\ g[1] \in 1..PathCount
      BY <1>1, <1>3, <1>7 DEF history
    <3>2. \A g \in steady :
            g[2] \in {FileSpelling(want, 1), FileSpelling(want, 2)} =>
              g[1] >= path /\ (g[1] = path /\ spelling = 2 => g[2] # want)
      BY <1>1 DEF NonePassed
    <3>3. CASE spelling = 1
      BY <1>2, <2>1, <3>1, <3>2, <3>3 DEF Advance, NonePassed
    <3>4. CASE spelling = 2
      <4>1. pc' = "open" => path' = path + 1 /\ spelling' = 1
        BY <2>1, <3>4 DEF Advance
      <4>2. ASSUME NEW g \in steady,
                   g[2] \in {FileSpelling(want, 1), FileSpelling(want, 2)}
            PROVE  g[1] >= path + 1
        <5>1. g[1] # path
          BY <1>2, <3>1, <3>2, <3>4, <4>2
        <5> QED
          BY <3>1, <3>2, <4>2, <5>1
      <4> QED
        BY <3>1, <4>1, <4>2 DEF NonePassed
    <3> QED
      BY <3>3, <3>4
  <2>4. NoneTried'
    <3>1. CASE pc' = "open"
      BY <1>1, <1>4, <3>1 DEF NoneTried, history, report
    <3>2. CASE pc' = "native"
      <4>1. path = PathCount /\ spelling = 2 /\ path' = 1 /\ spelling' = 1
        BY <1>1, <2>1, <3>2, SearchAssumption DEF Advance
      <4>2. NoFile(want)
        BY <1>1, <1>2, <1>3, <1>7, <4>1 DEF NonePassed, NoFile, Spelled
      <4> QED
        BY <1>1, <3>2, <4>1, <4>2 DEF NoneTried, NoFile, NoNative, fs, history
    <3> QED
      BY <2>2, <3>1, <3>2
  <2>5. TableInv'
    BY <1>1, <1>4, <2>2, TableKept DEF history
  <2> QED
    BY <1>1, <1>5, <2>1, <2>2, <2>3, <2>4, <2>5
    DEF fs, history, report, OneDescriptor, EarliestPath
<1> QED
  BY <1>6, <1>7

(* A file that is refused, or for which there is no memory.                *)
LEMMA RefusedInv ==
  ASSUME SearchInv, RejectFile \/ MapNoMemory
  PROVE  SearchInv'
<1> USE DEF SearchInv, TypeOK
<1>1. /\ pc = "map" /\ pc' = "idle" /\ Report("refused")
      /\ UNCHANGED <<fs, libs, cursor, found, opened, given, broken, steady>>
  BY DEF RejectFile, MapNoMemory
<1>2. OneDescriptor' /\ fds' \in Nat /\ faults' \in 0..MaxFaults
  BY SearchAssumption DEF RejectFile, MapNoMemory, OneDescriptor
<1>3. StackSame
  BY <1>1, ReportStack
<1>4. TableInv'
  BY <1>1, <1>3, TableKept DEF cursor
<1>5. missed' = want /\ why' = "refused" /\ want \in LibName
  BY <1>1 DEF Report, TableInv, GuestFresh
<1>6. NoneMissed'
  BY <1>1, <1>5 DEF NoneMissed, NoneTried
<1>7. stack' \in Seq(Frame) /\ \A k \in DOMAIN stack' : stack'[k].entry \in 1..Len(libs)
  BY <1>3 DEF StackSame
<1> QED
  BY <1>1, <1>2, <1>4, <1>5, <1>6, <1>7 DEF fs, cursor, NonePassed, EarliestPath, NoneTried

(* The files that change are none that a search relies on.                 *)
LEMMA OthersInv ==
  ASSUME SearchInv, Create \/ Remove
  PROVE  SearchInv'
<1> USE DEF SearchInv, TypeOK
<1>1. UNCHANGED <<natives, libs, stack, pc, cursor, found, opened, fds, given, report,
                  broken, faults>>
  BY DEF Create, Remove, history
<1>2. files' \subseteq FileNames /\ steady' \subseteq files' /\ steady' \subseteq steady
  BY DEF Create, Remove, history
<1>3. changes' \in 0..MaxChanges
  BY SearchAssumption DEF Create, Remove
<1>4. TableInv'
  <2>1. StackSame
    BY <1>1, ReportStack
  <2> QED
    BY <1>1, <2>1 DEF TableInv, TableFlat, GivenFirst, HandlesStable, Loads, Holds,
       GuestHeld, Sole, FirstWith, GuestFresh, cursor
<1>5. NoneTried' /\ NonePassed' /\ EarliestPath' /\ OneDescriptor'
  BY <1>1, <1>2 DEF NoneTried, NoFile, NoNative, NonePassed, EarliestPath, OneDescriptor,
     cursor, report
<1>6. NoneMissed'
  BY <1>1, <1>2, MissedKept, HoldsKept DEF cursor, report
<1> QED
  BY <1>1, <1>2, <1>3, <1>4, <1>5, <1>6 DEF cursor, report

LEMMA StepInv == SearchInv /\ [Next]_vars => SearchInv'
<1> SUFFICES ASSUME SearchInv, [Next]_vars
             PROVE  SearchInv'
  OBVIOUS
<1>1. ASSUME NEW n \in Asked, LoadLibraryHit(n) \/ LoadLibraryW(n)
      PROVE  SearchInv'
  <2>1. n \in LibName
    BY SearchAssumption
  <2> DEFINE m == Completed(n)
  <2>2. m \in LibName /\ LastPart(m) \in LibName /\ LastPart(m).ext = m.ext
    BY <2>1, NamesMade
  <2>3. CASE LoadLibraryHit(n)
    BY <2>2, <2>3, HitInv DEF LoadLibraryHit
  <2>4. CASE LoadLibraryW(n)
    BY <2>2, <2>4, StartInv DEF LoadLibraryW
  <2> QED
    BY <1>1, <2>3, <2>4
<1>2. ASSUME NEW n \in Imported, Import(n)
      PROVE  SearchInv'
  BY <1>2, SearchAssumption, StartInv DEF Import
<1>3. ASSUME NEW n \in Looked, GetModuleHandle(HandleNameW(n)) \/ GetModuleHandle(HandleNameA(n))
      PROVE  SearchInv'
  <2>1. HandleNameW(n) \in LibName /\ HandleNameA(n) \in LibName
    BY SearchAssumption, HandleNames
  <2> QED
    BY <1>3, <2>1, HitInv DEF GetModuleHandle
<1>4. CASE OpenFile
  BY <1>4, OpenFileInv
<1>5. CASE MapFile
  BY <1>5, MapFileInv
<1>6. CASE RejectFile \/ MapNoMemory
  BY <1>6, RefusedInv
<1>7. CASE OpenNative
  BY <1>7, NativeHitInv, NativeMissInv DEF OpenNative
<1>8. ASSUME NEW s \in Status, Bound(s)
      PROVE  SearchInv'
  BY <1>8, BoundInv
<1>9. CASE Create \/ Remove
  BY <1>9, OthersInv
<1>10. CASE UNCHANGED vars
  <2>1. UNCHANGED <<files, natives, changes, libs, stack, pc, want, asker, path, spelling,
                    found, opened, fds, given, missed, why, broken, steady, faults>>
    BY <1>10 DEF vars, fs, cursor, history, report
  <2> QED
    BY <2>1 DEF SearchInv, TypeOK, TableInv, TableFlat, GivenFirst, HandlesStable, Loads,
       Holds, GuestHeld, Sole, FirstWith, GuestFresh, OneDescriptor, NonePassed,
       EarliestPath, NoneTried, NoneMissed, NoFile, NoNative
<1> QED
  BY <1>1, <1>2, <1>3, <1>4, <1>5, <1>6, <1>7, <1>8, <1>9, <1>10 DEF Next

(* The inductive invariant holds of every behaviour of the search.         *)
THEOREM SearchInvariance == Spec => []SearchInv
BY InitInv, StepInv, PTL DEF Spec

(* Every call that asks for one name gets one handle, whatever becomes of  *)
(* the files, however loads nest and whatever the imports register; but    *)
(* for the one that loaded a file whose imports were incomplete and was    *)
(* given the native library opened in its place (kernel32/main.c,          *)
(* load_dll_library and loaderlib_load_lib).                               *)
THEOREM SearchHandlesStable == Spec => []HandlesStable
<1>1. SearchInv => HandlesStable
  BY DEF SearchInv, TableInv
<1> QED
  BY <1>1, SearchInvariance, PTL

(* The file mapped is the one of the earliest import path: none that was   *)
(* there throughout is passed over (load_dll_library).                     *)
THEOREM SearchEarliestPath == Spec => []EarliestPath
<1>1. SearchInv => EarliestPath
  BY DEF SearchInv
<1> QED
  BY <1>1, SearchInvariance, PTL

(* What is reported as not found was not there under either spelling of a  *)
(* file, or was refused, or was loaded with incomplete imports; and but    *)
(* for a refused file or a missing ordinal, a native library of the build  *)
(* is missed only by a name that ends in .DLL (load_dll_library,           *)
(* loaderlib_native_open_lib, LoadLibraryW, process_imports).              *)
THEOREM SearchMissExplained == Spec => []MissExplained
<1>1. SearchInv => MissExplained
  <2> SUFFICES ASSUME SearchInv, missed # None
               PROVE  MissExplained
    BY DEF MissExplained
  <2>1. missed \in LibName
    BY DEF SearchInv, TypeOK
  <2>2. Spelled(missed) = {missed, Recased(missed, OtherCase(missed), TRUE)}
    BY DEF Spelled, FileSpelling
  <2>3. ASSUME why \in {"absent", "NOT_FOUND"},
               missed.dir = <<>>, missed.ext = <<"lower">>, NEW p \in 1..PathCount
        PROVE  <<p, [dir |-> <<>>, stem |-> "lower", ext |-> <<>>]>> \notin natives
    <3>1. Stripped(missed) = [dir |-> <<>>, stem |-> missed.stem, ext |-> <<>>]
      <4>1. Stripped(missed) = WithoutExt(missed)
        BY <2>3 DEF Stripped, LastExt, LastIs
      <4>2. SubSeq(missed.ext, 1, Len(missed.ext) - 1) = <<>>
        BY <2>3
      <4> QED
        BY <2>1, <2>3, <4>1, <4>2 DEF WithoutExt, LibName
    <3> DEFINE lib == [dir |-> <<>>, stem |-> "lower", ext |-> <<>>]
    <3>2. /\ <<p, NativeSpelling(missed, 1)>> \notin natives
          /\ <<p, NativeSpelling(missed, 2)>> \notin natives
      BY <2>3 DEF SearchInv, NoneMissed, NoNative
    <3>3. CASE missed.stem = "lower"
      <4>1. NativeSpelling(missed, 1) = lib
        BY <3>1, <3>3 DEF NativeSpelling
      <4> QED
        BY <3>2, <4>1, Zenon
    <3>4. CASE missed.stem # "lower"
      <4>1. OtherCase(missed) = "lower"
        BY <2>3, <3>4 DEF OtherCase, First
      <4>2. [k \in DOMAIN <<>> |-> "lower"] = <<>>
        OBVIOUS
      <4>3. Recased(Stripped(missed), "lower", FALSE) =
              [dir |-> [k \in DOMAIN <<>> |-> "lower"], stem |-> "lower",
               ext |-> [k \in DOMAIN <<>> |-> "lower"]]
        BY <3>1 DEF Recased
      <4>4. NativeSpelling(missed, 2) = lib
        <5>1. NativeSpelling(missed, 2) = Recased(Stripped(missed), "lower", FALSE)
          BY <4>1 DEF NativeSpelling
        <5> QED
          BY <4>2, <4>3, <5>1, Zenon
      <4> QED
        BY <3>2, <4>4, Zenon
    <3> QED
      BY <3>3, <3>4
  <2>4. /\ why = "absent" => \A f \in steady : f[2] \notin Spelled(missed)
        /\ why = "refused" => opened[2] \in Spelled(missed)
        /\ why \in {"NOT_FOUND", "INVALID"} =>
             \E i \in broken : libs[i] = [name |-> LastPart(missed), type |-> "PE"]
    BY DEF SearchInv, NoneMissed, NoFile, Holds
  <2> QED
    BY <2>2, <2>3, <2>4 DEF MissExplained
<1> QED
  BY <1>1, SearchInvariance, PTL

(* A search that ends has closed what it opened, but for one descriptor    *)
(* for each time memory ran out (load_dll_library).                        *)
THEOREM SearchDescriptorsClosed == Spec => []DescriptorsClosed
<1>1. SearchInv => DescriptorsClosed
  BY DEF SearchInv, TypeOK, OneDescriptor, DescriptorsClosed
<1> QED
  BY <1>1, SearchInvariance, PTL
=============================================================================
