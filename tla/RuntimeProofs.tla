---------------------------- MODULE RuntimeProofs ----------------------------
(***************************************************************************)
(* What is proved of Msvcrt, Wsprintf and Printf.  The functions given to  *)
(* _onexit run once for each run of the handler, and _initterm calls what  *)
(* an array holds, for any functions, arrays, size of the table and number *)
(* of modules that import msvcrt.dll.  wsprintfW writes what its format    *)
(* asks for, for any formats and arguments.  printf prints, counts and     *)
(* stores what C says of a call, for any formats, arguments and strings,   *)
(* and any even number of values of a char.                                *)
(***************************************************************************)
EXTENDS Msvcrt, Wsprintf, Printf, FiniteSetTheorems, SequenceTheorems, WellFoundedInduction, TLAPS
-----------------------------------------------------------------------------
(* The invariant of the exit handler.  Reached: run r has passed entry k.  *)
(* What has been called is what has been reached, once, except by the runs *)
(* over when an entry came.                                                *)
Reached(r, k) == r < Begun \/ (r = Begun /\ (pc = "ended" \/ k <= i))

Counts ==
  /\ pc \in {"run", "init", "exit", "ended"}
  /\ told \in Nat /\ handlers \in 0..told
  /\ pc \in {"run", "init"} => handlers = told /\ ran = <<>>
  /\ pc = "exit" => handlers < told
  /\ pc = "ended" => handlers = 0
  /\ i \in Nat /\ (pc = "exit" => i <= Len(fns))

Registered ==
  /\ fns \in Seq(Fn) /\ since \in Seq(Nat) /\ Len(since) = Len(fns)
  /\ \A k \in 1..Len(fns) : since[k] <= Begun

CalledOnce ==
  /\ ran \in Seq(Nat \X Nat)
  /\ \A n \in 1..Len(ran) :
       /\ ran[n][1] \in 1..told /\ ran[n][2] \in 1..Len(fns)
       /\ Reached(ran[n][1], ran[n][2])
       /\ since[ran[n][2]] <= ran[n][1]
  /\ \A m, n \in 1..Len(ran) : ran[m] = ran[n] => m = n
  /\ \A r \in 1..told : \A k \in 1..Len(fns) :
       Reached(r, k) /\ since[k] <= r => \E n \in 1..Len(ran) : ran[n] = <<r, k>>

HandlerInv == Counts /\ Registered /\ CalledOnce

(* The invariant of _initterm: what has been called lies up to the cell it *)
(* is at, which is in the array unless that is empty.                      *)
InitInv ==
  /\ array # <<>> /\ array.end > 1 =>
       /\ array \in Arrays
       /\ at \in 1..array.end
       /\ begun = UpTo(array)[at]
       /\ pc = "init" => at < array.end
       /\ pc = "run" /\ ~ array.checks => at = array.end
  /\ pc = "init" => array # <<>>
-----------------------------------------------------------------------------
(* Appending to a sequence.                                                *)
LEMMA Appended ==
  ASSUME NEW S, NEW s \in Seq(S), NEW e \in S
  PROVE  /\ Append(s, e) \in Seq(S) /\ Len(Append(s, e)) = Len(s) + 1
         /\ Len(s) \in Nat
         /\ Append(s, e)[Len(s) + 1] = e
         /\ \A n \in 1..Len(s) : Append(s, e)[n] = s[n]
BY AppendProperties

LEMMA HandlerInitially == Init => HandlerInv
BY EmptySeq, MsvcrtAssumption DEF Init, HandlerInv, Counts, Registered, CalledOnce, Begun, Reached

(* Runs of the handler are numbered from 1 to told.                        *)
LEMMA BegunBounded ==
  ASSUME Counts
  PROVE  /\ Begun \in 0..told
         /\ pc \in {"run", "init"} => Begun = 0
         /\ pc = "exit" => Begun >= 1
         /\ pc = "ended" => Begun = told
BY DEF Counts, Begun

(* A module that imports msvcrt.dll adds a run that has not begun.         *)
LEMMA SetArgsKeeps ==
  ASSUME HandlerInv, SetArgs
  PROVE  HandlerInv'
<1> USE DEF HandlerInv, loading, registry, initterm
<1>1. /\ pc' = pc /\ told' = told + 1 /\ handlers' = handlers + 1
      /\ fns' = fns /\ since' = since /\ i' = i /\ ran' = ran /\ pc # "ended"
  BY DEF SetArgs
<1>2. Begun' = Begun
  BY <1>1 DEF Begun, Counts
<1>3. Counts'
  BY <1>1 DEF Counts
<1>4. Registered'
  BY <1>1, <1>2 DEF Registered
<1>5. \A r, k : Reached(r, k)' <=> Reached(r, k)
  BY <1>1, <1>2 DEF Reached
<1>6. CalledOnce'
  <2>1. \A k : ~ Reached(told + 1, k)
    BY <1>1, BegunBounded DEF Counts, Reached
  <2>2. \A r \in 1..told' : r \in 1..told \/ r = told + 1
    BY <1>1 DEF Counts
  <2>3. 1..told \subseteq 1..told'
    BY <1>1 DEF Counts
  <2> QED
    BY <1>1, <1>5, <2>1, <2>2, <2>3 DEF CalledOnce
<1> QED
  BY <1>3, <1>4, <1>6

(* A function registered comes after what this run has reached.            *)
LEMMA OnExitKeeps ==
  ASSUME HandlerInv, NEW f \in Fn, OnExit(f)
  PROVE  HandlerInv'
<1> USE DEF HandlerInv, loading, registry, initterm
<1>1. /\ pc' = pc /\ told' = told /\ handlers' = handlers /\ i' = i /\ ran' = ran
      /\ pc # "ended" /\ told > 0
  BY DEF OnExit
<1>2. Begun' = Begun
  BY <1>1 DEF Begun
<1>3. \A r, k : Reached(r, k)' <=> Reached(r, k)
  BY <1>1, <1>2 DEF Reached
<1>4. CASE Len(fns) = MaxFns
  <2>1. fns' = fns /\ since' = since
    BY <1>4 DEF OnExit
  <2> QED
    <3>1. Counts' /\ Registered'
      BY <1>1, <1>2, <2>1 DEF Counts, Registered
    <3>2. CalledOnce'
      BY <1>1, <1>3, <2>1 DEF CalledOnce
    <3> QED
      BY <3>1, <3>2
<1>5. CASE Len(fns) # MaxFns
  <2>1. fns' = Append(fns, f) /\ since' = Append(since, Begun)
    BY <1>5 DEF OnExit
  <2>2. Begun \in 0..told /\ Begun \in Nat
    BY BegunBounded DEF Counts
  <2>3. /\ fns' \in Seq(Fn) /\ Len(fns') = Len(fns) + 1 /\ Len(fns) \in Nat
    BY <2>1, Appended DEF Registered
  <2>4. /\ since' \in Seq(Nat) /\ Len(since') = Len(fns) + 1
        /\ since'[Len(fns) + 1] = Begun
        /\ \A k \in 1..Len(fns) : since'[k] = since[k]
    BY <2>1, <2>2, Appended DEF Registered
  <2>5. \A k \in 1..Len(fns') : k \in 1..Len(fns) \/ k = Len(fns) + 1
    BY <2>3
  <2>6. Counts'
    BY <1>1, <2>3 DEF Counts
  <2>7. Registered'
    <3>1. \A k \in 1..Len(fns) : since[k] <= Begun
      BY DEF Registered
    <3>2. \A k \in 1..Len(fns') : since'[k] <= Begun
      BY <2>2, <2>4, <2>5, <3>1
    <3> QED
      BY <1>2, <2>3, <2>4, <3>2 DEF Registered
  <2>8. \A r \in 1..told : Reached(r, Len(fns) + 1) => r < Begun
    BY <1>1, <2>2, <2>3, BegunBounded DEF Counts, Reached
  <2>9. CalledOnce'
    <3>1. 1..Len(fns) \subseteq 1..Len(fns')
      BY <2>3
    <3>2. \A n \in 1..Len(ran) : ran[n][2] \in 1..Len(fns) /\ since'[ran[n][2]] = since[ran[n][2]]
      BY <2>4 DEF CalledOnce
    <3>3. ASSUME NEW r \in 1..told, NEW k \in 1..Len(fns'),
                 Reached(r, k), since'[k] <= r
          PROVE  \E n \in 1..Len(ran) : ran[n] = <<r, k>>
      <4>1. CASE k \in 1..Len(fns)
        BY <2>4, <3>3, <4>1 DEF CalledOnce
      <4>2. CASE k = Len(fns) + 1
        <5>1. r < Begun /\ Begun <= r
          BY <2>4, <2>8, <3>3, <4>2
        <5> QED
          BY <2>2, <5>1
      <4> QED
        BY <2>5, <4>1, <4>2
    <3> QED
      BY <1>1, <1>3, <3>1, <3>2, <3>3 DEF CalledOnce
  <2> QED
    BY <2>6, <2>7, <2>9
<1> QED
  BY <1>4, <1>5

(* _initterm is before the end.                                            *)
LEMMA InitKeeps ==
  ASSUME HandlerInv, InitStart \/ (\E fails \in BOOLEAN : InitTurn(fails))
  PROVE  HandlerInv'
<1>1. /\ pc \in {"run", "init"} /\ pc' \in {"run", "init"}
      /\ told' = told /\ handlers' = handlers
      /\ fns' = fns /\ since' = since /\ i' = i /\ ran' = ran
  BY DEF InitStart, InitTurn, loading, registry
<1>2. Begun' = Begun
  BY <1>1 DEF Begun
<1>3. \A r, k : Reached(r, k)' <=> Reached(r, k)
  BY <1>1, <1>2 DEF Reached
<1> QED
  BY <1>1, <1>2, <1>3 DEF HandlerInv, Counts, Registered, CalledOnce

(* A new run has reached nothing; the run before it reached every entry.   *)
LEMMA NextHandlerKeeps ==
  ASSUME HandlerInv, Exit \/ HandlerDone
  PROVE  HandlerInv'
<1> USE DEF HandlerInv, loading, registry, initterm
<1>1. /\ told' = told /\ fns' = fns /\ since' = since /\ ran' = ran /\ NextHandler
      /\ pc \in {"run", "init", "exit"} /\ (pc = "exit" => i = Len(fns))
  BY DEF Exit, HandlerDone
<1>2. CASE handlers > 0
  <2>1. pc' = "exit" /\ handlers' = handlers - 1 /\ i' = 0
    BY <1>1, <1>2 DEF NextHandler
  <2>2. Begun' = Begun + 1
    BY <1>1, <2>1 DEF Counts, Begun
  <2>3. Counts'
    BY <1>1, <1>2, <2>1 DEF Counts, Registered
  <2>4. Registered'
    BY <1>1, <2>2, BegunBounded DEF Registered
  <2>5. ASSUME NEW r \in 1..told, NEW k \in 1..Len(fns)
        PROVE  Reached(r, k)' <=> Reached(r, k)
    <3>1. Begun \in Nat
      BY BegunBounded DEF Counts
    <3>2. Reached(r, k)' <=> r < Begun + 1
      BY <2>1, <2>2, <3>1 DEF Reached, Registered
    <3>3. Reached(r, k) <=> r < Begun + 1
      BY <1>1, <3>1, BegunBounded DEF Reached, Registered
    <3> QED
      BY <3>2, <3>3
  <2>6. CalledOnce'
    BY <1>1, <2>5 DEF CalledOnce
  <2> QED
    BY <2>3, <2>4, <2>6
<1>3. CASE ~ handlers > 0
  <2>1. pc' = "ended" /\ handlers' = handlers /\ i' = i
    BY <1>1, <1>3 DEF NextHandler
  <2>2. handlers = 0 /\ (pc = "exit" \/ told = 0)
    BY <1>1, <1>3 DEF Counts
  <2>3. Begun' = Begun
    BY <1>1, <2>1, <2>2 DEF Counts, Begun
  <2>4. Counts' /\ Registered'
    BY <1>1, <2>1, <2>2, <2>3 DEF Counts, Registered
  <2>5. ASSUME NEW r \in 1..told, NEW k \in 1..Len(fns)
        PROVE  Reached(r, k)' <=> Reached(r, k)
    BY <1>1, <2>1, <2>2, <2>3 DEF Reached, Counts, Registered
  <2>6. CalledOnce'
    BY <1>1, <2>5 DEF CalledOnce
  <2> QED
    BY <2>4, <2>6
<1> QED
  BY <1>2, <1>3

(* A turn of the handler calls the entry after those reached.              *)
LEMMA TurnKeeps ==
  ASSUME HandlerInv, HandlerTurn
  PROVE  HandlerInv'
<1> USE DEF HandlerInv, loading, registry, initterm
<1> DEFINE b == Begun
           j == i + 1
<1>1. /\ pc = "exit" /\ pc' = pc /\ told' = told /\ handlers' = handlers
      /\ fns' = fns /\ since' = since
      /\ i < Len(fns) /\ i' = j /\ ran' = Append(ran, <<b, j>>)
  BY DEF HandlerTurn
<1>2. Begun' = Begun
  BY <1>1 DEF Begun
<1>3. b \in 1..told /\ b \in Nat /\ j \in 1..Len(fns) /\ j \in Nat /\ Len(fns) \in Nat
  BY <1>1, BegunBounded DEF Counts, Registered
<1>4. /\ ran' \in Seq(Nat \X Nat) /\ Len(ran') = Len(ran) + 1 /\ Len(ran) \in Nat
      /\ ran'[Len(ran) + 1] = <<b, j>>
      /\ \A n \in 1..Len(ran) : ran'[n] = ran[n]
  <2>1. <<b, j>> \in Nat \X Nat /\ ran \in Seq(Nat \X Nat)
    BY <1>3 DEF CalledOnce
  <2> QED
    BY <1>1, <2>1, Appended
<1>5. Counts' /\ Registered'
  BY <1>1, <1>2, <1>3 DEF Counts, Registered
<1>6. ASSUME NEW r \in 1..told, NEW k \in 1..Len(fns)
      PROVE  Reached(r, k)' <=> Reached(r, k) \/ (r = b /\ k = j)
  <2>1. k <= j <=> k <= i \/ k = j
    BY <1>3 DEF Counts
  <2> QED
    BY <1>1, <1>2, <2>1 DEF Reached
<1>7. ~ Reached(b, j)
  BY <1>1, <1>3 DEF Reached, Counts
<1>8. since[j] <= b
  BY <1>3 DEF Registered
<1>9. \A n \in 1..Len(ran') : n \in 1..Len(ran) \/ n = Len(ran) + 1
  BY <1>4
<1>10. \A n \in 1..Len(ran) : ran[n] # <<b, j>>
  <2> SUFFICES ASSUME NEW n \in 1..Len(ran), ran[n] = <<b, j>>
               PROVE  FALSE
    OBVIOUS
  <2>1. Reached(ran[n][1], ran[n][2])
    BY DEF CalledOnce
  <2> QED
    BY <1>7, <2>1
<1>11. CalledOnce'
  <2>1. ASSUME NEW n \in 1..Len(ran')
        PROVE  /\ ran'[n][1] \in 1..told /\ ran'[n][2] \in 1..Len(fns)
               /\ Reached(ran'[n][1], ran'[n][2]) \/ (ran'[n][1] = b /\ ran'[n][2] = j)
               /\ since[ran'[n][2]] <= ran'[n][1]
    <3>1. CASE n \in 1..Len(ran)
      BY <1>4, <3>1 DEF CalledOnce
    <3>2. CASE n = Len(ran) + 1
      BY <1>3, <1>4, <1>8, <3>2
    <3> QED
      BY <1>9, <3>1, <3>2
  <2>2. \A m, n \in 1..Len(ran') : ran'[m] = ran'[n] => m = n
    BY <1>4, <1>9, <1>10 DEF CalledOnce
  <2>3. ASSUME NEW r \in 1..told, NEW k \in 1..Len(fns),
               Reached(r, k) \/ (r = b /\ k = j), since[k] <= r
        PROVE  \E n \in 1..Len(ran') : ran'[n] = <<r, k>>
    <3>1. CASE Reached(r, k)
      <4>1. PICK n \in 1..Len(ran) : ran[n] = <<r, k>>
        BY <2>3, <3>1 DEF CalledOnce
      <4>2. n \in 1..Len(ran')
        <5>1. Len(ran) \in Nat /\ Len(ran') = Len(ran) + 1
          BY <1>4
        <5> QED
          BY <4>1, <5>1
      <4>3. ran'[n] = <<r, k>>
        <5>1. \A m \in 1..Len(ran) : ran'[m] = ran[m]
          BY <1>4
        <5> QED
          BY <4>1, <5>1
      <4> QED
        BY <4>2, <4>3
    <3>2. CASE r = b /\ k = j
      <4>1. Len(ran) + 1 \in 1..Len(ran')
        BY <1>4
      <4> QED
        BY <1>4, <3>2, <4>1
    <3> QED
      BY <2>3, <3>1, <3>2
  <2>4. ASSUME NEW n \in 1..Len(ran')
        PROVE  \E r \in 1..told, k \in 1..Len(fns) :
                 ran'[n][1] = r /\ ran'[n][2] = k /\ Reached(r, k)' /\ since[k] <= r
    <3>1. PICK r \in 1..told, k \in 1..Len(fns) : ran'[n][1] = r /\ ran'[n][2] = k
      BY <2>1
    <3> QED
      BY <1>6, <2>1, <3>1
  <2>5. \A n \in 1..Len(ran') :
           /\ ran'[n][1] \in 1..told /\ ran'[n][2] \in 1..Len(fns)
           /\ Reached(ran[n][1], ran[n][2])'
           /\ since[ran'[n][2]] <= ran'[n][1]
    BY <1>1, <2>4 DEF Reached
  <2>6. \A r \in 1..told : \A k \in 1..Len(fns) :
          Reached(r, k)' /\ since[k] <= r => \E n \in 1..Len(ran') : ran'[n] = <<r, k>>
    BY <1>6, <2>3
  <2> QED
    BY <1>1, <1>4, <2>2, <2>5, <2>6 DEF CalledOnce
<1> QED
  BY <1>5, <1>11

LEMMA HandlerStutters ==
  ASSUME HandlerInv, UNCHANGED vars
  PROVE  HandlerInv'
<1>1. /\ pc' = pc /\ told' = told /\ handlers' = handlers /\ i' = i /\ ran' = ran
      /\ fns' = fns /\ since' = since
  BY DEF vars, loading, registry
<1>2. Begun' = Begun
  BY <1>1 DEF Begun
<1>3. \A r, k : Reached(r, k)' <=> Reached(r, k)
  BY <1>1, <1>2 DEF Reached
<1>4. Counts' /\ Registered'
  BY <1>1, <1>2 DEF HandlerInv, Counts, Registered
<1>5. CalledOnce'
  BY <1>1, <1>3 DEF HandlerInv, CalledOnce
<1> QED
  BY <1>4, <1>5 DEF HandlerInv

(* At the end every run has reached every entry.                           *)
LEMMA HandlerOnce ==
  ASSUME HandlerInv
  PROVE  RunsOncePerImporter
<1> SUFFICES ASSUME pc = "ended", NEW k \in DOMAIN fns, NEW r \in 1..told
             PROVE  LET times == {n \in Runs(k) : ran[n][1] = r}
                    IN IF r < since[k] THEN times = {} ELSE \E n \in times : times = {n}
  BY Zenon DEF RunsOncePerImporter
<1> DEFINE times == {n \in Runs(k) : ran[n][1] = r}
<1>1. k \in 1..Len(fns) /\ since[k] \in Nat /\ r \in Nat
  BY ElementOfSeq DEF HandlerInv, Registered, Counts
<1>2. Reached(r, k)
  BY BegunBounded DEF HandlerInv, Counts, Reached
<1>3. /\ DOMAIN ran = 1..Len(ran)
      /\ \A n \in 1..Len(ran) : ran[n] = <<ran[n][1], ran[n][2]>>
  <2>1. ran \in Seq(Nat \X Nat)
    BY DEF HandlerInv, CalledOnce
  <2>2. \A n \in 1..Len(ran) : ran[n] \in Nat \X Nat
    BY <2>1, ElementOfSeq
  <2> QED
    BY <2>1, <2>2
<1>4. \A n : n \in times <=> n \in 1..Len(ran) /\ ran[n] = <<r, k>>
  BY <1>3 DEF Runs
<1> HIDE DEF times
<1>5. ASSUME r < since[k] PROVE times = {}
  <2>1. ASSUME NEW n \in times PROVE FALSE
    <3>1. n \in 1..Len(ran) /\ ran[n][1] = r /\ ran[n][2] = k
      BY <1>4, <2>1
    <3>2. \A m \in 1..Len(ran) : since[ran[m][2]] <= ran[m][1]
      BY DEF HandlerInv, CalledOnce
    <3>3. since[k] <= r
      BY <3>1, <3>2
    <3> QED
      BY <1>1, <1>5, <3>3
  <2> QED
    BY <2>1
<1>6. ASSUME ~ r < since[k] PROVE \E n \in times : times = {n}
  <2>0. since[k] <= r
    BY <1>1, <1>6
  <2>1. PICK n \in 1..Len(ran) : ran[n] = <<r, k>>
    BY <1>1, <1>2, <2>0 DEF HandlerInv, CalledOnce
  <2>2. \A m \in 1..Len(ran) : ran[m] = ran[n] => m = n
    BY DEF HandlerInv, CalledOnce
  <2>3. \A m : m \in times <=> m = n
    BY <1>4, <2>1, <2>2
  <2>4. n \in times /\ times = {n}
    BY <2>3
  <2> QED
    BY <2>4
<1>7. IF r < since[k] THEN times = {} ELSE \E n \in times : times = {n}
  BY <1>5, <1>6
<1> QED
  BY <1>7 DEF times

(* Every accepted function runs at the end, once for each run of the       *)
(* handler that was not over when it was registered, however many modules  *)
(* import msvcrt.dll and whatever functions register meanwhile.            *)
THEOREM MsvcrtRunsOncePerImporter == Spec => []RunsOncePerImporter
<1>1. Init => HandlerInv
  BY HandlerInitially
<1>2. HandlerInv /\ [Next]_vars => HandlerInv'
  BY SetArgsKeeps, OnExitKeeps, InitKeeps, NextHandlerKeeps, TurnKeeps, HandlerStutters
  DEF Next
<1>3. HandlerInv => RunsOncePerImporter
  BY HandlerOnce
<1> QED
  BY <1>1, <1>2, <1>3, PTL DEF Spec
-----------------------------------------------------------------------------
(* Induction over the numbers, for a set.                                  *)
LEMMA Induction ==
  ASSUME NEW S, 0 \in S, \A n \in Nat : n \in S => n + 1 \in S
  PROVE  Nat \subseteq S
<1> SUFFICES ASSUME Nat \ S # {} PROVE FALSE
  OBVIOUS
<1> DEFINE R == OpToRel(<, Nat)
<1>1. IsWellFoundedOn(R, Nat)
  BY NatLessThanWellFounded
<1>2. \A x, y \in Nat : y < x => <<y, x>> \in R
  BY DEF OpToRel
<1> HIDE DEF R
<1>3. PICK x \in Nat \ S : \A y \in Nat \ S : ~ (<<y, x>> \in R)
  <2>1. \A U \in SUBSET Nat : U # {} => \E x \in U : \A y \in U : ~ (<<y, x>> \in R)
    BY <1>1, WFMin
  <2>2. Nat \ S \in SUBSET Nat
    OBVIOUS
  <2> QED
    BY <2>1, <2>2, Zenon
<1>4. x # 0 /\ x - 1 \in Nat /\ x - 1 < x
  OBVIOUS
<1>5. x - 1 \in S
  BY <1>2, <1>3, <1>4
<1>6. (x - 1) + 1 \in S
  BY <1>4, <1>5
<1> QED
  BY <1>3, <1>6

(* The functions up to each cell are those of a recursion, which exists.   *)
UpToStep(f, a, n) ==
  IF n <= 1 THEN <<>>
  ELSE IF a.cells[n] = Null THEN f[n - 1]
  ELSE Append(f[n - 1], a.cells[n])

IsUpTo(f, a, l) == f = [n \in 0..l |-> UpToStep(f, a, n)]

LEMMA UpToExists ==
  ASSUME NEW a, NEW l \in Nat
  PROVE  \E f : IsUpTo(f, a, l)
<1> DEFINE S == {k \in Nat : \E f : IsUpTo(f, a, k)}
<1>1. 0 \in S
  <2> DEFINE f == [n \in 0..0 |-> <<>>]
  <2>1. \A n \in 0..0 : UpToStep(f, a, n) = <<>>
    BY DEF UpToStep
  <2>2. IsUpTo(f, a, 0)
    BY <2>1 DEF IsUpTo
  <2> QED
    BY <2>2
<1>2. ASSUME NEW k \in Nat, k \in S
      PROVE  k + 1 \in S
  <2>1. PICK f : IsUpTo(f, a, k)
    BY <1>2
  <2> DEFINE g == [n \in 0..(k + 1) |-> IF n = k + 1 THEN UpToStep(f, a, n) ELSE f[n]]
  <2>2. \A n \in 0..k : f[n] = UpToStep(f, a, n)
    BY <2>1 DEF IsUpTo
  <2>3. \A n \in 0..(k + 1) : n > 1 => g[n - 1] = f[n - 1]
    OBVIOUS
  <2>4. \A n \in 0..(k + 1) : UpToStep(g, a, n) = UpToStep(f, a, n)
    BY <2>3 DEF UpToStep
  <2>5. \A n \in 0..(k + 1) : g[n] = UpToStep(g, a, n)
    <3> SUFFICES ASSUME NEW n \in 0..(k + 1)
                 PROVE  g[n] = UpToStep(g, a, n)
      OBVIOUS
    <3>1. n # k + 1 => n \in 0..k
      OBVIOUS
    <3>2. g[n] = UpToStep(f, a, n)
      BY <2>2, <3>1
    <3> QED
      BY <2>4, <3>2
  <2>6. g = [n \in 0..(k + 1) |-> g[n]]
    OBVIOUS
  <2>7. IsUpTo(g, a, k + 1)
    <3> HIDE DEF g
    <3> QED
      BY <2>5, <2>6 DEF IsUpTo
  <2> HIDE DEF g
  <2> QED
    BY <2>7
<1>3. Nat \subseteq S
  <2> HIDE DEF S
  <2> QED
    BY <1>1, <1>2, Induction
<1> QED
  BY <1>3

LEMMA UpToUnfolds ==
  ASSUME NEW a, ArrayOK(a)
  PROVE  /\ UpTo(a)[1] = <<>>
         /\ \A n \in 2..Len(a.cells) :
              UpTo(a)[n] = IF a.cells[n] = Null THEN UpTo(a)[n - 1]
                           ELSE Append(UpTo(a)[n - 1], a.cells[n])
<1>1. Len(a.cells) \in Nat /\ Len(a.cells) > 1
  BY LenProperties DEF ArrayOK
<1> DEFINE u == CHOOSE f : IsUpTo(f, a, Len(a.cells))
<1>2. UpTo(a) = u
  BY DEF UpTo, IsUpTo, UpToStep
<1>3. IsUpTo(u, a, Len(a.cells))
  BY <1>1, UpToExists
<1> HIDE DEF u
<1>4. \A n \in 0..Len(a.cells) : u[n] = UpToStep(u, a, n)
  BY <1>3 DEF IsUpTo
<1> QED
  BY <1>1, <1>2, <1>4 DEF UpToStep

LEMMA UpToTyped ==
  ASSUME NEW a, ArrayOK(a), NEW n \in 1..Len(a.cells)
  PROVE  UpTo(a)[n] \in Seq(Fn)
<1> DEFINE u == UpTo(a)
           S == {k \in Nat : k + 1 <= Len(a.cells) => u[k + 1] \in Seq(Fn)}
<1>1. Len(a.cells) \in Nat
  BY LenProperties DEF ArrayOK
<1>2. u[1] \in Seq(Fn)
  BY UpToUnfolds, EmptySeq
<1>3. ASSUME NEW k \in Nat, k \in S, (k + 1) + 1 <= Len(a.cells)
      PROVE  u[(k + 1) + 1] \in Seq(Fn)
  <2> DEFINE m == (k + 1) + 1
  <2>1. m \in 2..Len(a.cells) /\ m \in 1..Len(a.cells) /\ m - 1 = k + 1
    BY <1>1, <1>3
  <2>2. u[k + 1] \in Seq(Fn)
    BY <1>1, <1>3, <2>1
  <2>3. a.cells[m] \in Fn \cup {Null}
    BY <2>1, ElementOfSeq DEF ArrayOK
  <2>4. u[m] = IF a.cells[m] = Null THEN u[k + 1] ELSE Append(u[k + 1], a.cells[m])
    BY <2>1, UpToUnfolds
  <2>5. a.cells[m] # Null => Append(u[k + 1], a.cells[m]) \in Seq(Fn)
    BY <2>2, <2>3, Appended
  <2> QED
    BY <2>2, <2>4, <2>5
<1>4. Nat \subseteq S
  <2>1. 0 \in S
    BY <1>2
  <2>2. \A k \in Nat : k \in S => k + 1 \in S
    BY <1>3
  <2> HIDE DEF S
  <2> QED
    BY <2>1, <2>2, Induction
<1>5. n - 1 \in Nat /\ (n - 1) + 1 = n
  BY <1>1
<1>6. n - 1 \in S
  <2> HIDE DEF S
  <2> QED
    BY <1>4, <1>5
<1> QED
  BY <1>1, <1>5, <1>6

(* What lies up to a cell begins what lies up to a later one.              *)
IsPrefixOf(s, t) == Len(s) <= Len(t) /\ s = SubSeq(t, 1, Len(s))

LEMMA PrefixGrows ==
  ASSUME NEW S, NEW s \in Seq(S), NEW t \in Seq(S), NEW e \in S, IsPrefixOf(s, t)
  PROVE  IsPrefixOf(s, Append(t, e))
<1> DEFINE w == Append(t, e)
<1>1. /\ w \in Seq(S) /\ Len(w) = Len(t) + 1 /\ Len(t) \in Nat /\ Len(s) \in Nat
      /\ \A k \in 1..Len(t) : w[k] = t[k]
  BY Appended, LenProperties
<1> HIDE DEF w
<1>2. Len(s) <= Len(w)
  BY <1>1 DEF IsPrefixOf
<1>3. SubSeq(w, 1, Len(s)) = SubSeq(t, 1, Len(s))
  BY <1>1 DEF IsPrefixOf
<1> QED
  BY <1>2, <1>3 DEF IsPrefixOf, w

LEMMA PrefixSelf ==
  ASSUME NEW S, NEW s \in Seq(S)
  PROVE  IsPrefixOf(s, s)
BY LenProperties DEF IsPrefixOf

LEMMA UpToGrows ==
  ASSUME NEW a, ArrayOK(a), NEW m \in 1..Len(a.cells), NEW n \in m..Len(a.cells)
  PROVE  IsPrefixOf(UpTo(a)[m], UpTo(a)[n])
<1> DEFINE u == UpTo(a)
           S == {k \in Nat : m + k <= Len(a.cells) => IsPrefixOf(u[m], u[m + k])}
<1>1. Len(a.cells) \in Nat /\ m \in Nat
  BY LenProperties DEF ArrayOK
<1>2. \A k \in 1..Len(a.cells) : u[k] \in Seq(Fn)
  BY UpToTyped
<1>3. IsPrefixOf(u[m], u[m + 0])
  BY <1>1, <1>2, PrefixSelf
<1>4. ASSUME NEW k \in Nat, k \in S, m + (k + 1) <= Len(a.cells)
      PROVE  IsPrefixOf(u[m], u[m + (k + 1)])
  <2> DEFINE j == m + (k + 1)
  <2>1. j \in 2..Len(a.cells) /\ j - 1 = m + k /\ m + k \in 1..Len(a.cells)
    BY <1>1, <1>4
  <2>2. IsPrefixOf(u[m], u[m + k])
    BY <1>1, <1>4, <2>1
  <2>3. a.cells[j] \in Fn \cup {Null}
    BY <2>1, ElementOfSeq DEF ArrayOK
  <2>4. u[j] = IF a.cells[j] = Null THEN u[m + k] ELSE Append(u[m + k], a.cells[j])
    BY <2>1, UpToUnfolds
  <2>5. a.cells[j] # Null => IsPrefixOf(u[m], Append(u[m + k], a.cells[j]))
    BY <1>2, <2>1, <2>2, <2>3, PrefixGrows
  <2> QED
    BY <2>2, <2>4, <2>5
<1>5. Nat \subseteq S
  <2>1. 0 \in S
    BY <1>3
  <2>2. \A k \in Nat : k \in S => k + 1 \in S
    BY <1>4
  <2> HIDE DEF S
  <2> QED
    BY <2>1, <2>2, Induction
<1>6. n - m \in Nat /\ m + (n - m) = n
  BY <1>1
<1>7. n - m \in S
  <2> HIDE DEF S
  <2> QED
    BY <1>5, <1>6
<1> QED
  BY <1>1, <1>6, <1>7
-----------------------------------------------------------------------------
LEMMA InitInitially == Init => InitInv
BY DEF Init, InitInv

LEMMA ArraysOK ==
  ASSUME NEW a \in Arrays
  PROVE  /\ ArrayOK(a)
         /\ a.end \in Nat /\ Len(a.cells) \in Nat
         /\ a.end >= 1 /\ a.end < Len(a.cells)
<1>1. ArrayOK(a)
  BY MsvcrtAssumption
<1>2. Len(a.cells) \in Nat
  BY <1>1, LenProperties DEF ArrayOK
<1> QED
  BY <1>1, <1>2 DEF ArrayOK

LEMMA InitStartKeeps ==
  ASSUME InitStart
  PROVE  InitInv'
<1>1. array' \in Arrays /\ at' = 1 /\ begun' = <<>> /\ pc' = "init"
  BY DEF InitStart
<1>2. UpTo(array')[1] = <<>> /\ array'.end \in Nat
  BY <1>1, ArraysOK, UpToUnfolds
<1>3. array' # <<>>
  BY <1>1, MsvcrtAssumption
<1> QED
  BY <1>1, <1>2, <1>3 DEF InitInv

(* A turn takes the next cell to what has been called.                     *)
LEMMA InitTurnKeeps ==
  ASSUME InitInv, NEW fails \in BOOLEAN, InitTurn(fails)
  PROVE  InitInv'
<1>1. pc = "init" /\ at' = at + 1 /\ array' = array
  BY DEF InitTurn
<1>2. CASE array.end > 1
  <2>1. /\ array # <<>> /\ array \in Arrays /\ at \in 1..array.end /\ at < array.end
        /\ begun = UpTo(array)[at]
    BY <1>1, <1>2 DEF InitInv
  <2>2. /\ ArrayOK(array) /\ array.end \in Nat /\ Len(array.cells) \in Nat
        /\ at + 1 \in 2..Len(array.cells) /\ at + 1 \in 1..array.end /\ (at + 1) - 1 = at
    BY <2>1, ArraysOK
  <2>3. begun' = UpTo(array)[at + 1]
    BY <2>1, <2>2, UpToUnfolds DEF InitTurn
  <2>4. /\ pc' = "init" => at + 1 < array.end
        /\ pc' = "run" /\ ~ array.checks => at + 1 = array.end
    BY <2>1, <2>2 DEF InitTurn
  <2> QED
    BY <1>1, <2>1, <2>2, <2>3, <2>4 DEF InitInv
<1>3. CASE ~ array.end > 1
  BY <1>1, <1>3 DEF InitInv
<1> QED
  BY <1>2, <1>3

LEMMA InitRestKeeps ==
  ASSUME InitInv,
         \/ SetArgs \/ (\E f \in Fn : OnExit(f))
         \/ Exit \/ HandlerTurn \/ HandlerDone \/ UNCHANGED vars
  PROVE  InitInv'
<1>1. array' = array /\ at' = at /\ begun' = begun /\ (pc' = pc \/ pc' \in {"exit", "ended"})
  BY DEF SetArgs, OnExit, Exit, HandlerTurn, HandlerDone, NextHandler, vars, initterm
<1> QED
  BY <1>1 DEF InitInv

LEMMA InitExact ==
  ASSUME InitInv
  PROVE  InittermExact
<1> SUFFICES ASSUME array # <<>>, LaidOut(array)
             PROVE  /\ Len(begun) <= Len(Between(array))
                    /\ begun = SubSeq(Between(array), 1, Len(begun))
                    /\ pc = "run" /\ ~ array.checks => begun = Between(array)
  BY DEF InittermExact
<1> DEFINE u == UpTo(array)
           last == array.end - 1
<1>1. /\ array \in Arrays /\ at \in 1..array.end /\ begun = u[at]
      /\ pc = "run" /\ ~ array.checks => at = array.end
  BY DEF InitInv, LaidOut
<1>2. /\ ArrayOK(array) /\ last \in 1..Len(array.cells)
      /\ array.end \in 2..Len(array.cells) /\ last \in Nat
  BY <1>1, ArraysOK DEF LaidOut
<1>3. u[array.end] = u[last]
  BY <1>2, UpToUnfolds DEF LaidOut
<1>4. PICK m \in 1..last : u[at] = u[m]
  <2>1. CASE at = array.end
    <3>1. last \in 1..last
      BY <1>2
    <3> QED
      BY <1>3, <2>1, <3>1
  <2>2. CASE at # array.end
    <3>1. at \in 1..last
      BY <1>1, <1>2, <2>2
    <3> QED
      BY <3>1
  <2> QED
    BY <2>1, <2>2
<1>5. m \in 1..Len(array.cells) /\ last \in m..Len(array.cells)
  BY <1>2
<1>6. IsPrefixOf(u[m], u[last])
  BY <1>2, <1>5, UpToGrows
<1> QED
  BY <1>1, <1>3, <1>4, <1>6 DEF IsPrefixOf, Between

(* An array laid out as by a linker has just what lies between its NULLs   *)
(* called, in order and each once, and nothing beyond it, whatever its     *)
(* size.                                                                   *)
THEOREM MsvcrtInittermExact == Spec => []InittermExact
<1>1. Init => InitInv
  BY InitInitially
<1>2. InitInv /\ [Next]_vars => InitInv'
  BY InitStartKeeps, InitTurnKeeps, InitRestKeeps DEF Next
<1>3. InitInv => InittermExact
  BY InitExact
<1> QED
  BY <1>1, <1>2, <1>3, PTL DEF Spec
-----------------------------------------------------------------------------
(* A set of numbers that has some has a least.                             *)
LEMMA LeastIs ==
  ASSUME NEW T \in SUBSET Nat, T # {}
  PROVE  \E x \in T : \A y \in T : x <= y
<1> SUFFICES ASSUME \A x \in T : \E y \in T : y < x PROVE FALSE
  OBVIOUS
<1> DEFINE S == {n \in Nat : \A y \in T : n <= y}
<1>1. 0 \in S
  OBVIOUS
<1>2. ASSUME NEW n \in Nat, n \in S PROVE n + 1 \in S
  BY <1>2
<1>3. Nat \subseteq S
  <2> HIDE DEF S
  <2> QED
    BY <1>1, <1>2, Induction
<1>4. PICK x \in T : TRUE
  OBVIOUS
<1>5. x + 1 \in S
  BY <1>3
<1> QED
  BY <1>5

LEMMA FirstIs ==
  ASSUME NEW from, NEW places \in SUBSET Nat, NEW k \in places, k >= from
  PROVE  /\ First(from, places) \in places /\ First(from, places) >= from
         /\ First(from, places) <= k
         /\ \A j \in places : j >= from => First(from, places) <= j
<1> DEFINE T == {j \in places : j >= from}
<1>1. PICK x \in T : \A y \in T : x <= y
  <2>1. T \in SUBSET Nat /\ T # {}
    OBVIOUS
  <2> HIDE DEF T
  <2> QED
    BY <2>1, LeastIs
<1>2. x \in places /\ x >= from /\ \A j \in places : j >= from => x <= j
  BY <1>1
<1>3. /\ First(from, places) \in places /\ First(from, places) >= from
      /\ \A j \in places : j >= from => First(from, places) <= j
  BY <1>2, Zenon DEF First
<1> QED
  BY <1>3

(* Formats end, once, with 0.                                              *)
End == Len(fmt)

LEMMA FormatFacts ==
  ASSUME fmt \in Formats
  PROVE  /\ End \in Nat \ {0} /\ DOMAIN fmt = 1..End /\ fmt[End] = 0
         /\ \A k \in 1..End : fmt[k] \in Nat /\ (fmt[k] = 0 => k = End)
         /\ fmt \in Seq(Int)
<1> DEFINE A == 0..(2^16 - 1)
<1>1. fmt \in Seq(A) /\ fmt # <<>> /\ \A k \in DOMAIN fmt : fmt[k] = 0 <=> k = End
  BY WsprintfAssumption, Zenon DEF End
<1>2. A \subseteq Nat /\ A \subseteq Int
  OBVIOUS
<1> HIDE DEF A
<1>3. End \in Nat /\ DOMAIN fmt = 1..End /\ \A k \in 1..End : fmt[k] \in A
  BY <1>1, ElementOfSeq, LenProperties DEF End
<1>4. End # 0
  BY <1>1, EmptySeq DEF End
<1>5. End \in 1..End
  BY <1>3, <1>4
<1>6. fmt \in Seq(Int)
  BY <1>1, <1>2, SeqMonotonic
<1> QED
  BY <1>1, <1>2, <1>3, <1>4, <1>5, <1>6

(* The flags behind a sign, and the specifier after them.                  *)
LEMMA SpecFacts ==
  ASSUME fmt \in Formats, NEW k \in 1..End, k # End
  PROVE  /\ SpecAt(k) \in (k + 1)..End
         /\ \A j \in (k + 1)..(SpecAt(k) - 1) : fmt[j] \in FlagChars
<1> DEFINE places == Elsewhere(FlagChars)
<1>1. /\ End \in Nat \ {0} /\ DOMAIN fmt = 1..End /\ fmt[End] = 0
  BY FormatFacts
<1>2. \A j \in 1..End : j \notin places => fmt[j] \in FlagChars
  BY <1>1 DEF Elsewhere, Places
<1>3. places \in SUBSET Nat /\ End \in places
  BY <1>1 DEF Elsewhere, Places, FlagChars
<1> HIDE DEF places
<1>4. End >= k + 1
  BY <1>1
<1> DEFINE s == First(k + 1, places)
<1>5. s \in places /\ s >= k + 1 /\ s <= End /\ \A j \in places : j >= k + 1 => s <= j
  BY <1>3, <1>4, FirstIs
<1>6. SpecAt(k) = s
  BY DEF SpecAt, places
<1> HIDE DEF s
<1>7. s \in (k + 1)..End
  BY <1>1, <1>3, <1>5
<1>8. ASSUME NEW j \in (k + 1)..(s - 1) PROVE fmt[j] \in FlagChars
  <2>1. j \in 1..End /\ ~ s <= j
    BY <1>1, <1>7
  <2> QED
    BY <1>2, <1>5, <2>1
<1> QED
  BY <1>6, <1>7, <1>8
-----------------------------------------------------------------------------
(* The text wanted from each place of the format on.                       *)
Ahead(f, k) ==
  IF k > End \/ fmt[k] = 0 THEN <<>>
  ELSE IF fmt[k] # Percent THEN <<fmt[k]>> \o f[k + 1]
  ELSE IF fmt[k + 1] = Percent THEN <<Percent>> \o f[k + 2]
  ELSE Shown(args[Nth(k)]) \o f[SpecAt(k) + 1]

IsRest(f) == f = [k \in 1..(End + 1) |-> Ahead(f, k)]
Rest == CHOOSE f : IsRest(f)

(* What is wanted at a place depends on places after it.                   *)
LEMMA AheadDepends ==
  ASSUME fmt \in Formats, NEW k \in 1..(End + 1), NEW f, NEW g,
         \A j \in 1..(End + 1) : j > k => f[j] = g[j]
  PROVE  Ahead(f, k) = Ahead(g, k)
<1>1. End \in Nat \ {0} /\ \A j \in 1..End : fmt[j] \in Nat /\ (fmt[j] = 0 => j = End)
  BY FormatFacts
<1>2. CASE k > End \/ fmt[k] = 0
  BY <1>2 DEF Ahead
<1>3. CASE ~ (k > End) /\ fmt[k] # 0
  <2>1. k \in 1..End /\ k + 1 \in 1..(End + 1) /\ k + 1 > k
    BY <1>1, <1>3
  <2>2. CASE fmt[k] # Percent
    BY <1>3, <2>1, <2>2 DEF Ahead
  <2>3. CASE fmt[k] = Percent
    <3>1. k # End
      BY <2>3, FormatFacts DEF Percent
    <3>2. SpecAt(k) \in (k + 1)..End
      BY <2>1, <3>1, SpecFacts
    <3>3. SpecAt(k) + 1 \in 1..(End + 1) /\ SpecAt(k) + 1 > k
      BY <1>1, <3>2
    <3>4. k + 2 \in 1..(End + 1) /\ k + 2 > k
      BY <1>1, <2>1, <3>1
    <3>5. f[SpecAt(k) + 1] = g[SpecAt(k) + 1] /\ f[k + 2] = g[k + 2]
      BY <3>3, <3>4
    <3> QED
      BY <1>3, <2>3, <3>5 DEF Ahead
  <2> QED
    BY <2>2, <2>3
<1> QED
  BY <1>2, <1>3

(* There is such a text: it is found from the end of the format back.      *)
LEMMA RestExists ==
  ASSUME fmt \in Formats
  PROVE  \E f : IsRest(f)
<1> DEFINE L == End + 1
           D == 1..L
           S == {n \in Nat : n <= L => \E f : DOMAIN f = D /\ f = [k \in D |-> f[k]] /\ \A k \in D : k > L - n => f[k] = Ahead(f, k)}
<1>1. L \in Nat
  BY FormatFacts
<1>2. 0 \in S
  <2> DEFINE f == [k \in D |-> <<>>]
  <2>1. DOMAIN f = D /\ f = [k \in D |-> f[k]] /\ \A k \in D : k > L - 0 => f[k] = Ahead(f, k)
    BY <1>1
  <2> QED
    BY <2>1
<1>3. ASSUME NEW n \in Nat, n \in S PROVE n + 1 \in S
  <2> SUFFICES ASSUME n + 1 <= L
               PROVE  \E f : DOMAIN f = D /\ f = [k \in D |-> f[k]] /\ \A k \in D : k > L - (n + 1) => f[k] = Ahead(f, k)
    OBVIOUS
  <2>1. PICK f : \A k \in D : k > L - n => f[k] = Ahead(f, k)
    BY <1>1, <1>3
  <2> DEFINE g == [k \in D |-> IF k = L - n THEN Ahead(f, k) ELSE f[k]]
  <2>2. DOMAIN g = D /\ g = [k \in D |-> g[k]]
    OBVIOUS
  <2>3. ASSUME NEW k \in D, k > L - (n + 1) PROVE g[k] = Ahead(g, k)
    <3>1. k >= L - n
      BY <1>1, <2>3
    <3>2. \A j \in D : j > k => g[j] = f[j]
      BY <1>1, <3>1
    <3>3. Ahead(g, k) = Ahead(f, k)
      <4> HIDE DEF g
      <4> QED
        BY <3>2, AheadDepends
    <3>4. k # L - n => k > L - n
      BY <1>1, <3>1
    <3> QED
      BY <2>1, <3>3, <3>4
  <2> HIDE DEF g
  <2> QED
    BY <2>2, <2>3
<1>4. Nat \subseteq S
  <2> HIDE DEF S
  <2> QED
    BY <1>2, <1>3, Induction
<1>5. L \in S
  <2> HIDE DEF S
  <2> QED
    BY <1>1, <1>4
<1>6. PICK f : DOMAIN f = D /\ f = [k \in D |-> f[k]] /\ \A k \in D : k > L - L => f[k] = Ahead(f, k)
  BY <1>1, <1>5
<1>7. \A k \in D : f[k] = Ahead(f, k)
  <2>1. \A k \in D : k > L - L
    BY <1>1
  <2> QED
    BY <1>6, <2>1
<1>8. f = [k \in D |-> Ahead(f, k)]
  BY <1>6, <1>7
<1> QED
  BY <1>8 DEF IsRest

LEMMA RestUnfolds ==
  ASSUME fmt \in Formats
  PROVE  /\ Wanted = Rest[1]
         /\ \A k \in 1..(End + 1) : Rest[k] = Ahead(Rest, k)
<1>1. IsRest(Rest)
  BY RestExists DEF Rest
<1>2. Wanted = Rest[1]
  BY DEF Wanted, Rest, IsRest, Ahead, End
<1> QED
  BY <1>1, <1>2 DEF IsRest
-----------------------------------------------------------------------------
(* The digits of a number are characters.                                  *)
DecimalDigit(n, m) == IF n < 0 THEN 48 - (m % 10) ELSE 48 + (m % 10)
DecimalAt(f, n, m) == (IF m < 10 THEN <<>> ELSE f[m \div 10]) \o <<DecimalDigit(n, m)>>
IsDecimal(f, n) == f = [m \in 0..Abs(n) |-> DecimalAt(f, n, m)]

LEMMA Tenth ==
  ASSUME NEW m \in Nat, ~ m < 10
  PROVE  m \div 10 \in Nat /\ m \div 10 < m
OBVIOUS

LEMMA DecimalExists ==
  ASSUME NEW n \in Int
  PROVE  \E f : IsDecimal(f, n)
<1> DEFINE S == {k \in Nat : \E f : DOMAIN f = 0..k /\ f = [m \in 0..k |-> f[m]] /\ \A m \in 0..k : f[m] = DecimalAt(f, n, m)}
<1>1. 0 \in S
  <2> DEFINE f == [m \in 0..0 |-> DecimalAt(<<>>, n, 0)]
  <2>1. DOMAIN f = 0..0 /\ f = [m \in 0..0 |-> f[m]]
    OBVIOUS
  <2>2. f[0] = DecimalAt(f, n, 0)
    <3>1. f[0] = DecimalAt(<<>>, n, 0)
      OBVIOUS
    <3> HIDE DEF f
    <3> QED
      BY <3>1 DEF DecimalAt
  <2> HIDE DEF f
  <2>3. \A m \in 0..0 : f[m] = DecimalAt(f, n, m)
    BY <2>2
  <2> QED
    BY <2>1, <2>3
<1>2. ASSUME NEW k \in Nat, k \in S PROVE k + 1 \in S
  <2>1. PICK f : \A m \in 0..k : f[m] = DecimalAt(f, n, m)
    BY <1>2
  <2> DEFINE g == [m \in 0..(k + 1) |-> IF m = k + 1 THEN DecimalAt(f, n, m) ELSE f[m]]
  <2>2. DOMAIN g = 0..(k + 1) /\ g = [m \in 0..(k + 1) |-> g[m]]
    OBVIOUS
  <2>3. \A m \in 0..k : g[m] = f[m]
    OBVIOUS
  <2>4. ASSUME NEW m \in 0..(k + 1) PROVE g[m] = DecimalAt(g, n, m)
    <3>1. DecimalAt(g, n, m) = DecimalAt(f, n, m)
      <4> HIDE DEF g
      <4>1. ~ m < 10 => m \div 10 \in 0..k
        BY Tenth
      <4> QED
        BY <2>3, <4>1 DEF DecimalAt
    <3>2. m # k + 1 => m \in 0..k
      OBVIOUS
    <3> QED
      BY <2>1, <3>1, <3>2
  <2> HIDE DEF g
  <2> QED
    BY <2>2, <2>4
<1>3. Nat \subseteq S
  <2> HIDE DEF S
  <2> QED
    BY <1>1, <1>2, Induction
<1>4. Abs(n) \in Nat
  BY DEF Abs
<1>5. PICK f : DOMAIN f = 0..Abs(n) /\ f = [m \in 0..Abs(n) |-> f[m]] /\ \A m \in 0..Abs(n) : f[m] = DecimalAt(f, n, m)
  BY <1>3, <1>4
<1>6. f = [m \in 0..Abs(n) |-> DecimalAt(f, n, m)]
  BY <1>5
<1> QED
  BY <1>6 DEF IsDecimal

LEMMA DecimalTyped ==
  ASSUME NEW n \in Int
  PROVE  Decimal(n) \in Seq(Int)
<1> DEFINE f == CHOOSE g : IsDecimal(g, n)
<1>1. IsDecimal(f, n)
  BY DecimalExists, Zenon
<1>2. Decimal(n) = f[Abs(n)]
  BY DEF Decimal, IsDecimal, DecimalAt, DecimalDigit
<1> HIDE DEF f
<1>3. Abs(n) \in Nat
  BY DEF Abs
<1>4. PICK a \in Nat : a = Abs(n)
  BY <1>3
<1>5. \A m \in 0..a : f[m] = DecimalAt(f, n, m)
  BY <1>1, <1>4 DEF IsDecimal
<1> DEFINE S == {k \in Nat : \A m \in 0..k : m <= a => f[m] \in Seq(Int)}
<1>6. ASSUME NEW m \in 0..a, \A j \in 0..(m - 1) : f[j] \in Seq(Int) PROVE f[m] \in Seq(Int)
  <2>1. DecimalDigit(n, m) \in Int
    BY DEF DecimalDigit
  <2>2. CASE m < 10
    <3>1. f[m] = <<>> \o <<DecimalDigit(n, m)>>
      BY <1>5, <2>2 DEF DecimalAt
    <3> QED
      BY <2>1, <3>1
  <2>3. CASE ~ m < 10
    <3>1. m \div 10 \in 0..(m - 1)
      BY <2>3, Tenth
    <3>2. f[m] = f[m \div 10] \o <<DecimalDigit(n, m)>> /\ f[m \div 10] \in Seq(Int)
      BY <1>5, <1>6, <2>3, <3>1 DEF DecimalAt
    <3> QED
      BY <2>1, <3>2
  <2> QED
    BY <2>2, <2>3
<1>7. 0 \in S
  <2>1. f[0] \in Seq(Int)
    BY <1>6
  <2> QED
    BY <2>1
<1>8. ASSUME NEW k \in Nat, k \in S PROVE k + 1 \in S
  <2>1. ASSUME k + 1 <= a PROVE f[k + 1] \in Seq(Int)
    <3>1. \A j \in 0..((k + 1) - 1) : f[j] \in Seq(Int)
      BY <1>8, <2>1
    <3> QED
      BY <1>6, <2>1, <3>1
  <2> QED
    BY <1>8, <2>1
<1>9. Nat \subseteq S
  <2> HIDE DEF S
  <2> QED
    BY <1>7, <1>8, Induction
<1> QED
  BY <1>2, <1>4, <1>9

(* What is passed.                                                         *)
Called == Fits /\ PairsStand /\ PlainArgs
Known == {115, 83} \cup IntSpec

LEMMA ArgIs ==
  ASSUME args \in ArgLists
  PROVE  /\ DOMAIN args = 1..Len(args)
         /\ \A n \in DOMAIN args :
              \/ args[n].kind = "int" /\ args[n].int \in Int
              \/ args[n].kind \in {"wide", "narrow"} /\ args[n].text \in Seq(1..(2^16 - 1))
<1>1. args \in Seq(Argument)
  BY WsprintfAssumption
<1>2. \A a \in Argument :
        \/ a.kind = "int" /\ a.int \in Int
        \/ a.kind \in {"wide", "narrow"} /\ a.text \in Seq(1..(2^16 - 1))
  BY DEF Argument
<1>3. DOMAIN args = 1..Len(args) /\ \A n \in 1..Len(args) : args[n] \in Argument
  BY <1>1, LenProperties, ElementOfSeq
<1> QED
  BY <1>2, <1>3, Zenon

LEMMA ArgFacts ==
  ASSUME args \in ArgLists, NEW n \in DOMAIN args
  PROVE  /\ args[n].kind \in {"int", "wide", "narrow"}
         /\ Shown(args[n]) \in Seq(Int)
<1>1. CASE args[n].kind = "int" /\ args[n].int \in Int
  <2>1. Sign(args[n].int) \in Seq(Int)
    BY DEF Sign
  <2>2. Decimal(Abs(args[n].int)) \in Seq(Int)
    BY <1>1, DecimalTyped DEF Abs
  <2> QED
    BY <1>1, <2>1, <2>2 DEF Shown
<1>2. CASE args[n].kind \in {"wide", "narrow"} /\ args[n].text \in Seq(1..(2^16 - 1))
  <2>1. 1..(2^16 - 1) \subseteq Int
    OBVIOUS
  <2>2. args[n].text \in Seq(Int)
    BY <1>2, <2>1, SeqMonotonic
  <2>3. args[n].kind # "int"
    BY <1>2
  <2> QED
    BY <1>2, <2>2, <2>3 DEF Shown
<1> QED
  BY <1>1, <1>2, ArgIs

LEMMA PlainConverts ==
  ASSUME args \in ArgLists, PlainArgs, NEW n \in DOMAIN args, NEW spec, Kind(spec) = args[n].kind
  PROVE  Converted(spec, args[n]) = Shown(args[n]) /\ spec \in Known
<1>1. args[n].kind \in {"int", "wide", "narrow"}
  BY ArgFacts
<1>2. CASE spec = 115
  BY <1>2 DEF Kind, IntSpec, Converted, Shown, Known
<1>3. CASE spec = 83
  <2>1. args[n].kind = "narrow" /\ args[n].kind # "int" /\ Shown(args[n]) = args[n].text
    BY <1>3 DEF Kind, IntSpec, Shown
  <2>2. args[n].text \in Seq(1..(2^16 - 1))
    BY <2>1, ArgIs
  <2>3. \A k \in DOMAIN args[n].text : args[n].text[k] < 128
    BY <2>1 DEF PlainArgs
  <2>4. PICK t : t = args[n].text
    OBVIOUS
  <2>5. Widened(t) = t
    <3>1. t = [k \in DOMAIN t |-> t[k]]
      <4>1. t \in Seq(1..(2^16 - 1))
        BY <2>2, <2>4
      <4>2. PICK D : t \in [D -> 1..(2^16 - 1)]
        BY <4>1, LenProperties, Zenon
      <4> HIDE <4>1
      <4> QED
        BY <4>2
    <3>2. \A k \in DOMAIN t : t[k] < 128
      BY <2>3, <2>4
    <3> QED
      BY <3>1, <3>2 DEF Widened
  <2> QED
    BY <1>3, <2>1, <2>4, <2>5 DEF Converted, Known, IntSpec
<1>4. CASE spec \notin {115, 83}
  <2>1. spec \in IntSpec /\ args[n].kind = "int"
    BY <1>1, <1>4 DEF Kind
  <2>2. args[n].int \in Int /\ args[n].int >= 0
    BY <2>1, ArgIs DEF PlainArgs
  <2>3. PICK v \in Nat : v = args[n].int
    BY <2>2
  <2>4. Sign(v) = <<>> /\ Abs(v) = v /\ Decimal(v) \in Seq(Int)
    BY DecimalTyped DEF Sign, Abs
  <2>5. Shown(args[n]) = Decimal(v)
    <3>1. Shown(args[n]) = <<>> \o Decimal(v)
      BY <2>1, <2>3, <2>4 DEF Shown
    <3> QED
      BY <2>4, <3>1
  <2>6. Converted(spec, args[n]) = Decimal(v)
    BY <1>4, <2>1, <2>3 DEF Converted
  <2> QED
    BY <2>1, <2>5, <2>6 DEF Known
<1> QED
  BY <1>2, <1>3, <1>4
-----------------------------------------------------------------------------
(* Specifiers, in a call the function is made for.                         *)
AfterPairs(k) ==
  \E j \in 1..k :
    /\ (k - j) % 2 = 0
    /\ j > 1 => fmt[j - 1] # Percent
    /\ \A n \in j..(k - 1) : fmt[n] = Percent

LEMMA SignsFinite ==
  ASSUME fmt \in Formats
  PROVE  /\ Signs \subseteq 1..End /\ IsFiniteSet(Signs) /\ Cardinality(Signs) \in Nat
         /\ \A T \in SUBSET Signs : IsFiniteSet(T) /\ Cardinality(T) \in Nat /\ Cardinality(T) <= Cardinality(Signs)
<1>1. Signs \subseteq 1..End
  BY FormatFacts DEF Signs
<1>2. IsFiniteSet(1..End)
  BY FormatFacts, FS_Interval
<1> QED
  BY <1>1, <1>2, FS_Subset, FS_CardinalityType

LEMMA SignTakes ==
  ASSUME fmt \in Formats, args \in ArgLists, Called, NEW k \in Signs
  PROVE  /\ k \in 1..(End - 1) /\ Nth(k) \in DOMAIN args /\ Nth(k) \in 1..Cardinality(Signs)
         /\ Kind(fmt[SpecAt(k)]) = args[Nth(k)].kind
         /\ fmt[SpecAt(k)] \in Known
         /\ Shown(args[Nth(k)]) \in Seq(Int)
         /\ Converted(fmt[SpecAt(k)], args[Nth(k)]) = Shown(args[Nth(k)])
<1>1. k \in 1..(End - 1)
  <2>1. k \in 1..End /\ fmt[k] = Percent
    BY SignsFinite DEF Signs
  <2> QED
    BY <2>1, FormatFacts DEF Percent
<1>2. Nth(k) \in 1..Cardinality(Signs)
  <2> DEFINE T == {j \in Signs : j <= k}
  <2>1. T \in SUBSET Signs /\ k \in T
    BY SignsFinite, <1>1
  <2>2. Nth(k) = Cardinality(T)
    BY DEF Nth
  <2> HIDE DEF T
  <2>3. IsFiniteSet(T) /\ Cardinality(T) \in Nat /\ Cardinality(T) <= Cardinality(Signs) /\ Cardinality(Signs) \in Nat
    BY <2>1, SignsFinite
  <2>4. Cardinality(T) # 0
    BY <2>1, <2>3, FS_EmptySet
  <2> QED
    BY <2>2, <2>3, <2>4
<1>3. Kind(fmt[SpecAt(k)]) = args[Nth(k)].kind /\ Cardinality(Signs) = Len(args)
  BY DEF Called, Fits
<1>4. DOMAIN args = 1..Len(args)
  BY ArgIs
<1>5. Nth(k) \in DOMAIN args
  BY <1>2, <1>3, <1>4
<1> QED
  BY <1>1, <1>2, <1>3, <1>5, ArgFacts, PlainConverts DEF Called

LEMMA SignBehind ==
  ASSUME fmt \in Formats, NEW k \in 1..End, AfterPairs(k), fmt[k] = Percent, fmt[k + 1] # Percent
  PROVE  k \in Signs
<1>1. PICK j \in 1..k : /\ (k - j) % 2 = 0 /\ (j > 1 => fmt[j - 1] # Percent)
                        /\ \A n \in j..(k - 1) : fmt[n] = Percent
  BY DEF AfterPairs
<1>2. \A n \in j..k : fmt[n] = Percent
  <2>1. \A n \in j..k : n \in j..(k - 1) \/ n = k
    BY FormatFacts
  <2> QED
    BY <1>1, <2>1
<1> QED
  BY <1>1, <1>2, FormatFacts DEF Signs

(* Where an item of the format ends, the next one can start.               *)
LEMMA NextAfter ==
  ASSUME fmt \in Formats, NEW k \in 1..End
  PROVE  /\ fmt[k] # Percent => AfterPairs(k + 1)
         /\ AfterPairs(k) /\ fmt[k] = Percent /\ fmt[k + 1] = Percent => AfterPairs(k + 2)
<1>0. End \in Nat
  BY FormatFacts
<1>1. ASSUME fmt[k] # Percent PROVE AfterPairs(k + 1)
  <2>1. k + 1 \in 1..(k + 1) /\ ((k + 1) - (k + 1)) % 2 = 0 /\ (k + 1) - 1 = k
    BY <1>0
  <2>2. \A n \in (k + 1)..((k + 1) - 1) : fmt[n] = Percent
    BY <1>0
  <2> QED
    BY <1>1, <2>1, <2>2 DEF AfterPairs
<1>2. ASSUME AfterPairs(k), fmt[k] = Percent, fmt[k + 1] = Percent PROVE AfterPairs(k + 2)
  <2>1. PICK j \in 1..k : /\ (k - j) % 2 = 0 /\ (j > 1 => fmt[j - 1] # Percent)
                          /\ \A n \in j..(k - 1) : fmt[n] = Percent
    BY <1>2 DEF AfterPairs
  <2>2. j \in 1..(k + 2) /\ ((k + 2) - j) % 2 = 0
    BY <1>0, <2>1
  <2>3. ASSUME NEW n \in j..((k + 2) - 1) PROVE fmt[n] = Percent
    <3>1. n \in j..(k - 1) \/ n = k \/ n = k + 1
      BY <1>0
    <3> QED
      BY <1>2, <2>1, <3>1
  <2> QED
    BY <2>1, <2>2, <2>3 DEF AfterPairs
<1> QED
  BY <1>1, <1>2

(* What an item adds to the text, and where the next one is.               *)
LEMMA TextItem ==
  ASSUME fmt \in Formats, NEW k \in 1..End, fmt[k] # 0, fmt[k] # Percent
  PROVE  k + 1 \in 1..End /\ Rest[k] = <<fmt[k]>> \o Rest[k + 1] /\ AfterPairs(k + 1)
<1>1. End \in Nat \ {0} /\ fmt[End] = 0 /\ k \in 1..(End + 1) /\ ~ k > End
  BY FormatFacts
<1>2. Rest[k] = Ahead(Rest, k)
  BY <1>1, RestUnfolds
<1>3. Rest[k] = <<fmt[k]>> \o Rest[k + 1]
  BY <1>1, <1>2, Zenon DEF Ahead
<1>4. k + 1 \in 1..End
  BY <1>1
<1> QED
  BY <1>3, <1>4, NextAfter

LEMMA PairItem ==
  ASSUME fmt \in Formats, NEW k \in 1..End, AfterPairs(k), fmt[k] = Percent, fmt[k + 1] = Percent
  PROVE  k + 2 \in 1..End /\ Rest[k] = <<Percent>> \o Rest[k + 2] /\ AfterPairs(k + 2)
<1>1. End \in Nat \ {0} /\ fmt[End] = 0 /\ k \in 1..(End + 1) /\ ~ k > End
  BY FormatFacts
<1>2. Rest[k] = Ahead(Rest, k)
  BY <1>1, RestUnfolds
<1>3. fmt[k] # 0
  BY DEF Percent
<1>4. Rest[k] = <<Percent>> \o Rest[k + 2]
  BY <1>1, <1>2, <1>3, Zenon DEF Ahead
<1>5. k # End /\ k + 1 # End
  BY <1>1 DEF Percent
<1>6. k + 2 \in 1..End
  BY <1>1, <1>5
<1> QED
  BY <1>4, <1>6, NextAfter

LEMMA SignItem ==
  ASSUME fmt \in Formats, args \in ArgLists, Called, NEW k \in 1..End, AfterPairs(k),
         fmt[k] = Percent, fmt[k + 1] # Percent
  PROVE  /\ k \in Signs /\ Rest[k] = Shown(args[Nth(k)]) \o Rest[SpecAt(k) + 1]
         /\ SpecAt(k) \in (k + 1)..(End - 1) /\ fmt[SpecAt(k)] # Percent
         /\ SpecAt(k) + 1 \in 1..End /\ AfterPairs(SpecAt(k) + 1)
<1>1. End \in Nat \ {0} /\ fmt[End] = 0 /\ k \in 1..(End + 1) /\ ~ k > End
  BY FormatFacts
<1>2. Rest[k] = Ahead(Rest, k)
  BY <1>1, RestUnfolds
<1>3. fmt[k] # 0
  BY DEF Percent
<1>4. Rest[k] = Shown(args[Nth(k)]) \o Rest[SpecAt(k) + 1]
  BY <1>1, <1>2, <1>3, Zenon DEF Ahead
<1>5. k \in Signs
  BY SignBehind
<1>6. fmt[SpecAt(k)] \in Known
  BY <1>5, SignTakes
<1>7. fmt[SpecAt(k)] # Percent /\ fmt[SpecAt(k)] # 0
  BY <1>6 DEF Known, IntSpec, Percent
<1>8. SpecAt(k) \in (k + 1)..(End - 1) /\ SpecAt(k) \in 1..End /\ SpecAt(k) + 1 \in 1..End
  <2>1. k # End
    BY <1>1, <1>3
  <2>2. SpecAt(k) \in (k + 1)..End
    BY <2>1, SpecFacts
  <2>3. SpecAt(k) # End
    BY <1>1, <1>7
  <2> QED
    BY <1>1, <2>2, <2>3
<1>9. AfterPairs(SpecAt(k) + 1)
  BY <1>7, <1>8, NextAfter
<1> QED
  BY <1>4, <1>5, <1>7, <1>8, <1>9

LEMMA RestTyped ==
  ASSUME fmt \in Formats, args \in ArgLists, Called, NEW k \in 1..End, AfterPairs(k)
  PROVE  Rest[k] \in Seq(Int)
<1> DEFINE S == {n \in Nat : \A m \in 1..End : m >= End - n /\ AfterPairs(m) => Rest[m] \in Seq(Int)}
<1>1. End \in Nat \ {0} /\ fmt[End] = 0 /\ \A j \in 1..End : fmt[j] \in Int /\ (fmt[j] = 0 => j = End)
  BY FormatFacts
<1>2. Rest[End] \in Seq(Int)
  <2>1. End \in 1..(End + 1)
    BY <1>1
  <2>2. Rest[End] = <<>>
    BY <1>1, <2>1, RestUnfolds DEF Ahead
  <2> QED
    BY <2>2
<1>3. 0 \in S
  <2> SUFFICES ASSUME NEW m \in 1..End, m >= End - 0 PROVE Rest[m] \in Seq(Int)
    OBVIOUS
  <2>1. m = End
    BY <1>1
  <2> QED
    BY <1>2, <2>1
<1>4. ASSUME NEW n \in Nat, n \in S PROVE n + 1 \in S
  <2> SUFFICES ASSUME NEW m \in 1..End, m >= End - (n + 1), AfterPairs(m)
               PROVE  Rest[m] \in Seq(Int)
    OBVIOUS
  <2>1. \A j \in 1..End : j > m /\ AfterPairs(j) => Rest[j] \in Seq(Int)
    <3>1. \A j \in 1..End : j > m => j >= End - n
      BY <1>1
    <3> QED
      BY <1>4, <3>1
  <2>2. CASE fmt[m] = 0
    <3>1. m = End
      BY <1>1, <2>2
    <3> QED
      BY <1>2, <3>1
  <2>3. CASE fmt[m] # 0 /\ fmt[m] # Percent
    <3>1. m + 1 \in 1..End /\ m + 1 > m /\ AfterPairs(m + 1) /\ Rest[m] = <<fmt[m]>> \o Rest[m + 1]
      BY <1>1, <2>3, TextItem
    <3>2. Rest[m + 1] \in Seq(Int) /\ <<fmt[m]>> \in Seq(Int)
      BY <1>1, <2>1, <3>1
    <3> QED
      BY <3>1, <3>2, ConcatProperties
  <2>4. CASE fmt[m] # 0 /\ fmt[m] = Percent /\ fmt[m + 1] = Percent
    <3>1. m + 2 \in 1..End /\ m + 2 > m /\ AfterPairs(m + 2) /\ Rest[m] = <<Percent>> \o Rest[m + 2]
      BY <1>1, <2>4, PairItem
    <3>2. Rest[m + 2] \in Seq(Int) /\ <<Percent>> \in Seq(Int)
      BY <2>1, <3>1 DEF Percent
    <3> QED
      BY <3>1, <3>2, ConcatProperties
  <2>5. CASE fmt[m] # 0 /\ fmt[m] = Percent /\ fmt[m + 1] # Percent
    <3>1. /\ m \in Signs /\ Rest[m] = Shown(args[Nth(m)]) \o Rest[SpecAt(m) + 1]
          /\ SpecAt(m) \in (m + 1)..(End - 1) /\ AfterPairs(SpecAt(m) + 1)
      BY <2>5, SignItem
    <3>2. SpecAt(m) + 1 \in 1..End /\ SpecAt(m) + 1 > m
      BY <1>1, <3>1
    <3>3. Rest[SpecAt(m) + 1] \in Seq(Int) /\ Shown(args[Nth(m)]) \in Seq(Int)
      BY <2>1, <3>1, <3>2, SignTakes
    <3> QED
      BY <3>1, <3>3, ConcatProperties
  <2> QED
    BY <2>2, <2>3, <2>4, <2>5
<1>5. Nat \subseteq S
  <2> HIDE DEF S
  <2> QED
    BY <1>3, <1>4, Induction
<1>6. End \in S /\ k >= End - End
  BY <1>1, <1>5
<1> QED
  BY <1>6
-----------------------------------------------------------------------------
(* One turn: text up to a sign or the end, and the signs from there on.    *)
After == First(TextEnd, Elsewhere({Percent}))
Behind == TextEnd + 2 * Doubled(TextEnd)

Fresh == start \in 1..End /\ (start > 1 => fmt[start - 1] # Percent)

LEMMA RunFacts ==
  ASSUME fmt \in Formats, Fresh
  PROVE  /\ TextEnd \in start..End /\ fmt[TextEnd] \in {Percent, 0}
         /\ \A j \in start..(TextEnd - 1) : fmt[j] # Percent /\ fmt[j] # 0
         /\ After \in TextEnd..End /\ fmt[After] # Percent
         /\ \A j \in TextEnd..(After - 1) : fmt[j] = Percent
<1>1. /\ End \in Nat \ {0} /\ fmt[End] = 0 /\ DOMAIN fmt = 1..End /\ start \in 1..End
      /\ \A j \in 1..End : fmt[j] = 0 => j = End
  BY FormatFacts DEF Fresh
<1> DEFINE P == Places({Percent, 0})
           Q == Elsewhere({Percent})
<1>2. P \in SUBSET Nat /\ End \in P /\ \A j \in 1..End : j \in P <=> fmt[j] \in {Percent, 0}
  BY <1>1 DEF Places
<1>3. Q \in SUBSET Nat /\ End \in Q /\ \A j \in 1..End : j \in Q <=> fmt[j] # Percent
  BY <1>1 DEF Places, Elsewhere, Percent
<1>4. P \subseteq 1..End /\ Q \subseteq 1..End
  BY <1>1 DEF Places, Elsewhere
<1>5. TextEnd = First(start, P) /\ After = First(TextEnd, Q)
  BY DEF TextEnd, After
<1> HIDE DEF P, Q
<1>6. PICK e : e = TextEnd /\ e \in P /\ e >= start /\ \A j \in P : j >= start => e <= j
  <2>1. End >= start
    BY <1>1
  <2> QED
    BY <1>2, <1>5, <2>1, FirstIs
<1>7. e \in start..End /\ fmt[e] \in {Percent, 0}
  BY <1>1, <1>2, <1>4, <1>6
<1>8. ASSUME NEW j \in start..(e - 1) PROVE fmt[j] # Percent /\ fmt[j] # 0
  <2>1. j \in 1..End /\ j >= start /\ ~ e <= j
    BY <1>1, <1>7
  <2> QED
    BY <1>2, <1>6, <2>1
<1>9. PICK x : x = After /\ x \in Q /\ x >= e /\ \A j \in Q : j >= e => x <= j
  <2>1. End >= e
    BY <1>1, <1>7
  <2> QED
    BY <1>3, <1>5, <1>6, <2>1, FirstIs
<1>10. x \in e..End /\ fmt[x] # Percent
  BY <1>1, <1>3, <1>4, <1>7, <1>9
<1>11. ASSUME NEW j \in e..(x - 1) PROVE fmt[j] = Percent
  <2>1. j \in 1..End /\ j >= e /\ ~ x <= j
    BY <1>1, <1>7, <1>10
  <2> QED
    BY <1>3, <1>9, <2>1
<1> QED
  BY <1>6, <1>7, <1>8, <1>9, <1>10, <1>11

LEMMA Halves ==
  ASSUME NEW e \in Nat, NEW x \in Nat, e <= x, NEW p, p = (x - e) \div 2
  PROVE  p \in Nat /\ (e + 2 * p = x \/ e + 2 * p = x - 1) /\ (e + 2 * p = x => (x - 1 - e) % 2 # 0 \/ x = e)
OBVIOUS

(* The only sign of a specifier in the run is its last.                    *)
LEMMA OnlySign ==
  ASSUME fmt \in Formats, Fresh, NEW k \in Signs, k >= start, k < After
  PROVE  k = After - 1 /\ k >= TextEnd /\ (k - TextEnd) % 2 = 0
<1>1. /\ TextEnd \in start..End /\ After \in TextEnd..End /\ start \in 1..End /\ End \in Nat
      /\ k \in 1..End
  BY RunFacts, FormatFacts, SignsFinite DEF Fresh
<1>2. PICK j \in 1..k : /\ (k - j) % 2 = 0 /\ (j > 1 => fmt[j - 1] # Percent)
                        /\ \A n \in j..k : fmt[n] = Percent
  BY DEF Signs
<1>3. fmt[k] = Percent /\ fmt[k + 1] # Percent
  BY DEF Signs
<1>4. k >= TextEnd
  <2>1. ~ k \in start..(TextEnd - 1)
    BY <1>3, RunFacts
  <2> QED
    BY <1>1, <2>1
<1>5. k = After - 1
  <2>1. ~ k + 1 \in TextEnd..(After - 1)
    BY <1>3, RunFacts
  <2> QED
    BY <1>1, <1>4, <2>1
<1>6. j >= TextEnd
  <2>1. ASSUME j < start PROVE FALSE
    <3>1. start - 1 \in j..k /\ start > 1
      BY <1>1, <2>1
    <3> QED
      BY <1>2, <3>1 DEF Fresh
  <2>2. ASSUME j \in start..(TextEnd - 1) PROVE FALSE
    <3>1. j \in j..k
      BY <1>1
    <3> QED
      BY <1>2, <2>2, <3>1, RunFacts
  <2> QED
    BY <1>1, <2>1, <2>2
<1>7. ~ j > TextEnd
  <2> SUFFICES ASSUME j > TextEnd PROVE FALSE
    OBVIOUS
  <2>1. j - 1 \in TextEnd..(After - 1) /\ j > 1
    BY <1>1, <1>5
  <2> QED
    BY <1>2, <2>1, RunFacts
<1>8. j = TextEnd
  BY <1>1, <1>6, <1>7
<1> QED
  BY <1>2, <1>4, <1>5, <1>8

LEMMA Assoc ==
  ASSUME NEW u \in Seq(Int), NEW v \in Seq(Int), NEW w \in Seq(Int)
  PROVE  u \o (v \o w) = (u \o v) \o w
BY ConcatAssociative

LEMMA Longer ==
  ASSUME NEW f \in Seq(Int), NEW m \in 1..Len(f), NEW k \in m..Len(f), NEW r \in Seq(Int)
  PROVE  /\ SubSeq(f, m, k - 1) \in Seq(Int) /\ SubSeq(f, m, k) \in Seq(Int)
         /\ SubSeq(f, m, k - 1) \o (<<f[k]>> \o r) = SubSeq(f, m, k) \o r
<1>1. Len(f) \in Nat /\ \A j \in 1..Len(f) : f[j] \in Int
  BY LenProperties
<1>2. /\ m \in Int /\ k \in Int /\ k - 1 \in Int
      /\ \A j \in m..k : f[j] \in Int
      /\ \A j \in m..(k - 1) : f[j] \in Int
  BY <1>1
<1>3. SubSeq(f, m, k - 1) \in Seq(Int) /\ SubSeq(f, m, k) \in Seq(Int)
  BY <1>2, SubSeqProperties, Zenon
<1>4. SubSeq(f, m, k) = SubSeq(f, m, k - 1) \o <<f[k]>>
  BY SubSeqRecursiveSecond, Zenon
<1>5. <<f[k]>> \in Seq(Int)
  BY <1>1
<1>6. SubSeq(f, m, k - 1) \o (<<f[k]>> \o r) = (SubSeq(f, m, k - 1) \o <<f[k]>>) \o r
  <2>1. PICK u \in Seq(Int), v \in Seq(Int) : u = SubSeq(f, m, k - 1) /\ v = <<f[k]>>
    BY <1>3, <1>5
  <2>2. u \o (v \o r) = (u \o v) \o r
    BY Assoc, Zenon
  <2> QED
    BY <2>1, <2>2
<1> QED
  BY <1>3, <1>4, <1>6

LEMMA RunLonger ==
  ASSUME fmt \in Formats, NEW m \in 1..End, NEW k \in m..End, NEW r \in Seq(Int)
  PROVE  /\ SubSeq(fmt, m, k) \in Seq(Int)
         /\ SubSeq(fmt, m, k - 1) \o (<<fmt[k]>> \o r) = SubSeq(fmt, m, k) \o r
<1>1. fmt \in Seq(Int)
  BY FormatFacts
<1> QED
  BY <1>1, Longer, Zenon DEF End

(* The text of a turn is what is wanted up to the sign behind it.          *)
LEMMA RunReads ==
  ASSUME fmt \in Formats, args \in ArgLists, Called, Fresh
  PROVE  /\ AfterPairs(Behind) /\ Behind \in 1..End
         /\ SubSeq(fmt, start, TextEnd + Doubled(TextEnd) - 1) \in Seq(Int)
         /\ Rest[start] = SubSeq(fmt, start, TextEnd + Doubled(TextEnd) - 1) \o Rest[Behind]
<1>1. PICK e, x, p : e = TextEnd /\ x = After /\ p = Doubled(TextEnd)
  OBVIOUS
<1>2. /\ End \in Nat \ {0} /\ start \in 1..End /\ e \in start..End /\ x \in e..End
      /\ (\A j \in start..(e - 1) : fmt[j] # Percent /\ fmt[j] # 0)
      /\ (\A j \in e..(x - 1) : fmt[j] = Percent)
  BY <1>1, FormatFacts, RunFacts DEF Fresh
<1>3. p \in Nat /\ e + 2 * p <= x
  <2>1. p = (x - e) \div 2
    BY <1>1 DEF Doubled, After
  <2> QED
    BY <1>2, <2>1, Halves
<1> DEFINE Reads(m, k) == /\ AfterPairs(k) /\ k \in 1..End
                          /\ SubSeq(fmt, start, m - 1) \in Seq(Int)
                          /\ Rest[start] = SubSeq(fmt, start, m - 1) \o Rest[k]
<1>4. Reads(start, start)
  <2>1. AfterPairs(start)
    <3>1. start \in 1..start /\ (start - start) % 2 = 0 /\ \A n \in start..(start - 1) : fmt[n] = Percent
      BY <1>2
    <3> QED
      BY <3>1 DEF AfterPairs, Fresh
  <2>2. SubSeq(fmt, start, start - 1) = <<>>
    BY <1>2, SubSeqEmpty
  <2>3. Rest[start] \in Seq(Int)
    BY <1>2, <2>1, RestTyped
  <2>4. <<>> \o Rest[start] = Rest[start]
    BY <2>3, ConcatEmptySeq
  <2>5. <<>> \in Seq(Int) /\ start \in 1..End
    BY <1>2
  <2> QED
    BY <2>1, <2>2, <2>4, <2>5, Zenon
<1>5. ASSUME NEW k \in start..(e - 1), Reads(k, k) PROVE Reads(k + 1, k + 1)
  <2>1. k \in 1..End /\ fmt[k] # 0 /\ fmt[k] # Percent /\ k \in start..End /\ (k + 1) - 1 = k
    BY <1>2
  <2>2. k + 1 \in 1..End /\ Rest[k] = <<fmt[k]>> \o Rest[k + 1] /\ AfterPairs(k + 1)
    BY <2>1, TextItem
  <2>3. Rest[k + 1] \in Seq(Int)
    BY <2>2, RestTyped
  <2>4. Rest[start] = SubSeq(fmt, start, k - 1) \o (<<fmt[k]>> \o Rest[k + 1])
    BY <1>5, <2>2
  <2>5. /\ SubSeq(fmt, start, k) \in Seq(Int)
        /\ SubSeq(fmt, start, k - 1) \o (<<fmt[k]>> \o Rest[k + 1]) = SubSeq(fmt, start, k) \o Rest[k + 1]
    BY <1>2, <2>1, <2>3, RunLonger, Zenon
  <2> QED
    BY <2>1, <2>2, <2>4, <2>5
<1>6. Reads(e, e)
  <2> DEFINE S == {n \in Nat : start + n <= e => Reads(start + n, start + n)}
  <2> HIDE DEF Reads
  <2>1. 0 \in S
    <3>1. start + 0 = start
      BY <1>2
    <3> QED
      BY <1>4, <3>1
  <2>2. ASSUME NEW n \in Nat, n \in S PROVE n + 1 \in S
    <3> SUFFICES ASSUME start + (n + 1) <= e PROVE Reads(start + (n + 1), start + (n + 1))
      OBVIOUS
    <3>1. start + n \in start..(e - 1) /\ start + (n + 1) = (start + n) + 1
      BY <1>2
    <3>2. Reads(start + n, start + n)
      BY <1>2, <2>2, <3>1
    <3> QED
      BY <1>5, <3>1, <3>2
  <2>3. Nat \subseteq S
    <3> HIDE DEF S
    <3> QED
      BY <2>1, <2>2, Induction
  <2>4. e - start \in Nat /\ start + (e - start) = e
    BY <1>2
  <2>5. start + (e - start) <= e => Reads(start + (e - start), start + (e - start))
    BY <2>3, <2>4
  <2> QED
    BY <1>2, <2>4, <2>5
<1>7. ASSUME NEW q \in Nat, q < p, Reads(e + q, e + 2 * q) PROVE Reads(e + q + 1, e + 2 * q + 2)
  <2>1. PICK m \in Int, k \in Int : m = e + q /\ k = e + 2 * q
    BY <1>2
  <2>2. /\ k \in 1..End /\ k \in e..(x - 1) /\ k + 1 \in e..(x - 1)
        /\ m \in e..(x - 1) /\ m \in start..End /\ (m + 1) - 1 = m
    BY <1>2, <1>3, <1>7, <2>1
  <2>3. fmt[k] = Percent /\ fmt[k + 1] = Percent /\ fmt[m] = Percent
    BY <1>2, <2>2
  <2>4. AfterPairs(k) /\ Rest[start] = SubSeq(fmt, start, m - 1) \o Rest[k]
    BY <1>7, <2>1
  <2>5. k + 2 \in 1..End /\ Rest[k] = <<Percent>> \o Rest[k + 2] /\ AfterPairs(k + 2)
    BY <2>2, <2>3, <2>4, PairItem
  <2>6. Rest[k + 2] \in Seq(Int)
    BY <2>5, RestTyped
  <2>7. Rest[start] = SubSeq(fmt, start, m - 1) \o (<<fmt[m]>> \o Rest[k + 2])
    BY <2>3, <2>4, <2>5
  <2>8. /\ SubSeq(fmt, start, m) \in Seq(Int)
        /\ SubSeq(fmt, start, m - 1) \o (<<fmt[m]>> \o Rest[k + 2]) = SubSeq(fmt, start, m) \o Rest[k + 2]
    BY <1>2, <2>2, <2>6, RunLonger, ZenonT(40)
  <2>9. Reads(m + 1, k + 2)
    BY <2>2, <2>5, <2>7, <2>8
  <2> QED
    BY <2>1, <2>9
<1>8. Reads(e + p, e + 2 * p)
  <2> DEFINE S == {n \in Nat : n <= p => Reads(e + n, e + 2 * n)}
  <2> HIDE DEF Reads
  <2>1. 0 \in S
    <3>1. e + 0 = e /\ e + 2 * 0 = e
      BY <1>2
    <3> QED
      BY <1>6, <3>1
  <2>2. ASSUME NEW n \in Nat, n \in S PROVE n + 1 \in S
    <3> SUFFICES ASSUME n + 1 <= p PROVE Reads(e + (n + 1), e + 2 * (n + 1))
      OBVIOUS
    <3>1. n < p /\ n <= p /\ e + (n + 1) = e + n + 1 /\ e + 2 * (n + 1) = e + 2 * n + 2
      BY <1>2, <1>3
    <3>2. Reads(e + n, e + 2 * n)
      BY <2>2, <3>1
    <3> QED
      BY <1>7, <3>1, <3>2
  <2>3. Nat \subseteq S
    <3> HIDE DEF S
    <3> QED
      BY <2>1, <2>2, Induction
  <2> QED
    BY <1>3, <2>3
<1>9. Behind = e + 2 * p
  BY <1>1 DEF Behind
<1>10. AfterPairs(Behind) /\ Behind \in 1..End
  BY <1>8, <1>9
<1>11. PICK m, k : m = e + p /\ k = e + 2 * p
  OBVIOUS
<1>12. Reads(m, k)
  <2> HIDE DEF Reads
  <2> QED
    BY <1>8, <1>11
<1>13. SubSeq(fmt, start, m - 1) \in Seq(Int) /\ Rest[start] = SubSeq(fmt, start, m - 1) \o Rest[k]
  BY <1>12, Zenon
<1>14. m = TextEnd + Doubled(TextEnd) /\ k = Behind
  BY <1>1, <1>9, <1>11
<1>15. m - 1 = TextEnd + Doubled(TextEnd) - 1
  BY <1>1, <1>2, <1>3, <1>11
<1> HIDE DEF Reads
<1> QED
  BY <1>10, <1>13, <1>14, <1>15, Zenon
-----------------------------------------------------------------------------
(* The inductive invariant: what was written and what is still wanted are  *)
(* what was wanted, and one argument was taken for each sign behind.       *)
Text == SubSeq(fmt, start, TextEnd + Doubled(TextEnd) - 1)
Taken(k) == {j \in Signs : j < k}

WsInv ==
  /\ fmt \in Formats /\ args \in ArgLists
  /\ Called =>
       /\ ended \in {"no", "yes"} /\ str \in Seq(Int)
       /\ ended = "no" =>
            Fresh /\ AfterPairs(start) /\ taken = Cardinality(Taken(start)) /\ str \o Rest[start] = Rest[1]
       /\ ended = "yes" => str = Wanted /\ taken = Len(args)

LEMMA BehindIs ==
  ASSUME fmt \in Formats, Fresh
  PROVE  /\ Behind \in TextEnd..After /\ (Behind = After \/ Behind = After - 1)
         /\ Behind = After => (After - 1 - TextEnd) % 2 # 0 \/ After = TextEnd
<1>1. PICK e, x, p : e = TextEnd /\ x = After /\ p = Doubled(TextEnd)
  BY RunFacts, FormatFacts DEF Fresh
<1>2. e \in Nat /\ x \in Nat /\ e <= x
  BY <1>1, RunFacts, FormatFacts DEF Fresh
<1>3. p = (x - e) \div 2
  BY <1>1 DEF Doubled, After
<1>4. Behind = e + 2 * p
  BY <1>1 DEF Behind
<1>5. p \in Nat /\ (e + 2 * p = x \/ e + 2 * p = x - 1) /\ (e + 2 * p = x => (x - 1 - e) % 2 # 0 \/ x = e)
  BY <1>2, <1>3, Halves
<1>6. Behind \in e..x /\ (Behind = x \/ Behind = x - 1) /\ (Behind = x => (x - 1 - e) % 2 # 0 \/ x = e)
  BY <1>2, <1>4, <1>5
<1> QED
  BY <1>1, <1>6

(* Behind the doubled signs is a specifier, or the end.                    *)
LEMMA BehindSign ==
  ASSUME fmt \in Formats, args \in ArgLists, Called, Fresh, fmt[Behind] # 0
  PROVE  /\ Behind \in start..End /\ Behind = After - 1
         /\ fmt[Behind] = Percent /\ fmt[Behind + 1] # Percent
<1>1. PICK e, x, b : e = TextEnd /\ x = After /\ b = Behind
  OBVIOUS
<1>2. /\ End \in Nat \ {0} /\ start \in 1..End /\ e \in start..End /\ x \in e..End
      /\ fmt[e] \in {Percent, 0} /\ fmt[x] # Percent
      /\ (\A j \in e..(x - 1) : fmt[j] = Percent)
  BY <1>1, FormatFacts, RunFacts DEF Fresh
<1>3. b \in e..x /\ (b = x \/ b = x - 1) /\ (b = x => (x - 1 - e) % 2 # 0 \/ x = e)
  BY <1>1, BehindIs
<1>4. b # x
  <2> SUFFICES ASSUME b = x PROVE FALSE
    OBVIOUS
  <2>1. x # e
    BY <1>1, <1>2
  <2>2. x - 1 \in e..(x - 1) /\ x - 1 \in 1..End /\ (x - 1) + 1 = x /\ x - 1 >= start /\ x - 1 < x
    BY <1>2, <2>1
  <2>3. x - 1 \notin Signs
    BY <1>1, <1>3, <2>1, <2>2, OnlySign
  <2>4. fmt[x - 1] = Percent /\ x - 1 \in DOMAIN fmt
    BY <1>2, <2>2, FormatFacts
  <2>5. fmt[x] = 0
    BY <1>2, <2>2, <2>3, <2>4 DEF Called, PairsStand
  <2> QED
    BY <1>1, <2>5
<1>5. b = x - 1 /\ b \in e..(x - 1) /\ b + 1 = x /\ b \in start..End
  BY <1>2, <1>3, <1>4
<1> QED
  BY <1>1, <1>2, <1>5

LEMMA TakenBy ==
  ASSUME fmt \in Formats, args \in ArgLists, Called, Fresh, fmt[Behind] # 0
  PROVE  /\ Behind \in Signs /\ Nth(Behind) = Cardinality(Taken(start)) + 1
         /\ Taken(SpecAt(Behind) + 1) = {j \in Signs : j <= Behind}
<1>1. PICK b, x : b = Behind /\ x = After
  OBVIOUS
<1>2. /\ b \in start..End /\ b = x - 1 /\ fmt[b] = Percent /\ fmt[b + 1] # Percent
      /\ End \in Nat \ {0} /\ start \in 1..End /\ b \in 1..End /\ x \in Nat
  BY <1>1, BehindSign, FormatFacts, RunFacts DEF Fresh
<1>3. AfterPairs(b)
  BY <1>1, RunReads
<1>4. b \in Signs /\ SpecAt(b) \in (b + 1)..(End - 1) /\ fmt[SpecAt(b)] # Percent
  BY <1>2, <1>3, SignItem
<1>5. Signs \subseteq 1..End /\ \A T \in SUBSET Signs : IsFiniteSet(T) /\ Cardinality(T) \in Nat
  BY SignsFinite
<1>6. ASSUME NEW j \in Signs, j >= start, j <= b PROVE j = b
  <2>1. j < x
    BY <1>2, <1>5, <1>6
  <2> QED
    BY <1>1, <1>2, <1>6, <2>1, OnlySign
<1>7. {j \in Signs : j <= b} = Taken(start) \cup {b} /\ b \notin Taken(start)
  <2>1. \A j \in Signs : j <= b <=> j < start \/ j = b
    BY <1>2, <1>5, <1>6
  <2>2. ~ b < start
    BY <1>2
  <2> QED
    BY <1>4, <2>1, <2>2, Zenon DEF Taken
<1>8. Cardinality(Taken(start) \cup {b}) = Cardinality(Taken(start)) + 1
  <2>1. IsFiniteSet(Taken(start))
    BY <1>5 DEF Taken
  <2> QED
    BY <1>7, <2>1, FS_AddElement
<1>9. ASSUME NEW j \in Signs PROVE j < SpecAt(b) + 1 <=> j <= b
  <2>1. PICK s : s = SpecAt(b)
    OBVIOUS
  <2>2. fmt[j] = Percent /\ j \in 1..End
    BY <1>5 DEF Signs
  <2>3. j # s
    BY <1>4, <2>1, <2>2
  <2>4. b # End
    BY <1>2, <1>4
  <2>5. ~ j \in (b + 1)..(s - 1)
    BY <1>2, <2>1, <2>2, <2>4, SpecFacts DEF FlagChars, Percent
  <2> QED
    BY <1>2, <1>4, <2>1, <2>2, <2>3, <2>5
<1>10. Taken(SpecAt(b) + 1) = {j \in Signs : j <= b}
  BY <1>9, Zenon DEF Taken
<1> QED
  BY <1>1, <1>4, <1>7, <1>8, <1>10 DEF Nth

LEMMA AllTaken ==
  ASSUME fmt \in Formats, args \in ArgLists, Called, Fresh, fmt[Behind] = 0
  PROVE  Behind = End /\ Taken(start) = Signs
<1>1. PICK e, x, b : e = TextEnd /\ x = After /\ b = Behind
  OBVIOUS
<1>2. End \in Nat \ {0} /\ start \in 1..End /\ e \in start..End /\ x \in e..End
  BY <1>1, FormatFacts, RunFacts DEF Fresh
<1>3. b \in e..x /\ (b = x \/ b = x - 1) /\ (b = x => (x - 1 - e) % 2 # 0 \/ x = e)
  BY <1>1, BehindIs
<1>4. b = End /\ x = End
  <2>1. b \in 1..End
    BY <1>2, <1>3
  <2>2. b = End
    BY <1>1, <2>1, FormatFacts
  <2> QED
    BY <1>2, <1>3, <2>2
<1>5. ASSUME NEW k \in Signs, k >= start PROVE FALSE
  <2>1. k \in 1..End /\ fmt[k] = Percent
    BY SignsFinite DEF Signs
  <2>2. k # End
    BY <2>1, FormatFacts DEF Percent
  <2>3. k < x
    BY <1>2, <1>4, <2>1, <2>2
  <2>4. k = x - 1 /\ k >= e /\ (k - e) % 2 = 0
    BY <1>1, <1>5, <2>3, OnlySign
  <2> QED
    BY <1>2, <1>3, <1>4, <2>1, <2>4
<1>6. Signs \subseteq 1..End
  BY SignsFinite
<1>7. \A k \in Signs : k < start
  BY <1>2, <1>5, <1>6
<1> QED
  BY <1>1, <1>4, <1>7, Zenon DEF Taken
-----------------------------------------------------------------------------
LEMMA FirstHolds ==
  ASSUME WsInit
  PROVE  WsInv
<1>1. fmt \in Formats /\ args \in ArgLists /\ start = 1 /\ taken = 0 /\ str = <<>> /\ ended = "no"
  BY DEF WsInit
<1>0. str \in Seq(Int) /\ ended # "yes"
  BY <1>1
<1> SUFFICES ASSUME Called
             PROVE  Fresh /\ AfterPairs(start) /\ taken = Cardinality(Taken(start)) /\ str \o Rest[start] = Rest[1]
  BY <1>0, <1>1 DEF WsInv
<1>2. End \in Nat \ {0} /\ Signs \subseteq 1..End
  BY <1>1, FormatFacts, SignsFinite
<1>3. Fresh /\ start \in 1..End
  BY <1>1, <1>2 DEF Fresh
<1>4. AfterPairs(start)
  <2>1. start \in 1..start /\ (start - start) % 2 = 0 /\ ~ start > 1 /\ start..(start - 1) = {}
    BY <1>1
  <2> QED
    BY <2>1 DEF AfterPairs
<1>5. Rest[start] \in Seq(Int)
  BY <1>1, <1>3, <1>4, RestTyped
<1>6. Taken(start) = {}
  <2>1. \A j \in Signs : ~ j < start
    BY <1>1, <1>2
  <2> QED
    BY <2>1, Zenon DEF Taken
<1> QED
  BY <1>1, <1>3, <1>4, <1>5, <1>6, ConcatEmptySeq, FS_EmptySet

(* Where the code looks for the specifier behind a sign.  It finds a known *)
(* one wherever the reference does: what a build takes for a flag by an    *)
(* undefined shift is none.                                                *)
Met(k) == First(k + 1, Elsewhere(Flags))

LEMMA MetIs ==
  ASSUME fmt \in Formats, NEW k \in 1..End, k # End, fmt[SpecAt(k)] \in Known
  PROVE  Met(k) = SpecAt(k)
<1> DEFINE places == Elsewhere(Flags)
           s == SpecAt(k)
           t == First(k + 1, places)
<1>1. /\ s \in (k + 1)..End /\ End \in Nat \ {0} /\ DOMAIN fmt = 1..End
      /\ \A j \in (k + 1)..(s - 1) : fmt[j] \in FlagChars
  BY SpecFacts, FormatFacts
<1>2. fmt[s] \notin Flags
  <2>1. \A c \in LowFlags : c \in 1..34
    BY WsprintfAssumption, Zenon
  <2>2. fmt[s] \in {115, 83, 100, 105}
    BY DEF Known, IntSpec
  <2> HIDE DEF s
  <2> QED
    BY <2>1, <2>2 DEF Flags, FlagChars
<1>3. \A j \in 1..End : j \in places <=> fmt[j] \notin Flags
  BY <1>1 DEF Elsewhere, Places
<1>4. places \in SUBSET Nat /\ places \subseteq 1..End
  BY <1>1 DEF Elsewhere, Places
<1> HIDE DEF places, s
<1>5. s \in places /\ s >= k + 1
  BY <1>1, <1>2, <1>3
<1>6. t \in places /\ t >= k + 1 /\ t <= s
  <2>1. k + 1 \in Nat
    OBVIOUS
  <2> QED
    BY <1>4, <1>5, <2>1, FirstIs
<1>7. FlagChars \subseteq Flags
  BY DEF Flags
<1> HIDE DEF t
<1>8. ~ t < s
  <2> SUFFICES ASSUME t < s PROVE FALSE
    OBVIOUS
  <2>1. t \in (k + 1)..(s - 1) /\ t \in 1..End
    BY <1>1, <1>4, <1>6
  <2> QED
    BY <1>1, <1>3, <1>6, <1>7, <2>1
<1>9. t = s
  BY <1>1, <1>4, <1>6, <1>8
<1> QED
  BY <1>9 DEF t, s, places, Met

(* A turn, by what it comes to.                                            *)
LEMMA TurnIs ==
  ASSUME Turn
  PROVE  /\ ended = "no" /\ fmt' = fmt /\ args' = args
         /\ fmt[Behind] = 0 => str' = str \o Text /\ ended' = "yes" /\ taken' = taken
         /\ fmt[Behind] # 0 =>
              /\ start' = Met(Behind) + 1
              /\ Kind(fmt[Met(Behind)]) # "none" /\ Passed(fmt[Met(Behind)]) =>
                   /\ str' = str \o Text \o Converted(fmt[Met(Behind)], args[taken + 1])
                   /\ taken' = taken + 1 /\ ended' = ended
<1> DEFINE pairs == Doubled(TextEnd)
           text == SubSeq(fmt, start, TextEnd + pairs - 1)
           sign == TextEnd + 2 * pairs
           spec == First(sign + 1, Elsewhere(Flags))
<1>1. sign = Behind /\ text = Text /\ spec = Met(Behind)
  BY DEF Behind, Text, Met
<1>2. /\ ended = "no" /\ fmt' = fmt /\ args' = args
      /\ fmt[sign] = 0 => str' = str \o text /\ ended' = "yes" /\ taken' = taken
      /\ fmt[sign] # 0 =>
              /\ start' = spec + 1
              /\ Kind(fmt[spec]) # "none" /\ Passed(fmt[spec]) =>
                   /\ str' = str \o text \o Converted(fmt[spec], args[taken + 1])
                   /\ taken' = taken + 1 /\ ended' = ended
  BY Zenon DEF Turn
<1> HIDE DEF pairs, text, sign, spec
<1> QED
  BY <1>1, <1>2, Zenon

(* What a format comes to does not change with the state.                  *)
LEMMA SameFormat ==
  ASSUME fmt' = fmt, args' = args
  PROVE  /\ (Called <=> Called') /\ Rest' = Rest /\ Wanted' = Wanted /\ End' = End /\ Signs' = Signs
         /\ \A k : (AfterPairs(k) <=> AfterPairs(k)') /\ Taken(k)' = Taken(k)
<1>1. Signs' = Signs /\ End' = End
  BY DEF Signs, End
<1>2. \A k : SpecAt(k)' = SpecAt(k) /\ Nth(k)' = Nth(k) /\ Taken(k)' = Taken(k)
  BY <1>1 DEF SpecAt, Nth, Elsewhere, Places, Taken
<1>3. Called <=> Called'
  BY <1>1, <1>2 DEF Called, Fits, PairsStand, PlainArgs
<1>4. Rest' = Rest
  BY <1>1, <1>2 DEF Rest, IsRest, Ahead
<1>5. Wanted' = Wanted
  BY <1>1, <1>2 DEF Wanted, End
<1>6. \A k : (AfterPairs(k) <=> AfterPairs(k)')
  BY DEF AfterPairs
<1> QED
  BY <1>1, <1>2, <1>3, <1>4, <1>5, <1>6

LEMMA WsTurnKeeps ==
  ASSUME WsInv, Turn
  PROVE  WsInv'
<1>1. /\ ended = "no" /\ fmt' = fmt /\ args' = args /\ fmt \in Formats /\ args \in ArgLists
  BY TurnIs DEF WsInv
<1> SUFFICES ASSUME Called
             PROVE  /\ ended' \in {"no", "yes"} /\ str' \in Seq(Int)
                    /\ ended' = "no" => /\ Fresh' /\ AfterPairs(start)' /\ taken' = Cardinality(Taken(start)')
                                        /\ str' \o Rest[start'] = Rest[1]
                    /\ ended' = "yes" => str' = Wanted /\ taken' = Len(args)
  <2>1. (Called <=> Called') /\ Rest' = Rest /\ Wanted' = Wanted
    BY <1>1, SameFormat
  <2> QED
    BY <1>1, <2>1 DEF WsInv
<1>2. /\ str \in Seq(Int) /\ Fresh /\ taken = Cardinality(Taken(start)) /\ str \o Rest[start] = Rest[1]
  BY <1>1 DEF WsInv
<1>3. /\ AfterPairs(Behind) /\ Behind \in 1..End /\ Text \in Seq(Int)
      /\ Rest[start] = Text \o Rest[Behind]
  BY <1>1, <1>2, RunReads DEF Text
<1>4. Rest[Behind] \in Seq(Int)
  BY <1>1, <1>3, RestTyped
<1>5. (str \o Text) \o Rest[Behind] = Rest[1] /\ str \o Text \in Seq(Int)
  <2>1. str \o (Text \o Rest[Behind]) = (str \o Text) \o Rest[Behind]
    BY <1>2, <1>3, <1>4, Assoc
  <2> QED
    BY <1>2, <1>3, <2>1, ConcatProperties
<1>6. CASE fmt[Behind] = 0
  <2>1. Behind = End /\ Taken(start) = Signs
    BY <1>1, <1>2, <1>6, AllTaken
  <2>2. Rest[Behind] = <<>>
    <3>1. Behind \in 1..(End + 1)
      BY <1>1, <1>3, FormatFacts
    <3> QED
      BY <1>1, <1>6, <3>1, RestUnfolds, Zenon DEF Ahead
  <2>3. str' = str \o Text /\ ended' = "yes" /\ taken' = taken
    BY <1>6, TurnIs
  <2>4. str' = Wanted
    BY <1>1, <1>5, <2>2, <2>3, ConcatEmptySeq, RestUnfolds
  <2>5. taken' = Len(args)
    BY <1>2, <2>1, <2>3 DEF Called, Fits
  <2> QED
    BY <1>5, <2>3, <2>4, <2>5
<1>7. CASE fmt[Behind] # 0
  <2> DEFINE spec == SpecAt(Behind)
             shown == Shown(args[Nth(Behind)])
  <2>1. /\ Behind \in Signs /\ Nth(Behind) = taken + 1 /\ Taken(spec + 1) = {j \in Signs : j <= Behind}
    BY <1>1, <1>2, <1>7, TakenBy
  <2>2. /\ Nth(Behind) \in DOMAIN args /\ Kind(fmt[spec]) = args[Nth(Behind)].kind
        /\ fmt[spec] \in Known /\ shown \in Seq(Int)
        /\ Converted(fmt[spec], args[Nth(Behind)]) = shown
    BY <1>1, <2>1, SignTakes
  <2>3. /\ Rest[Behind] = shown \o Rest[spec + 1] /\ fmt[spec] # Percent
        /\ spec \in (Behind + 1)..(End - 1) /\ spec + 1 \in 1..End /\ AfterPairs(spec + 1)
    BY <1>1, <1>2, <1>3, <1>7, BehindSign, SignItem
  <2>4. Kind(fmt[spec]) # "none"
    BY <1>1, <2>2, ArgFacts
  <2>13. Met(Behind) = spec
    BY <1>1, <1>3, <2>2, <2>3, MetIs
  <2>5. Passed(fmt[spec])
    <3>1. DOMAIN args = 1..Len(args) /\ taken \in Nat
      BY <1>1, <1>2, SignsFinite, ArgIs DEF Taken
    <3>2. args[taken + 1].kind = Kind(fmt[spec])
      BY <2>1, <2>2
    <3>3. taken < Len(args)
      BY <1>1, <2>1, <2>2, <3>1, SignsFinite DEF Called, Fits
    <3> QED
      BY <3>2, <3>3 DEF Passed
  <2>6. /\ start' = spec + 1 /\ taken' = taken + 1 /\ ended' = "no"
        /\ str' = str \o Text \o Converted(fmt[spec], args[taken + 1])
    BY <1>1, <1>7, <2>4, <2>5, <2>13, TurnIs
  <2>7. str' = (str \o Text) \o shown
    BY <2>1, <2>2, <2>6
  <2> HIDE DEF shown
  <2>8. Rest[spec + 1] \in Seq(Int)
    BY <1>1, <2>3, RestTyped
  <2>9. str' \o Rest[spec + 1] = Rest[1] /\ str' \in Seq(Int)
    <3>1. (str \o Text) \o (shown \o Rest[spec + 1]) = ((str \o Text) \o shown) \o Rest[spec + 1]
      BY <1>5, <2>2, <2>8, Assoc
    <3> QED
      BY <1>5, <2>2, <2>3, <2>7, <3>1, ConcatProperties
  <2>10. taken' = Cardinality(Taken(start)')
    <3>1. Signs' = Signs
      BY <1>1, SameFormat
    <3>2. Taken(start)' = Taken(spec + 1)
      BY <2>6, <3>1, Zenon DEF Taken
    <3>3. Cardinality({j \in Signs : j <= Behind}) = taken + 1
      BY <2>1 DEF Nth
    <3> QED
      BY <2>1, <2>6, <3>2, <3>3
  <2>11. Fresh'
    <3>1. End' = End
      BY <1>1, SameFormat
    <3>2. (spec + 1) - 1 = spec
      BY <2>3
    <3> QED
      BY <1>1, <2>3, <2>6, <3>1, <3>2 DEF Fresh
  <2>12. AfterPairs(start)'
    <3>1. AfterPairs(spec + 1)
      BY <2>3
    <3> HIDE DEF spec
    <3>2. fmt' = fmt /\ start' = spec + 1
      BY <1>1, <2>6
    <3> QED
      BY <3>1, <3>2 DEF AfterPairs
  <2> QED
    BY <2>6, <2>9, <2>10, <2>11, <2>12
<1> QED
  BY <1>6, <1>7

(* wsprintfW writes, for every format and every arguments that fit it, the *)
(* text, the doubled signs and the arguments from left to right, and takes *)
(* every argument, unless a number is negative, a char is beyond ASCII or  *)
(* a doubled sign stands before text.                                      *)
THEOREM WsprintfExactAlways == WsSpec => []WsprintfExact
<1>1. WsInit => WsInv
  BY FirstHolds
<1>2. WsInv /\ [Turn]_wsVars => WsInv'
  <2>1. ASSUME WsInv, UNCHANGED wsVars PROVE WsInv'
    <3>1. fmt' = fmt /\ args' = args /\ start' = start /\ taken' = taken /\ str' = str /\ ended' = ended
      BY <2>1 DEF wsVars
    <3>2. /\ (Called <=> Called') /\ Rest' = Rest /\ Wanted' = Wanted /\ End' = End
          /\ Signs' = Signs
      BY <3>1, SameFormat
    <3>4. Taken(start)' = Taken(start)
      BY <3>1, <3>2 DEF Taken
    <3>5. AfterPairs(start) <=> AfterPairs(start)'
      BY <3>1 DEF AfterPairs
    <3>3. Fresh' <=> Fresh
      BY <3>1, <3>2 DEF Fresh
    <3> QED
      BY <2>1, <3>1, <3>2, <3>3, <3>4, <3>5 DEF WsInv
  <2> QED
    BY <2>1, WsTurnKeeps
<1>3. WsInv => WsprintfExact
  BY Zenon DEF WsInv, WsprintfExact, Called
<1> QED
  BY <1>1, <1>2, <1>3, PTL DEF WsSpec
-----------------------------------------------------------------------------
(* The numbers of values of the types, and remainders by them.             *)
LEMMA Quotient ==
  ASSUME NEW a \in Int, NEW b \in Nat \ {0}
  PROVE  /\ a \div b \in Int /\ a % b \in 0..(b - 1)
         /\ a = (a \div b) * b + (a % b)
OBVIOUS

LEMMA Distributes ==
  ASSUME NEW a \in Int, NEW b \in Int, NEW c \in Int
  PROVE  /\ (a + b) * c = a * c + b * c
         /\ (a - b) * c = a * c - b * c
         /\ a * c \in Int /\ a * c = c * a
<1>1. a * c \in Int /\ b * c \in Int /\ a * c = c * a
  OBVIOUS
<1>2. (a + b) * c = a * c + b * c
  OBVIOUS
<1>3. (a - b) * c = a * c - b * c
  OBVIOUS
<1> QED
  BY <1>1, <1>2, <1>3

LEMMA Grows ==
  ASSUME NEW a \in Nat \ {0}, NEW b \in Nat
  PROVE  a * b >= b /\ a * b \in Nat
<1>1. (a - 1) * b \in Nat
  OBVIOUS
<1>2. (a - 1) * b = a * b - 1 * b /\ a * b \in Int
  BY Distributes
<1> QED
  BY <1>1, <1>2

LEMMA Unique ==
  ASSUME NEW b \in Nat \ {0}, NEW q \in Int, NEW r \in 0..(b - 1), NEW a, a = q * b + r
  PROVE  a \div b = q /\ a % b = r
<1>1. a \in Int
  BY Distributes
<1>2. PICK p \in Int : p = a \div b
  BY <1>1, Quotient
<1>3. PICK t \in 0..(b - 1) : t = a % b
  BY <1>1, Quotient
<1>4. p * b + t = q * b + r
  BY <1>1, <1>2, <1>3, Quotient
<1>5. ~ (p < q)
  <2> SUFFICES ASSUME p < q PROVE FALSE
    OBVIOUS
  <2>1. q - p \in Nat \ {0}
    OBVIOUS
  <2>2. (q - p) * b >= b /\ (q - p) * b = q * b - p * b
    BY <2>1, Grows, Distributes
  <2>3. q * b \in Int /\ p * b \in Int
    BY Distributes
  <2> QED
    BY <1>4, <2>2, <2>3
<1>6. ~ (q < p)
  <2> SUFFICES ASSUME q < p PROVE FALSE
    OBVIOUS
  <2>1. p - q \in Nat \ {0}
    OBVIOUS
  <2>2. (p - q) * b >= b /\ (p - q) * b = p * b - q * b
    BY <2>1, Grows, Distributes
  <2>3. q * b \in Int /\ p * b \in Int
    BY Distributes
  <2> QED
    BY <1>4, <2>2, <2>3
<1>7. p = q
  BY <1>5, <1>6
<1>8. q * b \in Int /\ t = r
  BY <1>4, <1>7, Distributes
<1> QED
  BY <1>2, <1>3, <1>7, <1>8

LEMMA Residue ==
  ASSUME NEW b \in Nat \ {0}, NEW q \in Int, NEW r \in 0..(b - 1)
  PROVE  (q * b + r) % b = r
<1>1. PICK m : m = q * b + r
  OBVIOUS
<1>2. m % b = r
  BY <1>1, Unique
<1> QED
  BY <1>1, <1>2

LEMMA Squared ==
  ASSUME NEW a \in Nat \ {0}, a % 2 = 0
  PROVE  a * a \in Nat \ {0} /\ (a * a) % 2 = 0 /\ a <= a * a
<1>1. a * a \in Nat /\ a * a >= a
  BY Grows
<1>2. PICK h \in Int : a = h * 2
  <2>1. a = (a \div 2) * 2 /\ a \div 2 \in Int
    OBVIOUS
  <2> QED
    BY <2>1
<1>3. PICK k \in Int : k = a * h
  <2>1. a * h \in Int
    BY Distributes
  <2> QED
    BY <2>1
<1>4. a * a = k * 2 + 0
  <2>1. a * a = a * (h * 2)
    BY <1>2
  <2>2. a * (h * 2) = a * h + a * h
    <3>1. (h + h) * a = h * a + h * a /\ h * a = a * h
      BY Distributes
    <3>2. h * 2 = h + h /\ (h + h) * a = a * (h + h)
      BY Distributes
    <3> QED
      BY <3>1, <3>2
  <2> QED
    BY <1>3, <2>1, <2>2
<1>5. (k * 2 + 0) % 2 = 0
  BY Residue
<1> QED
  BY <1>1, <1>4, <1>5

CTypes == {CHAR, SHORT, INT, LLONG}

LEMMA TypesEven ==
  /\ \A t \in CTypes : t \in Nat \ {0} /\ t % 2 = 0 /\ t <= LLONG
  /\ CHAR <= SHORT /\ SHORT <= INT /\ INT <= LLONG
<1>1. CHAR \in Nat \ {0} /\ CHAR % 2 = 0
  BY PrintfAssumption DEF CHAR
<1>2. SHORT \in Nat \ {0} /\ SHORT % 2 = 0 /\ CHAR <= SHORT
  BY <1>1, Squared DEF SHORT
<1>3. INT \in Nat \ {0} /\ INT % 2 = 0 /\ SHORT <= INT
  BY <1>2, Squared DEF INT
<1>4. LLONG \in Nat \ {0} /\ LLONG % 2 = 0 /\ INT <= LLONG
  BY <1>3, Squared DEF LLONG
<1> QED
  BY <1>1, <1>2, <1>3, <1>4 DEF CTypes

(* A long long has a whole number of ints, and of chars.                   *)
LEMMA TypesDivide ==
  /\ \E q \in Int : LLONG - INT = q * INT
  /\ \E q \in Int : LLONG - CHAR = q * CHAR
<1>1. CHAR \in Int /\ SHORT \in Int /\ INT \in Int /\ LLONG \in Int
  BY TypesEven DEF CTypes
<1>2. LLONG - INT = (INT - 1) * INT
  <2>1. (INT - 1) * INT = INT * INT - 1 * INT
    BY <1>1, Distributes
  <2> QED
    BY <1>1, <2>1 DEF LLONG
<1>3. PICK k \in Int : INT = k * CHAR
  <2>1. INT = (CHAR * CHAR) * (CHAR * CHAR)
    BY DEF INT, SHORT
  <2>2. PICK k \in Int : k = (CHAR * CHAR) * CHAR
    BY <1>1
  <2>3. (CHAR * CHAR) * (CHAR * CHAR) = ((CHAR * CHAR) * CHAR) * CHAR
    BY <1>1
  <2> QED
    BY <2>1, <2>2, <2>3
<1>4. PICK m \in Int : LLONG = m * CHAR
  <2>1. LLONG = INT * (k * CHAR)
    BY <1>3 DEF LLONG
  <2>2. INT * (k * CHAR) = (INT * k) * CHAR /\ INT * k \in Int
    BY <1>1
  <2> QED
    BY <2>1, <2>2
<1>5. LLONG - CHAR = (m - 1) * CHAR
  <2>1. (m - 1) * CHAR = m * CHAR - 1 * CHAR
    BY <1>1, Distributes
  <2> QED
    BY <1>1, <1>4, <2>1
<1> QED
  BY <1>1, <1>2, <1>5
-----------------------------------------------------------------------------
(* What is popped of a slot, and what C reads.                             *)
LEMMA SlotRead ==
  ASSUME NEW t \in CTypes, NEW s \in Slot
  PROVE  /\ s \in Nat /\ s <= LLONG - 1 /\ s % t \in 0..(t - 1) /\ s % LLONG = s
         /\ t \in Nat \ {0} /\ t % 2 = 0 /\ t <= LLONG /\ LLONG \in Nat \ {0} /\ LLONG % 2 = 0
<1>1. t \in Nat \ {0} /\ t % 2 = 0 /\ t <= LLONG /\ LLONG \in Nat \ {0} /\ LLONG % 2 = 0
  BY TypesEven DEF CTypes
<1>2. s \in Nat /\ s <= LLONG - 1 /\ s \in 0..(LLONG - 1)
  BY <1>1 DEF Slot
<1>3. s % t \in 0..(t - 1)
  BY <1>1, <1>2, Quotient
<1>4. s % LLONG = s
  <2>1. (0 * LLONG + s) % LLONG = s
    BY <1>1, <1>2, Residue
  <2>2. 0 * LLONG + s = s
    BY <1>1, <1>2
  <2> QED
    BY <2>1, <2>2
<1> QED
  BY <1>1, <1>2, <1>3, <1>4

LEMMA SignedValue ==
  ASSUME NEW t \in CTypes, NEW s \in Slot
  PROVE  /\ Extended(s, t) \in Slot /\ SignedRead(s, t) \in Int
         /\ SignedRead(s, t) <= (t \div 2) - 1
         /\ Extended(s, t) >= LLONG \div 2 <=> SignedRead(s, t) < 0
         /\ SignedRead(s, t) < 0 => LLONG - Extended(s, t) = -SignedRead(s, t)
         /\ SignedRead(s, t) >= 0 => Extended(s, t) = SignedRead(s, t)
<1>1. PICK r : r = s % t
  OBVIOUS
<1>2. /\ r \in 0..(t - 1) /\ t \in Nat \ {0} /\ t % 2 = 0 /\ t <= LLONG
      /\ LLONG \in Nat \ {0} /\ LLONG % 2 = 0
  BY <1>1, SlotRead
<1>3. Extended(s, t) = IF r < t \div 2 THEN r ELSE LLONG - t + r
  BY <1>1, Zenon DEF Extended
<1>4. SignedRead(s, t) = IF r < t \div 2 THEN r ELSE r - t
  BY <1>1, Zenon DEF SignedRead
<1>5. PICK h \in Nat, g \in Nat : h = t \div 2 /\ t = h + h /\ g = LLONG \div 2 /\ LLONG = g + g /\ h <= g
  BY <1>2
<1> QED
  BY <1>2, <1>3, <1>4, <1>5 DEF Slot

LEMMA LowerPart ==
  ASSUME NEW t \in {CHAR, INT}, NEW s \in Slot
  PROVE  Extended(s, t) % t = s % t
<1>1. PICK r : r = s % t
  OBVIOUS
<1>2. t \in CTypes
  BY DEF CTypes
<1>3. /\ r \in 0..(t - 1) /\ t \in Nat \ {0} /\ LLONG \in Nat
  BY <1>1, <1>2, SlotRead
<1>4. PICK q \in Int : LLONG - t = q * t
  BY TypesDivide
<1>5. CASE r < t \div 2
  <2>1. Extended(s, t) = r
    BY <1>1, <1>5 DEF Extended
  <2>2. (0 * t + r) % t = r /\ 0 * t + r = r
    BY <1>3, Residue
  <2> QED
    BY <1>1, <2>1, <2>2
<1>6. CASE ~ r < t \div 2
  <2>1. Extended(s, t) = LLONG - t + r
    BY <1>1, <1>6 DEF Extended
  <2>2. (q * t + r) % t = r
    BY <1>3, Residue
  <2> QED
    BY <1>1, <1>4, <2>1, <2>2
<1> QED
  BY <1>5, <1>6

LEMMA MaxIntIs == MaxInt \in Nat /\ INT = 2 * (MaxInt + 1) /\ INT \div 2 = MaxInt + 1
BY TypesEven DEF MaxInt, CTypes

LEMMA IntRead ==
  ASSUME NEW s \in Slot
  PROVE  ToInt(PopArg("INT", s)) = SignedRead(s, INT) /\ SignedRead(s, INT) \in Int
<1>1. PopArg("INT", s) = Extended(s, INT)
  BY DEF PopArg
<1>2. PICK r : r = s % INT
  OBVIOUS
<1>3. r \in 0..(INT - 1) /\ Extended(s, INT) % INT = r /\ SignedRead(s, INT) \in Int
  BY <1>2, SlotRead, LowerPart, SignedValue DEF CTypes
<1>4. r <= MaxInt <=> r < INT \div 2
  BY <1>3, MaxIntIs
<1>5. ToInt(PopArg("INT", s)) = IF r <= MaxInt THEN r ELSE r - INT
  BY <1>1, <1>3 DEF ToInt
<1> QED
  BY <1>2, <1>3, <1>4, <1>5 DEF SignedRead

SignedNames == {"INT", "LONG", "LLONG", "SHORT", "CHAR", "PDIFF", "IMAX"}
UnsignedNames == {"UINT", "ULONG", "ULLONG", "USHORT", "UCHAR", "SIZET", "UMAX"}

LEMMA TypeIs ==
  ASSUME NEW d, Type(d) # None
  PROVE  /\ d.conv \in {"d", "i", "o", "u", "x", "X", "c", "s", "p", "n"}
         /\ d.conv \in {"d", "i"} => Type(d) \in SignedNames
         /\ d.conv \in {"o", "u", "x", "X"} => Type(d) \in UnsignedNames
         /\ d.conv = "c" => Type(d) = "CHAR"
         /\ d.conv = "p" => Type(d) = "UIPTR"
         /\ d.conv \in {"s", "n"} => Type(d) = "PTR"
         /\ d.conv = "n" => Prefix(d.length) # None
<1>1. PICK p : p = Prefix(d.length)
  OBVIOUS
<1>2. CASE d.conv \in {"d", "i"}
  <2>1. Type(d) = IF p \in DOMAIN SignedTypes THEN SignedTypes[p] ELSE None
    BY <1>1, <1>2 DEF Type
  <2>2. p \in DOMAIN SignedTypes
    BY <2>1
  <2>3. Type(d) = SignedTypes[p]
    BY <2>1, <2>2
  <2>4. SignedTypes[p] \in SignedNames
    BY <2>2 DEF SignedTypes, SignedNames
  <2> QED
    BY <1>2, <2>3, <2>4
<1>3. CASE d.conv \in {"o", "u", "x", "X"}
  <2>1. Type(d) = IF p \in DOMAIN UnsignedTypes THEN UnsignedTypes[p] ELSE None
    BY <1>1, <1>3 DEF Type
  <2>2. p \in DOMAIN UnsignedTypes
    BY <2>1
  <2>3. Type(d) = UnsignedTypes[p]
    BY <2>1, <2>2
  <2>4. UnsignedTypes[p] \in UnsignedNames
    BY <2>2 DEF UnsignedTypes, UnsignedNames
  <2> QED
    BY <1>3, <2>3, <2>4
<1>4. CASE d.conv \notin {"d", "i", "o", "u", "x", "X"}
  BY <1>4 DEF Type
<1> QED
  BY <1>2, <1>3, <1>4

LEMMA SignedPop ==
  ASSUME NEW type \in SignedNames, NEW s \in Slot
  PROVE  /\ CType(type) \in CTypes
         /\ PopArg(type, s) = Extended(s, CType(type))
<1>1. Extended(s, LLONG) = s
  <2>1. LLONG \in CTypes /\ s % LLONG = s /\ s \in Nat /\ LLONG \in Nat
    BY SlotRead DEF CTypes
  <2> QED
    BY <2>1 DEF Extended
<1>2. CASE type \in {"INT", "LONG"}
  BY <1>2 DEF PopArg, CType, CTypes
<1>3. CASE type = "SHORT"
  BY <1>3 DEF PopArg, CType, CTypes
<1>4. CASE type = "CHAR"
  BY <1>4 DEF PopArg, CType, CTypes
<1>5. CASE type \in {"LLONG", "PDIFF", "IMAX"}
  BY <1>1, <1>5 DEF PopArg, CType, CTypes
<1> QED
  BY <1>2, <1>3, <1>4, <1>5 DEF SignedNames

LEMMA UnsignedPop ==
  ASSUME NEW type \in UnsignedNames \cup {"PTR", "UIPTR"}, NEW s \in Slot
  PROVE  /\ CType(type) \in CTypes
         /\ PopArg(type, s) = s % CType(type)
         /\ s % CType(type) \in Slot
<1>0. \A t \in CTypes : s % t \in Slot
  BY SlotRead DEF Slot
<1>1. s % LLONG = s
  BY SlotRead DEF CTypes
<1>2. CASE type \in {"UINT", "ULONG"}
  BY <1>0, <1>2 DEF PopArg, CType, CTypes
<1>3. CASE type = "USHORT"
  BY <1>0, <1>3 DEF PopArg, CType, CTypes
<1>4. CASE type = "UCHAR"
  BY <1>0, <1>4 DEF PopArg, CType, CTypes
<1>5. CASE type \in {"ULLONG", "SIZET", "UMAX", "PTR", "UIPTR"}
  BY <1>0, <1>1, <1>5 DEF PopArg, CType, CTypes
<1> QED
  BY <1>2, <1>3, <1>4, <1>5 DEF UnsignedNames

(* v is what printf_core has of the slot, and n the number C means.        *)
Means(d, v, n) ==
  /\ v \in Slot /\ n \in Int
  /\ d.conv \in {"d", "i"} =>
       /\ Negative(d.conv, v) <=> n < 0
       /\ n < 0 => Minus(v) = -n
       /\ n >= 0 => v = n
  /\ d.conv \in {"o", "u", "x", "X", "p", "s", "n"} => v = n
  /\ d.conv = "c" => v % CHAR = n

LEMMA PopMeans ==
  ASSUME NEW d, Type(d) # None, NEW s \in Slot
  PROVE  /\ Means(d, PopArg(Type(d), s), CValue(d, s))
         /\ d.conv \in {"s", "n"} => PopArg(Type(d), s) = s
<1>1. CASE d.conv \in {"d", "i"}
  <2>1. PICK t \in CTypes : t = CType(Type(d)) /\ PopArg(Type(d), s) = Extended(s, t)
    BY <1>1, TypeIs, SignedPop
  <2>2. CValue(d, s) = SignedRead(s, t)
    BY <1>1, <2>1 DEF CValue
  <2>3. Negative(d.conv, Extended(s, t)) <=> Extended(s, t) >= LLONG \div 2
    BY <1>1 DEF Negative
  <2> HIDE DEF CTypes
  <2> QED
    BY <1>1, <2>1, <2>2, <2>3, SignedValue DEF Means, Minus
<1>2. CASE d.conv \in {"o", "u", "x", "X", "p", "s", "n"}
  <2>1. /\ PopArg(Type(d), s) = s % CType(Type(d)) /\ s % CType(Type(d)) \in Slot
        /\ d.conv \in {"s", "n"} => Type(d) = "PTR"
    BY <1>2, TypeIs, UnsignedPop
  <2>2. CValue(d, s) = s % CType(Type(d))
    BY <1>2 DEF CValue
  <2>3. \A x \in Slot : x \in Int
    BY TypesEven DEF Slot, CTypes
  <2>4. PopArg("PTR", s) = s
    BY DEF PopArg
  <2> QED
    BY <1>2, <2>1, <2>2, <2>3, <2>4 DEF Means
<1>3. CASE d.conv = "c"
  <2>1. Type(d) = "CHAR" /\ CHAR \in CTypes
    BY <1>3, TypeIs DEF CTypes
  <2>2. PopArg(Type(d), s) = Extended(s, CHAR) /\ CValue(d, s) = s % CHAR
    BY <1>3, <2>1 DEF PopArg, CValue, CType
  <2>3. Extended(s, CHAR) \in Slot /\ Extended(s, CHAR) % CHAR = s % CHAR /\ s % CHAR \in Int
    BY <2>1, SignedValue, LowerPart, SlotRead
  <2> QED
    BY <1>3, <2>2, <2>3 DEF Means
<1> QED
  BY <1>1, <1>2, <1>3, TypeIs
-----------------------------------------------------------------------------
(* Digits: none of 0, and the first of another number is not 0.            *)
Bases == {8, 10, 16}
DigitIs(ten, x) == IF x < 10 THEN 48 + x ELSE ten + x - 10
DigitsAt(f, base, ten, m) ==
  IF m = 0 THEN <<>> ELSE Append(f[m \div base], DigitIs(ten, m % base))
AreDigits(f, n, base, ten) == f = [m \in 0..n |-> DigitsAt(f, base, ten, m)]

LEMMA DigitLess ==
  ASSUME NEW m \in Nat \ {0}, NEW base \in Bases
  PROVE  /\ m \div base \in 0..(m - 1) /\ m % base \in 0..(base - 1)
         /\ m \div base = 0 => m % base = m
<1>1. CASE base = 8
  BY <1>1
<1>2. CASE base = 10
  BY <1>2
<1>3. CASE base = 16
  BY <1>3
<1> QED
  BY <1>1, <1>2, <1>3 DEF Bases

LEMMA DigitsExist ==
  ASSUME NEW n \in Nat, NEW base \in Bases, NEW ten
  PROVE  \E f : AreDigits(f, n, base, ten)
<1> DEFINE S == {k \in Nat : \E f : DOMAIN f = 0..k /\ f = [m \in 0..k |-> f[m]]
                                    /\ \A m \in 0..k : f[m] = DigitsAt(f, base, ten, m)}
<1>1. 0 \in S
  <2> DEFINE f == [m \in 0..0 |-> <<>>]
  <2>1. DOMAIN f = 0..0 /\ f = [m \in 0..0 |-> f[m]]
    OBVIOUS
  <2>2. \A m \in 0..0 : f[m] = <<>> /\ m = 0
    OBVIOUS
  <2> HIDE DEF f
  <2>3. \A m \in 0..0 : f[m] = DigitsAt(f, base, ten, m)
    BY <2>2 DEF DigitsAt
  <2> QED
    BY <2>1, <2>3
<1>2. ASSUME NEW k \in Nat, k \in S PROVE k + 1 \in S
  <2>1. PICK f : \A m \in 0..k : f[m] = DigitsAt(f, base, ten, m)
    BY <1>2
  <2> DEFINE g == [m \in 0..(k + 1) |-> IF m = k + 1 THEN DigitsAt(f, base, ten, m) ELSE f[m]]
  <2>2. DOMAIN g = 0..(k + 1) /\ g = [m \in 0..(k + 1) |-> g[m]]
    OBVIOUS
  <2>3. \A m \in 0..k : g[m] = f[m]
    OBVIOUS
  <2>4. ASSUME NEW m \in 0..(k + 1) PROVE g[m] = DigitsAt(g, base, ten, m)
    <3>1. DigitsAt(g, base, ten, m) = DigitsAt(f, base, ten, m)
      <4> HIDE DEF g
      <4>1. m # 0 => m \div base \in 0..k
        BY DigitLess
      <4> QED
        BY <2>3, <4>1 DEF DigitsAt
    <3>2. m # k + 1 => m \in 0..k
      OBVIOUS
    <3> QED
      BY <2>1, <3>1, <3>2
  <2> HIDE DEF g
  <2> QED
    BY <2>2, <2>4
<1>3. Nat \subseteq S
  <2> HIDE DEF S
  <2> QED
    BY <1>1, <1>2, Induction
<1>4. PICK f : DOMAIN f = 0..n /\ f = [m \in 0..n |-> f[m]] /\ \A m \in 0..n : f[m] = DigitsAt(f, base, ten, m)
  BY <1>3
<1>5. f = [m \in 0..n |-> DigitsAt(f, base, ten, m)]
  BY <1>4
<1> QED
  BY <1>5 DEF AreDigits

LEMMA DigitsAre ==
  ASSUME NEW n \in Nat, NEW base \in Bases, NEW ten \in {65, 97}
  PROVE  /\ Digits(n, base, ten) \in Seq(Int)
         /\ n = 0 => Digits(n, base, ten) = <<>>
         /\ n # 0 => Len(Digits(n, base, ten)) >= 1 /\ Digits(n, base, ten)[1] # 48
<1> DEFINE f == CHOOSE g : AreDigits(g, n, base, ten)
<1>1. AreDigits(f, n, base, ten)
  BY DigitsExist, Zenon
<1>2. Digits(n, base, ten) = f[n]
  BY DEF Digits, AreDigits, DigitsAt, DigitIs
<1> HIDE DEF f
<1>3. \A m \in 0..n : f[m] = DigitsAt(f, base, ten, m)
  BY <1>1 DEF AreDigits
<1> DEFINE Good(m) == /\ f[m] \in Seq(Int) /\ (m = 0 => f[m] = <<>>)
                      /\ m # 0 => Len(f[m]) >= 1 /\ f[m][1] # 48
           S == {k \in Nat : \A m \in 0..k : m <= n => Good(m)}
<1>4. Good(0)
  <2>1. f[0] = <<>>
    BY <1>3 DEF DigitsAt
  <2> QED
    BY <2>1
<1>5. ASSUME NEW m \in 1..n, \A j \in 0..(m - 1) : Good(j) PROVE Good(m)
  <2>1. PICK q, r : q = m \div base /\ r = m % base
    OBVIOUS
  <2>2. q \in 0..(m - 1) /\ r \in 0..(base - 1) /\ (q = 0 => r = m)
    BY <2>1, DigitLess
  <2>3. f[m] = Append(f[q], DigitIs(ten, r))
    <3>1. f[m] = DigitsAt(f, base, ten, m) /\ m # 0
      BY <1>3
    <3> HIDE DEF Good
    <3> QED
      BY <2>1, <3>1, Zenon DEF DigitsAt
  <2>4. Good(q)
    BY <1>5, <2>2
  <2>5. PICK x : x = DigitIs(ten, r)
    OBVIOUS
  <2>6. x \in Int /\ (r # 0 => x # 48)
    BY <2>2, <2>5 DEF DigitIs, Bases
  <2>7. PICK u \in Seq(Int) : u = f[q]
    BY <2>4
  <2>8. /\ Append(u, x) \in Seq(Int) /\ Len(Append(u, x)) = Len(u) + 1 /\ Len(u) \in Nat
        /\ \A j \in 1..Len(u) : Append(u, x)[j] = u[j]
        /\ Append(u, x)[Len(u) + 1] = x
    BY <2>6, AppendProperties, LenProperties
  <2>9. CASE q = 0
    <3>1. u = <<>> /\ Len(u) = 0 /\ x # 48
      BY <2>2, <2>4, <2>6, <2>7, <2>9, EmptySeq
    <3> QED
      BY <2>3, <2>5, <2>7, <2>8, <3>1
  <2>10. CASE q # 0
    <3>1. Len(u) >= 1 /\ u[1] # 48
      BY <2>4, <2>7, <2>10
    <3>2. 1 \in 1..Len(u)
      BY <2>8, <3>1
    <3> QED
      BY <2>3, <2>5, <2>7, <2>8, <3>1, <3>2
  <2> QED
    BY <2>9, <2>10
<1>6. 0 \in S
  <2> HIDE DEF Good
  <2> QED
    BY <1>4
<1>7. ASSUME NEW k \in Nat, k \in S PROVE k + 1 \in S
  <2> HIDE DEF Good
  <2>1. ASSUME k + 1 <= n PROVE Good(k + 1)
    <3>1. \A j \in 0..((k + 1) - 1) : Good(j)
      BY <1>7, <2>1
    <3>2. k + 1 \in 1..n
      BY <2>1
    <3> QED
      BY <1>5, <3>1, <3>2
  <2> QED
    BY <1>7, <2>1
<1>8. Nat \subseteq S
  <2> HIDE DEF S
  <2> QED
    BY <1>6, <1>7, Induction
<1>9. Good(n)
  <2> HIDE DEF Good
  <2> QED
    BY <1>8
<1> QED
  BY <1>2, <1>9
-----------------------------------------------------------------------------
(* A field.                                                                *)
LEMMA TimesIs ==
  ASSUME NEW c \in Int, NEW n \in Nat
  PROVE  /\ Times(c, n) \in Seq(Int) /\ Len(Times(c, n)) = n
         /\ n = 0 => Times(c, n) = <<>>
         /\ n = 1 => Times(c, n) = <<c>>
         /\ \A j \in 1..n : Times(c, n)[j] = c
BY DEF Times

LEMMA Joined ==
  ASSUME NEW u \in Seq(Int), NEW v \in Seq(Int)
  PROVE  u \o v \in Seq(Int) /\ Len(u \o v) = Len(u) + Len(v) /\ Len(u) \in Nat /\ Len(v) \in Nat
BY ConcatProperties, LenProperties

LEMMA WithNone ==
  ASSUME NEW u \in Seq(Int)
  PROVE  u \o <<>> = u /\ <<>> \o u = u /\ <<>> \in Seq(Int)
BY ConcatEmptySeq

Numbers == {"d", "i", "o", "u", "x", "X", "p"}

LEMMA MagnitudeIs ==
  ASSUME NEW d, NEW v, NEW n, Means(d, v, n), d.conv \in Numbers
  PROVE  /\ Magnitude(n) \in Nat /\ (Magnitude(n) = 0 <=> v = 0) /\ (v = 0 <=> n = 0)
         /\ Magnitude(n) = IF Negative(d.conv, v) THEN Minus(v) ELSE v
         /\ d.conv \in {"o", "u", "x", "X", "p"} => Magnitude(n) = v
<1>1. LLONG \in Nat /\ LLONG \div 2 \in Nat /\ LLONG \div 2 >= 1
  BY TypesEven DEF CTypes
<1>2. v \in Nat /\ v < LLONG /\ n \in Int
  BY <1>1 DEF Means, Slot
<1>3. CASE d.conv \in {"d", "i"}
  <2>1. Negative(d.conv, v) <=> v >= LLONG \div 2
    BY <1>3 DEF Negative
  <2>2. (Negative(d.conv, v) <=> n < 0) /\ (n < 0 => Minus(v) = -n) /\ (n >= 0 => v = n)
    BY <1>3 DEF Means
  <2>3. d.conv \notin {"o", "u", "x", "X", "p"}
    BY <1>3
  <2> QED
    BY <1>1, <1>2, <2>1, <2>2, <2>3 DEF Magnitude
<1>4. CASE d.conv \in {"o", "u", "x", "X", "p"}
  <2>1. v = n /\ ~ Negative(d.conv, v)
    BY <1>4 DEF Means, Negative
  <2> QED
    BY <1>1, <1>2, <2>1 DEF Magnitude
<1> QED
  BY <1>3, <1>4 DEF Numbers

(* The digits of a number and what C wants.                                *)
BaseOf(d) == CASE d.conv \in {"x", "X", "p"} -> 16 [] d.conv = "o" -> 8 [] OTHER -> 10
Least(d, n) == Digits(Magnitude(n), BaseOf(d), IF d.conv = "X" THEN 65 ELSE 97)

LEMMA BodyIs ==
  ASSUME NEW d, NEW v, NEW n, Means(d, v, n), d.conv \in Numbers
  PROVE  /\ Body(d.conv, v) = Least(d, n) /\ Least(d, n) \in Seq(Int) /\ Len(Least(d, n)) \in Nat
         /\ v = 0 => Least(d, n) = <<>> /\ Len(Least(d, n)) = 0
         /\ v # 0 => Len(Least(d, n)) >= 1 /\ Least(d, n)[1] # 48
<1>1. PICK m \in Nat : m = Magnitude(n)
  BY MagnitudeIs
<1>2. PICK base, ten : base = BaseOf(d) /\ ten = IF d.conv = "X" THEN 65 ELSE 97
  OBVIOUS
<1>3. base \in Bases /\ ten \in {65, 97}
  BY <1>2 DEF BaseOf, Bases
<1>4. Least(d, n) = Digits(m, base, ten)
  BY <1>1, <1>2 DEF Least
<1>5. /\ Digits(m, base, ten) \in Seq(Int)
      /\ m = 0 => Digits(m, base, ten) = <<>>
      /\ m # 0 => Len(Digits(m, base, ten)) >= 1 /\ Digits(m, base, ten)[1] # 48
  BY <1>3, DigitsAre, ZenonT(40)
<1>6. m = 0 <=> v = 0
  BY <1>1, MagnitudeIs
<1>7. Body(d.conv, v) = Digits(m, base, ten)
  <2>1. CASE d.conv \in {"x", "p"}
    BY <1>1, <1>2, <2>1, MagnitudeIs DEF Body, BaseOf
  <2>2. CASE d.conv = "X"
    BY <1>1, <1>2, <2>2, MagnitudeIs DEF Body, BaseOf
  <2>3. CASE d.conv = "o"
    BY <1>1, <1>2, <2>3, MagnitudeIs DEF Body, BaseOf
  <2>4. CASE d.conv \in {"d", "i", "u"}
    <3>1. Body(d.conv, v) = Digits(IF Negative(d.conv, v) THEN Minus(v) ELSE v, 10, 97)
      BY <2>4 DEF Body
    <3>2. base = 10 /\ ten = 97
      BY <1>2, <2>4 DEF BaseOf
    <3> QED
      BY <1>1, <3>1, <3>2, MagnitudeIs
  <2> QED
    BY <2>1, <2>2, <2>3, <2>4 DEF Numbers
<1> QED
  BY <1>4, <1>5, <1>6, <1>7, LenProperties, EmptySeq

(* Zeros before the digits: what printf_core comes to, and C.              *)
Alternate(d) == d.conv = "o" /\ "#" \in d.flags

(* The flags that printf_core drops or adds are not these.                 *)
KeepsMarks(d, fl) ==
  /\ "#" \in fl <=> "#" \in d.flags
  /\ "+" \in fl <=> "+" \in d.flags
  /\ " " \in fl <=> " " \in d.flags

Zeroed(d, ln, q, c, e) ==
  /\ q \in Int /\ c \in Nat /\ e \in Int
  /\ Greater(0, q - ln) = IF Alternate(d) /\ c = 0 THEN 1 ELSE c
  /\ Greater(q, ln) = ln + Greater(0, q - ln)

LEMMA Zeros ==
  ASSUME NEW d, NEW fl, KeepsMarks(d, fl), NEW p \in Int, NEW v \in Nat, NEW ln \in Nat,
         (v = 0 => ln = 0) /\ (v # 0 => ln >= 1), NEW q, q = MinDigits(d.conv, fl, p, v, ln),
         NEW e, e = CPrecise(d, p), NEW c, c = Greater(0, (IF e < 0 THEN 1 ELSE e) - ln)
  PROVE  Zeroed(d, ln, q, c, e)
<1>1. e \in Int
  BY PrintfAssumption DEF CPrecise, Greater
<1>2. PICK m \in Int : m = Asked(d.conv, fl, p, ln) /\ m = IF Alternate(d) THEN Greater(p, ln + 1) ELSE e
  <2>1. Asked(d.conv, fl, p, ln) = IF Alternate(d) THEN Greater(p, ln + 1) ELSE e
    BY Zenon DEF Asked, CPrecise, Alternate, KeepsMarks
  <2> QED
    BY <1>1, <2>1 DEF Greater
<1>3. q = IF v = 0 /\ m = 0 THEN 0 ELSE Greater(m, IF v = 0 THEN ln + 1 ELSE ln)
  BY <1>2, Zenon DEF MinDigits
<1>4. Alternate(d) => e = p
  BY DEF Alternate, CPrecise
<1>5. q \in Int
  BY <1>2, <1>3 DEF Greater
<1>6. CASE Alternate(d)
  BY <1>1, <1>2, <1>3, <1>4, <1>5, <1>6 DEF Greater, Zeroed
<1>7. CASE ~ Alternate(d)
  BY <1>1, <1>2, <1>3, <1>5, <1>7 DEF Greater, Zeroed
<1> QED
  BY <1>6, <1>7

Written(d, n, p, body, q) ==
  /\ body \in Seq(Int) /\ q \in Int /\ Times(48, Greater(0, q - Len(body))) \in Seq(Int)
  /\ Times(48, Greater(0, q - Len(body))) \o body = CDigits(d, n, CPrecise(d, p))
  /\ Len(Times(48, Greater(0, q - Len(body))) \o body) = Greater(q, Len(body))

LEMMA NumberIs ==
  ASSUME NEW d, NEW fl, KeepsMarks(d, fl), NEW p \in Int, NEW v, NEW n,
         Means(d, v, n), d.conv \in Numbers
  PROVE  Written(d, n, p, Body(d.conv, v), MinDigits(d.conv, fl, p, v, Len(Body(d.conv, v))))
<1>1. PICK l : l = Body(d.conv, v)
  OBVIOUS
<1>2. PICK ln : ln = Len(l)
  OBVIOUS
<1>3. /\ l = Least(d, n) /\ l \in Seq(Int) /\ ln \in Nat
      /\ (v = 0 => l = <<>> /\ ln = 0) /\ (v # 0 => ln >= 1 /\ l[1] # 48)
  BY <1>1, <1>2, BodyIs
<1>4. v \in Nat
  BY TypesEven DEF Means, Slot, CTypes
<1>5. (v = 0 => ln = 0) /\ (v # 0 => ln >= 1)
  BY <1>3
<1>6. PICK q, e, c : /\ q = MinDigits(d.conv, fl, p, v, ln) /\ e = CPrecise(d, p)
                     /\ c = Greater(0, (IF e < 0 THEN 1 ELSE e) - ln)
  OBVIOUS
<1>7. Zeroed(d, ln, q, c, e)
  BY <1>3, <1>4, <1>5, <1>6, Zeros, Zenon
<1>8. /\ q \in Int /\ c \in Nat /\ e \in Int
      /\ Greater(0, q - ln) = IF Alternate(d) /\ c = 0 THEN 1 ELSE c
      /\ Greater(q, ln) = ln + Greater(0, q - ln)
  BY <1>7 DEF Zeroed
<1>9. PICK z \in Nat : z = Greater(0, q - ln)
  BY <1>8
<1>10. Times(48, z) \in Seq(Int) /\ Len(Times(48, z)) = z
  BY TimesIs
<1>11. PICK digits : digits = Times(48, c) \o l
  OBVIOUS
<1>12. CDigits(d, n, e) = IF Alternate(d) /\ (digits = <<>> \/ digits[1] # 48) THEN <<48>> \o digits ELSE digits
  <2>1. c = Greater(0, (IF e < 0 THEN 1 ELSE e) - Len(Least(d, n))) /\ digits = Times(48, c) \o Least(d, n)
    BY <1>2, <1>3, <1>6, <1>11
  <2> DEFINE least == Least(d, n)
             written == Times(48, Greater(0, (IF e < 0 THEN 1 ELSE e) - Len(least))) \o least
  <2>2. CDigits(d, n, e) = IF Alternate(d) /\ (written = <<>> \/ written[1] # 48) THEN <<48>> \o written ELSE written
    BY Zenon DEF CDigits, Least, BaseOf, Alternate
  <2>3. written = digits
    BY <2>1
  <2> HIDE DEF written
  <2> QED
    BY <2>2, <2>3
<1>13. Times(48, z) \o l = CDigits(d, n, e)
  <2>1. CASE ~ Alternate(d)
    BY <1>8, <1>9, <1>11, <1>12, <2>1
  <2>2. CASE Alternate(d) /\ c # 0
    <3>1. /\ Times(48, c) \in Seq(Int) /\ Len(Times(48, c)) = c /\ Times(48, c)[1] = 48 /\ c >= 1
      <4>1. c >= 1 /\ 1 \in 1..c /\ c \in Nat /\ 48 \in Int
        BY <1>8, <2>2
      <4> QED
        BY <4>1, TimesIs
    <3>2. digits # <<>> /\ digits[1] = 48
      <4>1. /\ Len(digits) = c + ln
            /\ \A j \in 1..(c + ln) : digits[j] = IF j <= c THEN Times(48, c)[j] ELSE l[j - c]
        BY <1>2, <1>3, <1>11, <3>1, ConcatProperties, SMTT(20)
      <4>2. Len(digits) # 0 /\ 1 \in 1..(c + ln) /\ 1 <= c
        BY <1>3, <1>8, <3>1, <4>1
      <4>3. digits[1] = 48
        BY <3>1, <4>1, <4>2
      <4> QED
        BY <4>2, <4>3, EmptySeq
    <3> QED
      BY <1>8, <1>9, <1>11, <1>12, <2>2, <3>2
  <2>3. CASE Alternate(d) /\ c = 0
    <3>1. Times(48, c) = <<>> /\ Times(48, z) = <<48>>
      BY <1>8, <1>9, <2>3, TimesIs
    <3>2. digits = l
      BY <1>3, <1>11, <3>1, WithNone
    <3>3. digits = <<>> \/ digits[1] # 48
      BY <1>3, <3>2
    <3> QED
      BY <1>12, <2>3, <3>1, <3>2, <3>3
  <2> QED
    BY <2>1, <2>2, <2>3
<1>14. Len(Times(48, z) \o l) = Greater(q, ln)
  <2>1. Len(Times(48, z) \o l) = z + ln
    BY <1>2, <1>3, <1>10, Joined, ZenonT(40)
  <2> QED
    BY <1>3, <1>8, <1>9, <2>1
<1> QED
  BY <1>1, <1>2, <1>3, <1>6, <1>8, <1>9, <1>10, <1>13, <1>14 DEF Written

LEMMA Marks ==
  /\ <<45>> \in Seq(Int) /\ <<43>> \in Seq(Int) /\ <<32>> \in Seq(Int) /\ <<>> \in Seq(Int)
  /\ <<48, 88>> \in Seq(Int) /\ <<48, 120>> \in Seq(Int)
OBVIOUS

LEMMA SignIs ==
  ASSUME NEW d, NEW fl, KeepsMarks(d, fl), NEW v, NEW n,
         Means(d, v, n), d.conv \in Numbers
  PROVE  Before(d.conv, fl, v) = CSign(d, n) /\ CSign(d, n) \in Seq(Int)
<1>1. v = 0 <=> n = 0
  BY MagnitudeIs
<1>2. /\ <<45>> \in Seq(Int) /\ <<43>> \in Seq(Int) /\ <<32>> \in Seq(Int) /\ <<>> \in Seq(Int)
  BY Marks, Zenon
<1>3. CASE d.conv \in {"d", "i"}
  <2>1. d.conv \notin {"x", "X", "p"}
    BY <1>3
  <2>2. CASE n < 0
    <3>1. Negative(d.conv, v)
      BY <1>3, <2>2 DEF Means
    <3>2. Before(d.conv, fl, v) = <<45>>
      BY <1>3, <2>1, <3>1 DEF Before
    <3>3. CSign(d, n) = <<45>>
      BY <1>3, <2>2 DEF CSign
    <3> QED
      BY <1>2, <3>2, <3>3
  <2>3. CASE ~ n < 0
    <3>1. ~ Negative(d.conv, v)
      BY <1>3, <2>3 DEF Means
    <3>2. Before(d.conv, fl, v) = IF "+" \in fl THEN <<43>> ELSE IF " " \in fl THEN <<32>> ELSE <<>>
      BY <1>3, <2>1, <3>1 DEF Before
    <3>3. CSign(d, n) = IF "+" \in d.flags THEN <<43>> ELSE IF " " \in d.flags THEN <<32>> ELSE <<>>
      BY <1>3, <2>3 DEF CSign
    <3> QED
      BY <1>2, <3>2, <3>3, Zenon DEF KeepsMarks
  <2> QED
    BY <2>2, <2>3
<1>4. CASE d.conv \in {"x", "X", "p"}
  <2>1. ~ Negative(d.conv, v) /\ d.conv \notin {"d", "i"}
    BY <1>4 DEF Negative
  <2> DEFINE mark == <<48, IF d.conv = "X" THEN 88 ELSE 120>>
  <2>2. mark \in Seq(Int)
    <3>1. d.conv = "X" => mark = <<48, 88>>
      BY Zenon
    <3>2. d.conv # "X" => mark = <<48, 120>>
      BY Zenon
    <3> QED
      BY <3>1, <3>2, Marks, Zenon
  <2>3. Before(d.conv, fl, v) = IF v # 0 /\ (d.conv = "p" \/ "#" \in fl) THEN mark ELSE <<>>
    BY <1>4, <2>1, Zenon DEF Before
  <2>4. CSign(d, n) = IF n # 0 /\ (d.conv = "p" \/ "#" \in d.flags) THEN mark ELSE <<>>
    <3>1. d.conv \in {"x", "X"} \/ d.conv = "p"
      BY <1>4
    <3> QED
      BY <2>1, <3>1, Zenon DEF CSign
  <2> HIDE DEF mark
  <2> QED
    BY <1>1, <1>2, <2>2, <2>3, <2>4, Zenon DEF KeepsMarks
<1>5. CASE d.conv \in {"o", "u"}
  <2>1. ~ Negative(d.conv, v) /\ d.conv \notin {"d", "i"} /\ d.conv \notin {"x", "X", "p"}
    BY <1>5 DEF Negative
  <2>2. Before(d.conv, fl, v) = <<>>
    BY <2>1 DEF Before
  <2>3. CSign(d, n) = <<>>
    BY <2>1 DEF CSign
  <2> QED
    BY <1>2, <2>2, <2>3, Zenon
<1> QED
  BY <1>3, <1>4, <1>5 DEF Numbers

(* Padding: at the right, with zeros after the sign, or at the left.       *)
Shapes(before, body, q, w, fl, digits, whole, room) ==
  /\ room \in Nat /\ whole \in Seq(Int) /\ Len(whole) = Len(before) + Greater(q, Len(body))
  /\ "-" \in fl /\ "0" \notin fl =>
       Padded(before, body, q, w, fl) = whole \o Times(32, room)
  /\ "-" \notin fl /\ "0" \in fl =>
       Padded(before, body, q, w, fl) = before \o Times(48, room) \o digits
  /\ "-" \notin fl /\ "0" \notin fl =>
       Padded(before, body, q, w, fl) = Times(32, room) \o whole

LEMMA PaddedIs ==
  ASSUME NEW before \in Seq(Int), NEW body \in Seq(Int), NEW q \in Int, NEW w \in Int, NEW fl,
         NEW digits \in Seq(Int), digits = Times(48, Greater(0, q - Len(body))) \o body,
         Len(digits) = Greater(q, Len(body)), NEW whole, whole = before \o digits,
         NEW room, room = Greater(0, w - Len(whole))
  PROVE  Shapes(before, body, q, w, fl, digits, whole, room)
<1>1. PICK m : m = Greater(q, Len(body))
  OBVIOUS
<1>2. /\ whole \in Seq(Int) /\ Len(whole) = Len(before) + m
      /\ Len(before) \in Nat /\ m \in Nat /\ Len(body) \in Nat
  BY <1>1, Joined
<1>3. room \in Nat /\ room = Greater(0, w - Len(before) - m)
  BY <1>2 DEF Greater
<1>4. PICK zeros : zeros = Times(48, Greater(0, q - Len(body)))
  OBVIOUS
<1>5. zeros \in Seq(Int) /\ digits = zeros \o body
  BY <1>2, <1>4, TimesIs DEF Greater
<1>6. PICK spaces \in Seq(Int), more \in Seq(Int) : spaces = Times(32, room) /\ more = Times(48, room)
  BY <1>3, TimesIs
<1>7. Padded(before, body, q, w, fl) =
        (IF fl \cap {"-", "0"} = {} THEN spaces ELSE <<>>)
           \o before \o (IF "0" \in fl THEN more ELSE <<>>)
           \o zeros \o body \o (IF "-" \in fl THEN spaces ELSE <<>>)
  BY <1>1, <1>3, <1>4, <1>6, Zenon DEF Padded
<1>8. fl \cap {"-", "0"} = {} <=> "-" \notin fl /\ "0" \notin fl
  OBVIOUS
<1>9. (before \o zeros) \o body = whole /\ before \o zeros \in Seq(Int)
  <2>1. before \o (zeros \o body) = (before \o zeros) \o body
    BY <1>5, Assoc, ZenonT(40)
  <2> QED
    BY <1>5, <2>1, Joined
<1>10. CASE "-" \in fl /\ "0" \notin fl
  <2>1. Padded(before, body, q, w, fl) = <<>> \o before \o <<>> \o zeros \o body \o spaces
    BY <1>7, <1>8, <1>10
  <2>2. <<>> \o before \o <<>> = before
    BY WithNone
  <2>3. Padded(before, body, q, w, fl) = whole \o spaces
    BY <1>9, <2>1, <2>2, Zenon
  <2> QED
    BY <1>1, <1>2, <1>3, <1>6, <1>10, <2>3, Zenon DEF Shapes
<1>11. CASE "-" \notin fl /\ "0" \in fl
  <2>1. Padded(before, body, q, w, fl) = <<>> \o before \o more \o zeros \o body \o <<>>
    BY <1>7, <1>8, <1>11
  <2>2. <<>> \o before = before /\ before \o more \in Seq(Int)
    BY <1>6, WithNone, Joined
  <2>3. PICK u \in Seq(Int) : u = before \o more
    BY <2>2
  <2>4. u \o zeros \o body = u \o digits /\ u \o digits \in Seq(Int)
    <3>1. u \o (zeros \o body) = (u \o zeros) \o body
      BY <1>5, Assoc
    <3> QED
      BY <1>5, <3>1, Joined
  <2>5. Padded(before, body, q, w, fl) = u \o digits
    BY <2>1, <2>2, <2>3, <2>4, WithNone, Zenon
  <2> QED
    BY <1>2, <1>3, <1>6, <1>11, <2>3, <2>5, <1>1 DEF Shapes
<1>12. CASE "-" \notin fl /\ "0" \notin fl
  <2>1. Padded(before, body, q, w, fl) = spaces \o before \o <<>> \o zeros \o body \o <<>>
    BY <1>7, <1>8, <1>12
  <2>2. spaces \o before \o <<>> = spaces \o before /\ spaces \o before \in Seq(Int)
    BY <1>6, WithNone, Joined
  <2>3. (spaces \o before) \o zeros = spaces \o (before \o zeros)
    BY <1>5, Assoc
  <2>4. (spaces \o (before \o zeros)) \o body = spaces \o whole /\ spaces \o whole \in Seq(Int)
    <3>1. before \o zeros \in Seq(Int) /\ spaces \in Seq(Int)
      BY <1>6, <1>9
    <3>2. spaces \o ((before \o zeros) \o body) = (spaces \o (before \o zeros)) \o body
      BY <3>1, Assoc, ZenonT(40)
    <3> QED
      BY <1>2, <1>9, <3>1, <3>2, Joined
  <2>5. Padded(before, body, q, w, fl) = spaces \o whole
    <3>1. (spaces \o whole) \o <<>> = spaces \o whole
      BY <2>4, WithNone
    <3> QED
      BY <2>1, <2>2, <2>3, <2>4, <3>1, Zenon
  <2> QED
    BY <1>2, <1>3, <1>6, <1>12, <2>5, <1>1 DEF Shapes
<1> QED
  BY <1>1, <1>2, <1>3, <1>10, <1>11, <1>12 DEF Shapes

(* The flags that are left, and what they say of the sides of a field.     *)
Exact(d, p) == d.prec.from = "digits" \/ (d.prec.from = "arg" /\ p >= 0)
Left(d, w) == IF w < 0 THEN d.flags \cup {"-"} ELSE d.flags
FlagsOf(d, w, p) ==
  IF "-" \in Left(d, w) \/ ~ IsNumber(d.conv) \/ Exact(d, p) THEN Left(d, w) \ {"0"} ELSE Left(d, w)

ToRight(d, w) == w < 0 \/ "-" \in d.flags
WithZeros(d, w, p) == IsNumber(d.conv) /\ "0" \in d.flags /\ p < 0 /\ w >= 0 /\ "-" \notin d.flags

Sides(d, w, p, fl) ==
  /\ "-" \in fl <=> ToRight(d, w)
  /\ "0" \in fl <=> WithZeros(d, w, p)

LEMMA FlagsAre ==
  ASSUME NEW d, NEW w \in Int, NEW p \in Int, Exact(d, p) <=> p >= 0
  PROVE  KeepsMarks(d, FlagsOf(d, w, p)) /\ Sides(d, w, p, FlagsOf(d, w, p))
<1>1. \A x \in {"#", "+", " "} : x \in Left(d, w) <=> x \in d.flags
  BY DEF Left
<1>2. \A x \in {"#", "+", " "} : x \in FlagsOf(d, w, p) <=> x \in d.flags
  BY <1>1 DEF FlagsOf
<1>3. "-" \in Left(d, w) <=> ToRight(d, w)
  BY DEF Left, ToRight
<1>4. "0" \in Left(d, w) <=> "0" \in d.flags
  BY DEF Left
<1>5. "-" \in FlagsOf(d, w, p) <=> ToRight(d, w)
  BY <1>3 DEF FlagsOf
<1>6. "0" \in FlagsOf(d, w, p) <=> "0" \in d.flags /\ ~ ToRight(d, w) /\ IsNumber(d.conv) /\ ~ p >= 0
  BY <1>3, <1>4 DEF FlagsOf
<1>7. ~ ToRight(d, w) <=> w >= 0 /\ "-" \notin d.flags
  BY DEF ToRight
<1>8. p < 0 <=> ~ p >= 0
  OBVIOUS
<1>9. WithZeros(d, w, p) <=> "0" \in d.flags /\ ~ ToRight(d, w) /\ IsNumber(d.conv) /\ ~ p >= 0
  BY <1>7, <1>8, Zenon DEF WithZeros
<1> QED
  BY <1>2, <1>5, <1>6, <1>9, Zenon DEF KeepsMarks, Sides

(* What is padded, how C would write it, and how long that is.             *)
Spread(d, w, p, sign, digits, room) ==
  IF ToRight(d, w) THEN (sign \o digits) \o Times(32, room)
  ELSE IF WithZeros(d, w, p) THEN sign \o Times(48, room) \o digits
  ELSE Times(32, room) \o (sign \o digits)

Sized(chars, n) == chars \in Seq(Int) /\ Len(chars) = n

LEMMA SpreadTyped ==
  ASSUME NEW d, NEW w \in Int, NEW p \in Int, NEW sign \in Seq(Int), NEW digits \in Seq(Int), NEW room \in Nat
  PROVE  Sized(Spread(d, w, p, sign, digits, room), room + Len(sign \o digits))
<1>1. PICK whole \in Seq(Int) : whole = sign \o digits
  BY Joined
<1>2. PICK spaces \in Seq(Int), more \in Seq(Int) :
        spaces = Times(32, room) /\ more = Times(48, room) /\ Len(spaces) = room /\ Len(more) = room
  BY TimesIs
<1>3. Len(whole) = Len(sign) + Len(digits) /\ Len(whole) \in Nat /\ Len(sign) \in Nat /\ Len(digits) \in Nat
  BY <1>1, Joined
<1>4. whole \o spaces \in Seq(Int) /\ Len(whole \o spaces) = room + Len(whole)
  <2>1. whole \o spaces \in Seq(Int) /\ Len(whole \o spaces) = Len(whole) + Len(spaces)
    BY Joined, Zenon
  <2> QED
    BY <1>2, <1>3, <2>1, SMTT(20)
<1>5. spaces \o whole \in Seq(Int) /\ Len(spaces \o whole) = room + Len(whole)
  <2>1. spaces \o whole \in Seq(Int) /\ Len(spaces \o whole) = Len(spaces) + Len(whole)
    BY Joined, Zenon
  <2> QED
    BY <1>2, <1>3, <2>1
<1>6. sign \o more \o digits \in Seq(Int) /\ Len(sign \o more \o digits) = room + Len(whole)
  <2>1. sign \o more \in Seq(Int) /\ Len(sign \o more) = Len(sign) + Len(more)
    BY Joined, Zenon
  <2>2. PICK u \in Seq(Int) : u = sign \o more
    BY <2>1
  <2>3. u \o digits \in Seq(Int) /\ Len(u \o digits) = Len(u) + Len(digits)
    BY Joined, Zenon
  <2>4. Len(u) = Len(sign) + room
    BY <1>2, <2>1, <2>2
  <2>5. Len(u) + Len(digits) = room + Len(whole)
    BY <1>3, <2>4
  <2> QED
    BY <2>2, <2>3, <2>5
<1> QED
  BY <1>1, <1>2, <1>4, <1>5, <1>6, Zenon DEF Spread, Sized

LEMMA RoomIs ==
  ASSUME NEW width \in Nat, NEW l \in Nat
  PROVE  Greater(0, width - l) \in Nat /\ Greater(0, width - l) + l = Greater(width, l)
BY DEF Greater

Spreads(d, w, p, fl, before, body, q, width, digits, room) ==
  /\ Padded(before, body, q, width, fl) = Spread(d, w, p, before, digits, room)
  /\ Spread(d, w, p, before, digits, room) \in Seq(Int)
  /\ Len(Spread(d, w, p, before, digits, room)) = Greater(width, Len(before) + Greater(q, Len(body)))

LEMMA SpreadIs ==
  ASSUME NEW d, NEW w \in Int, NEW p \in Int, NEW fl, Sides(d, w, p, fl),
         NEW before \in Seq(Int), NEW body \in Seq(Int), NEW q \in Int, NEW width \in Nat,
         NEW digits \in Seq(Int), digits = Times(48, Greater(0, q - Len(body))) \o body,
         Len(digits) = Greater(q, Len(body)), NEW room, room = Greater(0, width - Len(before \o digits))
  PROVE  Spreads(d, w, p, fl, before, body, q, width, digits, room)
<1>1. PICK whole : whole = before \o digits
  OBVIOUS
<1>2. Shapes(before, body, q, width, fl, digits, whole, room)
  <2>1. room = Greater(0, width - Len(whole)) /\ width \in Int
    BY <1>1
  <2> QED
    BY <1>1, <2>1, PaddedIs, Zenon
<1>3. room \in Nat /\ Len(whole) = Len(before) + Greater(q, Len(body))
  BY <1>2, Zenon DEF Shapes
<1>4. Len(whole) \in Nat
  <2>1. whole \in Seq(Int)
    BY <1>2, Zenon DEF Shapes
  <2> QED
    BY <2>1, LenProperties, Zenon
<1>5. ToRight(d, w) => ~ WithZeros(d, w, p)
  BY DEF ToRight, WithZeros
<1>6. Padded(before, body, q, width, fl) = Spread(d, w, p, before, digits, room)
  BY <1>1, <1>2, <1>5, Zenon DEF Spread, Sides, Shapes
<1>7. Sized(Spread(d, w, p, before, digits, room), room + Len(before \o digits))
  BY <1>3, SpreadTyped, Zenon
<1>8. room + Len(before \o digits) = Greater(width, Len(whole))
  BY <1>1, <1>4, RoomIs, Zenon
<1> QED
  BY <1>3, <1>6, <1>7, <1>8, Zenon DEF Sized, Spreads

(* A field, with its parts named.                                          *)
Cut(d, p, v) ==
  IF d.conv = "s" /\ p >= 0 THEN SubSeq(Body(d.conv, v), 1, Lesser(p, Len(Body(d.conv, v)))) ELSE Body(d.conv, v)
AtLeast(d, fl, p, v) ==
  IF IsNumber(d.conv) THEN MinDigits(d.conv, fl, p, v, Len(Cut(d, p, v))) ELSE Len(Cut(d, p, v))
Total(d, fl, p, v) == Len(Before(d.conv, fl, v)) + Greater(AtLeast(d, fl, p, v), Len(Cut(d, p, v)))
InBounds(w) == w \in (-MaxInt)..MaxInt

LEMMA FieldOpens ==
  ASSUME NEW d, NEW w, InBounds(w), NEW p \in Int, Exact(d, p) <=> p >= 0, NEW v, NEW fl, fl = FlagsOf(d, w, p)
  PROVE  /\ Field(d, w, p, v).chars = Padded(Before(d.conv, fl, v), Cut(d, p, v), AtLeast(d, fl, p, v), Magnitude(w), fl)
         /\ Field(d, w, p, v).overflows <=> Greater(Magnitude(w), Total(d, fl, p, v)) > MaxInt - cnt
         /\ Magnitude(w) \in Nat /\ w \in Int
<1>1. MaxInt \in Nat
  BY MaxIntIs
<1>2. w \in Int /\ w # -MaxInt - 1
  BY <1>1 DEF InBounds
<1>3. (IF w = -MaxInt - 1 THEN 0 ELSE IF w < 0 THEN -w ELSE w) = Magnitude(w)
  BY <1>2 DEF Magnitude
<1>4. ~ (IsNumber(d.conv) /\ Exact(d, p) /\ p < 0)
  OBVIOUS
<1> DEFINE width == IF w = -MaxInt - 1 THEN 0 ELSE IF w < 0 THEN -w ELSE w
<1>5. /\ Field(d, w, p, v).chars = Padded(Before(d.conv, fl, v), Cut(d, p, v), AtLeast(d, fl, p, v), width, fl)
      /\ Field(d, w, p, v).overflows <=>
           \/ IsNumber(d.conv) /\ Exact(d, p) /\ p < 0
           \/ Greater(width, Total(d, fl, p, v)) > MaxInt - cnt
  BY Zenon DEF Field, Cut, AtLeast, Total, Exact, Left, FlagsOf
<1>6. width = Magnitude(w)
  BY <1>3
<1>7. Magnitude(w) \in Nat
  BY <1>2 DEF Magnitude
<1> HIDE DEF width
<1> QED
  BY <1>2, <1>4, <1>5, <1>6, <1>7, Zenon

LEMMA FieldNumber ==
  ASSUME NEW d, d.conv \in Numbers, NEW w, InBounds(w), NEW p \in Int, Exact(d, p) <=> p >= 0,
         NEW v, NEW n, Means(d, v, n)
  PROVE  /\ Field(d, w, p, v).chars = CShown(d, w, p, n)
         /\ CShown(d, w, p, n) \in Seq(Int)
         /\ Field(d, w, p, v).overflows <=> Len(CShown(d, w, p, n)) > MaxInt - cnt
<1>1. PICK fl : fl = FlagsOf(d, w, p)
  OBVIOUS
<1>2. /\ Field(d, w, p, v).chars = Padded(Before(d.conv, fl, v), Cut(d, p, v), AtLeast(d, fl, p, v), Magnitude(w), fl)
      /\ Field(d, w, p, v).overflows <=> Greater(Magnitude(w), Total(d, fl, p, v)) > MaxInt - cnt
      /\ Magnitude(w) \in Nat /\ w \in Int
  BY <1>1, FieldOpens, Zenon
<1>3. KeepsMarks(d, fl) /\ Sides(d, w, p, fl)
  BY <1>1, <1>2, FlagsAre, Zenon
<1>4. IsNumber(d.conv) /\ d.conv # "s" /\ d.conv # "c"
  BY DEF Numbers, IsNumber
<1>5. PICK body : body = Body(d.conv, v)
  OBVIOUS
<1>6. PICK q : q = MinDigits(d.conv, fl, p, v, Len(body))
  OBVIOUS
<1>7. Cut(d, p, v) = body /\ AtLeast(d, fl, p, v) = q
  BY <1>4, <1>5, <1>6, Zenon DEF Cut, AtLeast
<1>8. PICK e : e = CPrecise(d, p)
  OBVIOUS
<1>9. e \in Int /\ (e < 0 <=> p < 0)
  BY <1>8, PrintfAssumption DEF CPrecise, Greater
<1>10. PICK digits : digits = CDigits(d, n, e)
  OBVIOUS
<1>11. PICK zeros : zeros = Times(48, Greater(0, q - Len(body)))
  OBVIOUS
<1>12. /\ body \in Seq(Int) /\ q \in Int /\ zeros \in Seq(Int)
       /\ zeros \o body = digits /\ Len(zeros \o body) = Greater(q, Len(body))
  <2>1. Written(d, n, p, body, q)
    BY <1>3, <1>5, <1>6, NumberIs, Zenon
  <2> QED
    BY <1>8, <1>10, <1>11, <2>1, Zenon DEF Written
<1>13. PICK sign : sign = CSign(d, n)
  OBVIOUS
<1>14. Before(d.conv, fl, v) = sign /\ sign \in Seq(Int)
  BY <1>3, <1>13, SignIs, Zenon
<1>15. digits \in Seq(Int)
  BY <1>12, Joined, Zenon
<1>16. PICK room : room = Greater(0, Magnitude(w) - Len(sign \o digits))
  OBVIOUS
<1>17. Spreads(d, w, p, fl, sign, body, q, Magnitude(w), digits, room)
  BY <1>2, <1>3, <1>11, <1>12, <1>14, <1>15, <1>16, SpreadIs, Zenon
<1>18. CShown(d, w, p, n) = Spread(d, w, p, sign, digits, room)
  <2>1. ToRight(d, w) <=> (w < 0 \/ "-" \in d.flags)
    BY DEF ToRight
  <2>2. WithZeros(d, w, p) <=> (IsNumber(d.conv) /\ "0" \in d.flags /\ e < 0 /\ w >= 0 /\ "-" \notin d.flags)
    BY <1>9, Zenon DEF WithZeros
  <2>3. e = IF d.conv = "p" /\ p >= 0 THEN Greater(p, PtrDigits) ELSE p
    BY <1>8 DEF CPrecise
  <2>4. CWhole(d, e, n) = sign \o digits
    BY <1>4, <1>10, <1>13 DEF CWhole
  <2>5. CASE ToRight(d, w)
    <3>1. CShown(d, w, p, n) = CWhole(d, e, n) \o Times(32, Greater(0, Magnitude(w) - Len(CWhole(d, e, n))))
      <4>1. ~ WithZeros(d, w, p)
        BY <1>2, <2>5 DEF ToRight, WithZeros
      <4> QED
        BY <1>8, <2>1, <2>2, <2>5, <4>1, Zenon DEF CShown
    <3> QED
      BY <1>16, <2>4, <2>5, <3>1, Zenon DEF Spread
  <2>6. CASE ~ ToRight(d, w) /\ WithZeros(d, w, p)
    <3>1. CShown(d, w, p, n) =
            CSign(d, n) \o Times(48, Greater(0, Magnitude(w) - Len(CWhole(d, e, n)))) \o CDigits(d, n, e)
      BY <1>8, <2>1, <2>2, <2>6, Zenon DEF CShown
    <3> QED
      BY <1>10, <1>13, <1>16, <2>4, <2>6, <3>1, Zenon DEF Spread
  <2>7. CASE ~ ToRight(d, w) /\ ~ WithZeros(d, w, p)
    <3>1. CShown(d, w, p, n) = Times(32, Greater(0, Magnitude(w) - Len(CWhole(d, e, n)))) \o CWhole(d, e, n)
      BY <1>8, <2>1, <2>2, <2>7, Zenon DEF CShown
    <3> QED
      BY <1>16, <2>4, <2>7, <3>1, Zenon DEF Spread
  <2> QED
    BY <2>5, <2>6, <2>7, Zenon
<1>19. Total(d, fl, p, v) = Len(sign) + Greater(q, Len(body))
  BY <1>7, <1>14, Zenon DEF Total
<1> QED
  BY <1>2, <1>7, <1>14, <1>17, <1>18, <1>19, Zenon DEF Spreads

LEMMA WholeIs ==
  ASSUME NEW d, d.conv \in {"c", "s"}, NEW p \in Int, NEW v, NEW n, Means(d, v, n),
         d.conv = "s" => v \in {0} \cup DOMAIN Strings
  PROVE  /\ Cut(d, p, v) \in Seq(Int)
         /\ Cut(d, p, v) = IF d.conv = "c" THEN <<n>>
                           ELSE IF p < 0 THEN Body("s", n) ELSE SubSeq(Body("s", n), 1, Lesser(p, Len(Body("s", n))))
<1>1. CASE d.conv = "c"
  <2>1. Cut(d, p, v) = <<v % CHAR>>
    BY <1>1 DEF Cut, Body
  <2>2. n \in Int /\ v % CHAR = n
    BY <1>1 DEF Means
  <2> QED
    BY <1>1, <2>1, <2>2
<1>2. CASE d.conv = "s"
  <2>1. v = n
    BY <1>2 DEF Means
  <2>2. PICK b : b = Body("s", v)
    OBVIOUS
  <2>3. b \in Seq(Int)
    <3>1. CASE v = 0
      <4>1. b = <<40, 110, 117, 108, 108, 41>>
        BY <2>2, <3>1 DEF Body
      <4> QED
        BY <4>1
    <3>2. CASE v # 0
      <4>1. b = Strings[v] /\ v \in DOMAIN Strings
        BY <1>2, <2>2, <3>2 DEF Body
      <4>2. b \in Seq(Nat)
        BY <4>1, PrintfAssumption
      <4> QED
        BY <4>2
    <3> QED
      BY <3>1, <3>2
  <2>4. Cut(d, p, v) = IF p >= 0 THEN SubSeq(b, 1, Lesser(p, Len(b))) ELSE b
    BY <1>2, <2>2 DEF Cut
  <2>5. p >= 0 => SubSeq(b, 1, Lesser(p, Len(b))) \in Seq(Int)
    BY <2>3, LenProperties, SubSeqProperties DEF Lesser
  <2>6. p < 0 <=> ~ p >= 0
    OBVIOUS
  <2> QED
    BY <1>2, <2>1, <2>2, <2>3, <2>4, <2>5, <2>6, Zenon
<1> QED
  BY <1>1, <1>2

LEMMA FieldPlain ==
  ASSUME NEW d, d.conv \in {"c", "s"}, NEW w, InBounds(w), NEW p \in Int, Exact(d, p) <=> p >= 0,
         NEW v, NEW n, Means(d, v, n), d.conv = "s" => v \in {0} \cup DOMAIN Strings
  PROVE  /\ Field(d, w, p, v).chars = CShown(d, w, p, n)
         /\ CShown(d, w, p, n) \in Seq(Int)
         /\ Field(d, w, p, v).overflows <=> Len(CShown(d, w, p, n)) > MaxInt - cnt
<1>1. PICK fl : fl = FlagsOf(d, w, p)
  OBVIOUS
<1>2. /\ Field(d, w, p, v).chars = Padded(Before(d.conv, fl, v), Cut(d, p, v), AtLeast(d, fl, p, v), Magnitude(w), fl)
      /\ Field(d, w, p, v).overflows <=> Greater(Magnitude(w), Total(d, fl, p, v)) > MaxInt - cnt
      /\ Magnitude(w) \in Nat /\ w \in Int
  BY <1>1, FieldOpens, Zenon
<1>3. Sides(d, w, p, fl)
  BY <1>1, <1>2, FlagsAre, Zenon
<1>4. PICK whole : whole = Cut(d, p, v)
  OBVIOUS
<1>5. whole \in Seq(Int)
  BY <1>4, WholeIs
<1>6. ~ IsNumber(d.conv) /\ d.conv \notin {"d", "i", "x", "X", "p"}
  BY DEF IsNumber
<1>7. Before(d.conv, fl, v) = <<>> /\ AtLeast(d, fl, p, v) = Len(whole)
  BY <1>4, <1>6, Zenon DEF Before, AtLeast, Negative
<1>8. PICK room : room = Greater(0, Magnitude(w) - Len(whole))
  OBVIOUS
<1>9. PICK q \in Nat : q = Len(whole)
  BY <1>5, LenProperties
<1>10. /\ <<>> \in Seq(Int) /\ <<>> \o whole = whole
       /\ whole = Times(48, Greater(0, q - q)) \o whole /\ q = Greater(q, q)
  <2>1. Greater(0, q - q) = 0 /\ Greater(q, q) = q
    BY DEF Greater
  <2>2. Times(48, 0) = <<>>
    BY TimesIs
  <2> QED
    BY <1>5, <2>1, <2>2, WithNone
<1>11. Spreads(d, w, p, fl, <<>>, whole, q, Magnitude(w), whole, room)
  <2>1. whole = Times(48, Greater(0, q - Len(whole))) \o whole /\ Len(whole) = Greater(q, Len(whole))
    BY <1>9, <1>10
  <2>2. room = Greater(0, Magnitude(w) - Len(<<>> \o whole))
    BY <1>8, <1>10
  <2>3. q \in Int /\ p \in Int
    OBVIOUS
  <2> QED
    BY <1>2, <1>3, <1>5, <1>10, <2>1, <2>2, <2>3, SpreadIs, Zenon
<1>12. CShown(d, w, p, n) = Spread(d, w, p, <<>>, whole, room)
  <2>1. ToRight(d, w) <=> (w < 0 \/ "-" \in d.flags)
    BY DEF ToRight
  <2>2. ~ WithZeros(d, w, p)
    BY <1>6 DEF WithZeros
  <2>3. d.conv # "p" /\ (d.conv = "c" \/ (d.conv = "s" /\ d.conv # "c"))
    OBVIOUS
  <2>4. CShown(d, w, p, n) = IF ToRight(d, w) THEN whole \o Times(32, room) ELSE Times(32, room) \o whole
    <3>1. CASE d.conv = "c"
      <4>1. whole = <<n>>
        BY <1>4, <3>1, WholeIs
      <4>2. CPrecise(d, p) = p /\ CWhole(d, p, n) = whole
        BY <3>1, <4>1 DEF CPrecise, CWhole
      <4> QED
        BY <1>6, <1>8, <2>1, <4>2, Zenon DEF CShown
    <3>2. CASE d.conv = "s"
      <4>1. whole = IF p < 0 THEN Body("s", n) ELSE SubSeq(Body("s", n), 1, Lesser(p, Len(Body("s", n))))
        <5>1. d.conv # "c"
          BY <3>2
        <5> QED
          BY <1>4, <5>1, WholeIs
      <4>2. CPrecise(d, p) = p /\ CWhole(d, p, n) = whole
        BY <3>2, <4>1 DEF CPrecise, CWhole
      <4> QED
        BY <1>6, <1>8, <2>1, <4>2, Zenon DEF CShown
    <3> QED
      BY <3>1, <3>2
  <2> QED
    BY <1>10, <2>2, <2>4, Zenon DEF Spread
<1>13. Total(d, fl, p, v) = Len(<<>>) + Greater(q, Len(whole))
  BY <1>4, <1>7, <1>9, Zenon DEF Total
<1> QED
  BY <1>2, <1>4, <1>7, <1>9, <1>11, <1>12, <1>13, Zenon DEF Spreads

(* Whatever it is of, a field is what C says.                              *)
FieldShows(d, w, p, v, n) ==
  /\ Field(d, w, p, v).chars = CShown(d, w, p, n)
  /\ CShown(d, w, p, n) \in Seq(Int)
  /\ Field(d, w, p, v).overflows <=> Len(CShown(d, w, p, n)) > MaxInt - cnt

LEMMA FieldIs ==
  ASSUME NEW d \in Directive, Type(d) # None, d.conv # "n", NEW w, InBounds(w), NEW p \in Int,
         Exact(d, p) <=> p >= 0, NEW v, NEW n, Means(d, v, n), d.conv = "s" => v \in {0} \cup DOMAIN Strings
  PROVE  FieldShows(d, w, p, v, n)
<1>1. d.conv \in Numbers \/ d.conv \in {"c", "s"}
  BY TypeIs DEF Numbers
<1> QED
  BY <1>1, FieldNumber, FieldPlain DEF FieldShows
-----------------------------------------------------------------------------
(* What the items of a format print and take, one after another.           *)
IsConcat(f, parts) ==
  f = [j \in 0..Len(form) |-> IF j = 0 THEN <<>> ELSE f[j - 1] \o parts[j]]

LEMMA ConcatExists ==
  ASSUME Len(form) \in Nat, NEW parts
  PROVE  \E f : IsConcat(f, parts)
<1> DEFINE Is(f, n) == /\ f = [j \in 0..n |-> f[j]]
                       /\ \A j \in 0..n : f[j] = IF j = 0 THEN <<>> ELSE f[j - 1] \o parts[j]
           S == {n \in Nat : \E f : Is(f, n)}
<1>1. 0 \in S
  <2> DEFINE f == [j \in 0..0 |-> <<>>]
  <2>1. Is(f, 0)
    OBVIOUS
  <2> QED
    BY <2>1
<1>2. ASSUME NEW n \in Nat, n \in S PROVE n + 1 \in S
  <2>1. PICK f : Is(f, n)
    BY <1>2
  <2> DEFINE g == [j \in 0..(n + 1) |-> IF j = n + 1 THEN f[n] \o parts[j] ELSE f[j]]
  <2>2. g = [j \in 0..(n + 1) |-> g[j]]
    OBVIOUS
  <2>3. (\A j \in 0..n : g[j] = f[j]) /\ g[n + 1] = f[n] \o parts[n + 1]
    OBVIOUS
  <2> HIDE DEF g
  <2>4. ASSUME NEW j \in 0..(n + 1) PROVE g[j] = IF j = 0 THEN <<>> ELSE g[j - 1] \o parts[j]
    <3>1. CASE j = n + 1
      <4>1. (n + 1) - 1 = n /\ n \in 0..n /\ n + 1 # 0
        OBVIOUS
      <4> QED
        BY <2>3, <3>1, <4>1
    <3>2. CASE j # n + 1
      <4>1. j \in 0..n /\ (j # 0 => j - 1 \in 0..n)
        BY <3>2
      <4> QED
        BY <2>1, <2>3, <4>1
    <3> QED
      BY <3>1, <3>2
  <2>5. Is(g, n + 1) /\ n + 1 \in Nat
    BY <2>2, <2>4
  <2> QED
    BY <2>5, Zenon
<1>3. Nat \subseteq S
  <2> HIDE DEF S
  <2> QED
    BY <1>1, <1>2, Induction
<1>4. PICK f : Is(f, Len(form))
  BY <1>3
<1>5. f = [j \in 0..Len(form) |-> IF j = 0 THEN <<>> ELSE f[j - 1] \o parts[j]]
  BY <1>4
<1> QED
  BY <1>5 DEF IsConcat

LEMMA ConcatIs ==
  ASSUME Len(form) \in Nat, NEW parts
  PROVE  /\ Concat(parts)[0] = <<>>
         /\ \A j \in 1..Len(form) : Concat(parts)[j] = Concat(parts)[j - 1] \o parts[j]
<1> DEFINE f == CHOOSE g : IsConcat(g, parts)
<1>1. IsConcat(f, parts)
  BY ConcatExists, Zenon
<1>2. Concat(parts) = f
  BY DEF Concat, IsConcat
<1> HIDE DEF f
<1>3. \A j \in 0..Len(form) : f[j] = IF j = 0 THEN <<>> ELSE f[j - 1] \o parts[j]
  BY <1>1 DEF IsConcat
<1>4. 0 \in 0..Len(form) /\ \A j \in 1..Len(form) : j \in 0..Len(form) /\ j # 0
  OBVIOUS
<1> QED
  BY <1>2, <1>3, <1>4

(* Parts that are sequences of one kind make such a sequence, and a longer *)
(* one the more of them.                                                   *)
LEMMA ConcatTyped ==
  ASSUME Len(form) \in Nat, NEW parts, NEW T, \A j \in 1..Len(form) : parts[j] \in Seq(T)
  PROVE  /\ \A j \in 0..Len(form) : Concat(parts)[j] \in Seq(T) /\ Len(Concat(parts)[j]) \in Nat
         /\ \A j \in 1..Len(form) : Len(Concat(parts)[j]) = Len(Concat(parts)[j - 1]) + Len(parts[j])
<1> DEFINE C == Concat(parts)
           S == {n \in Nat : n \in 0..Len(form) => C[n] \in Seq(T)}
<1>1. C[0] = <<>> /\ \A j \in 1..Len(form) : C[j] = C[j - 1] \o parts[j]
  BY ConcatIs
<1> HIDE DEF C
<1>2. 0 \in S
  <2>1. C[0] \in Seq(T)
    BY <1>1, EmptySeq
  <2> QED
    BY <2>1
<1>3. ASSUME NEW n \in Nat, n \in S PROVE n + 1 \in S
  <2>1. CASE n + 1 \in 0..Len(form)
    <3>1. n + 1 \in 1..Len(form) /\ n \in 0..Len(form) /\ (n + 1) - 1 = n
      BY <2>1
    <3>2. C[n] \in Seq(T) /\ parts[n + 1] \in Seq(T) /\ C[n + 1] = C[n] \o parts[n + 1]
      BY <1>1, <1>3, <3>1
    <3>3. C[n + 1] \in Seq(T)
      BY <3>2, ConcatProperties
    <3> QED
      BY <3>3
  <2> QED
    BY <2>1
<1>4. Nat \subseteq S
  <2> HIDE DEF S
  <2> QED
    BY <1>2, <1>3, Induction
<1>5. \A j \in 0..Len(form) : C[j] \in Seq(T) /\ Len(C[j]) \in Nat
  BY <1>4, LenProperties
<1>6. ASSUME NEW j \in 1..Len(form) PROVE Len(C[j]) = Len(C[j - 1]) + Len(parts[j])
  <2>1. j - 1 \in 0..Len(form)
    OBVIOUS
  <2>2. C[j - 1] \in Seq(T) /\ parts[j] \in Seq(T) /\ C[j] = C[j - 1] \o parts[j]
    BY <1>1, <1>5, <2>1
  <2>3. Len(C[j - 1] \o parts[j]) = Len(C[j - 1]) + Len(parts[j])
    BY <2>2, ConcatProperties, Zenon
  <2> QED
    BY <2>2, <2>3
<1> QED
  BY <1>5, <1>6 DEF C

LEMMA ConcatGrows ==
  ASSUME Len(form) \in Nat, NEW parts, NEW T, \A j \in 1..Len(form) : parts[j] \in Seq(T),
         NEW j \in 0..Len(form)
  PROVE  Len(Concat(parts)[j]) <= Len(Concat(parts)[Len(form)])
<1> DEFINE l(k) == Len(Concat(parts)[k])
           S == {m \in Nat : j + m \in 0..Len(form) => l(j) <= l(j + m)}
<1>1. \A k \in 0..Len(form) : l(k) \in Nat
  BY ConcatTyped
<1>2. \A k \in 1..Len(form) : l(k) = l(k - 1) + Len(parts[k]) /\ Len(parts[k]) \in Nat
  BY ConcatTyped, LenProperties
<1> HIDE DEF l
<1>3. 0 \in S
  BY <1>1
<1>4. ASSUME NEW m \in Nat, m \in S PROVE m + 1 \in S
  <2>1. CASE j + (m + 1) \in 0..Len(form)
    <3>1. j + (m + 1) \in 1..Len(form) /\ j + m \in 0..Len(form) /\ (j + (m + 1)) - 1 = j + m
      BY <2>1
    <3>2. l(j) <= l(j + m) /\ l(j + (m + 1)) = l(j + m) + Len(parts[j + (m + 1)]) /\ Len(parts[j + (m + 1)]) \in Nat
      BY <1>2, <1>4, <3>1
    <3>3. l(j) <= l(j + (m + 1))
      BY <1>1, <3>1, <3>2
    <3> QED
      BY <3>3
  <2> QED
    BY <2>1
<1>5. Nat \subseteq S
  <2> HIDE DEF S
  <2> QED
    BY <1>3, <1>4, Induction
<1>6. Len(form) - j \in Nat /\ j + (Len(form) - j) = Len(form) /\ Len(form) \in 0..Len(form)
  OBVIOUS
<1>7. l(j) <= l(Len(form))
  BY <1>5, <1>6
<1> QED
  BY <1>7 DEF l

(* The slots before an item.                                               *)
IsFirst(f) ==
  f = [k \in 1..(Len(form) + 1) |->
         IF k = 1 THEN 0 ELSE f[k - 1] + (IF (k - 1) \in Dirs THEN InAll(form[k - 1]) ELSE 0)]

LEMMA FirstExists ==
  ASSUME Len(form) \in Nat
  PROVE  \E f : IsFirst(f)
<1> DEFINE Own(k) == IF k \in Dirs THEN InAll(form[k]) ELSE 0
           Is(f, n) == /\ f = [k \in 1..(n + 1) |-> f[k]]
                       /\ \A k \in 1..(n + 1) : f[k] = IF k = 1 THEN 0 ELSE f[k - 1] + Own(k - 1)
           S == {n \in Nat : \E f : Is(f, n)}
<1> HIDE DEF Own
<1>1. 0 \in S
  <2> DEFINE f == [k \in 1..1 |-> 0]
  <2>1. Is(f, 0)
    OBVIOUS
  <2> QED
    BY <2>1
<1>2. ASSUME NEW n \in Nat, n \in S PROVE n + 1 \in S
  <2>1. PICK f : Is(f, n)
    BY <1>2
  <2> DEFINE g == [k \in 1..(n + 2) |-> IF k = n + 2 THEN f[n + 1] + Own(n + 1) ELSE f[k]]
  <2>2. g = [k \in 1..(n + 2) |-> g[k]]
    OBVIOUS
  <2>3. (\A k \in 1..(n + 1) : g[k] = f[k]) /\ g[n + 2] = f[n + 1] + Own(n + 1)
    OBVIOUS
  <2> HIDE DEF g
  <2>4. ASSUME NEW k \in 1..(n + 2) PROVE g[k] = IF k = 1 THEN 0 ELSE g[k - 1] + Own(k - 1)
    <3>1. CASE k = n + 2
      <4>1. (n + 2) - 1 = n + 1 /\ n + 1 \in 1..(n + 1) /\ n + 2 # 1
        OBVIOUS
      <4> QED
        BY <2>3, <3>1, <4>1
    <3>2. CASE k # n + 2
      <4>1. k \in 1..(n + 1) /\ (k # 1 => k - 1 \in 1..(n + 1))
        BY <3>2
      <4> QED
        BY <2>1, <2>3, <4>1
    <3> QED
      BY <3>1, <3>2
  <2>5. PICK N : N = n + 2 /\ N = (n + 1) + 1
    OBVIOUS
  <2>6. Is(g, n + 1) /\ n + 1 \in Nat
    <3>1. g = [k \in 1..N |-> g[k]] /\ \A k \in 1..N : g[k] = IF k = 1 THEN 0 ELSE g[k - 1] + Own(k - 1)
      BY <2>2, <2>4, <2>5
    <3>2. n + 1 \in Nat
      OBVIOUS
    <3> QED
      BY <2>5, <3>1, <3>2, Zenon
  <2> QED
    BY <2>6, Zenon
<1>3. Nat \subseteq S
  <2> HIDE DEF S
  <2> QED
    BY <1>1, <1>2, Induction
<1>4. PICK f : Is(f, Len(form))
  BY <1>3
<1>5. f = [k \in 1..(Len(form) + 1) |-> IF k = 1 THEN 0 ELSE f[k - 1] + Own(k - 1)]
  BY <1>4
<1> QED
  BY <1>5 DEF IsFirst, Own

LEMMA SlotsBefore ==
  ASSUME Len(form) \in Nat
  PROVE  /\ FirstSlot[1] = 0
         /\ \A k \in 1..Len(form) :
              FirstSlot[k + 1] = FirstSlot[k] + (IF k \in Dirs THEN InAll(form[k]) ELSE 0)
<1> DEFINE f == CHOOSE g : IsFirst(g)
<1>1. IsFirst(f)
  BY FirstExists, Zenon
<1>2. FirstSlot = f
  BY DEF FirstSlot, IsFirst
<1> HIDE DEF f
<1> DEFINE Own(k) == IF k \in Dirs THEN InAll(form[k]) ELSE 0
<1>3. \A k \in 1..(Len(form) + 1) : f[k] = IF k = 1 THEN 0 ELSE f[k - 1] + Own(k - 1)
  BY <1>1 DEF IsFirst
<1> HIDE DEF Own
<1>4. 1 \in 1..(Len(form) + 1)
  OBVIOUS
<1>5. \A k \in 1..Len(form) : k + 1 \in 1..(Len(form) + 1) /\ k + 1 # 1 /\ (k + 1) - 1 = k
  OBVIOUS
<1>6. f[1] = 0 /\ \A k \in 1..Len(form) : f[k + 1] = f[k] + Own(k)
  BY <1>3, <1>4, <1>5
<1> QED
  BY <1>2, <1>6 DEF Own

(* A format and a call that C allows.                                      *)
Given == form \in Seq(Literal \cup Directive) /\ slots \in Seq(Slot)
Ordered ==
  (\A k \in Dirs : InOrderUse(form[k])) /\ FirstSlot[Len(form) + 1] <= Len(slots)
ByPosition ==
  /\ \A k \in Dirs : NamedUse(form[k])
  /\ \A a, b \in NamedTypes : a.pos = b.pos => a = b
  /\ \E n \in 0..Len(slots) : {a.pos : a \in NamedTypes} = 1..n
Legal == Given /\ Allowed

LEMMA AmountIs ==
  ASSUME NEW a \in Amount
  PROVE  /\ a.from \in {"none", "digits", "arg"}
         /\ a.from = "digits" => a.n \in Nat
         /\ a.from = "arg" => a.pos \in Position \cup {InOrder}
<1>1. CASE a \in [from : {"none"}]
  BY <1>1
<1>2. CASE a \in [from : {"digits"}, n : Nat]
  BY <1>2
<1>3. CASE a \in [from : {"arg"}, pos : Position \cup {InOrder}]
  BY <1>3
<1> QED
  BY <1>1, <1>2, <1>3 DEF Amount

LEMMA DirectiveIs ==
  ASSUME NEW d \in Directive
  PROVE  /\ d.width \in Amount /\ d.prec \in Amount /\ d.pos \in Position \cup {InOrder}
         /\ ~ IsText(d)
<1> HIDE DEF Amount
<1>1. d.width \in Amount /\ d.prec \in Amount /\ d.pos \in Position \cup {InOrder}
  BY DEF Directive
<1>2. DOMAIN d = {"pos", "flags", "width", "prec", "length", "conv"}
  BY DEF Directive
<1> QED
  BY <1>1, <1>2 DEF IsText

LEMMA LiteralIs ==
  ASSUME NEW t \in Literal
  PROVE  IsText(t) /\ t.text \in Seq(Int) /\ Len(t.text) \in Nat
<1>1. DOMAIN t = {"text"} /\ t.text \in Seq(Nat)
  BY DEF Literal
<1> QED
  BY <1>1, LenProperties DEF IsText

LEMMA ItemIs ==
  ASSUME Given
  PROVE  /\ Len(form) \in Nat /\ DOMAIN form = 1..Len(form)
         /\ \A k \in 1..Len(form) :
              /\ k \in Dirs <=> ~ IsText(form[k])
              /\ k \in Dirs => form[k] \in Directive
              /\ k \notin Dirs => form[k] \in Literal
         /\ \A k \in Dirs : k \in 1..Len(form)
<1>1. Len(form) \in Nat /\ DOMAIN form = 1..Len(form)
  BY LenProperties DEF Given
<1>2. \A k \in 1..Len(form) : form[k] \in Literal \cup Directive
  BY <1>1, ElementOfSeq DEF Given
<1>3. \A k \in 1..Len(form) : k \in Dirs <=> ~ IsText(form[k])
  BY <1>1 DEF Dirs
<1>4. \A x \in Literal \cup Directive : (x \in Literal /\ IsText(x)) \/ (x \in Directive /\ ~ IsText(x))
  BY LiteralIs, DirectiveIs
<1>5. \A k \in Dirs : k \in 1..Len(form)
  BY <1>1 DEF Dirs
<1> HIDE DEF Dirs, Literal, Directive, IsText
<1> QED
  BY <1>1, <1>2, <1>3, <1>4, <1>5

LEMMA Taking ==
  ASSUME NEW d
  PROVE  /\ InWidth(d) \in Nat /\ InAll(d) \in Nat /\ InWidth(d) <= InAll(d)
         /\ Star(d.width) => InWidth(d) = 1
         /\ Star(d.prec) => InWidth(d) + 1 <= InAll(d)
         /\ d.pos = InOrder => InAll(d) >= 1
BY DEF InAll, InAmounts, InWidth

LEMMA FirstGrows ==
  ASSUME Given, NEW k \in 1..Len(form)
  PROVE  /\ FirstSlot[k] \in Nat /\ FirstSlot[k + 1] \in Nat
         /\ FirstSlot[k + 1] <= FirstSlot[Len(form) + 1]
<1> DEFINE S == {n \in Nat : n \in 0..Len(form) => FirstSlot[n + 1] \in Nat}
           T == {m \in Nat : (k + 1) + m \in 1..(Len(form) + 1) => FirstSlot[k + 1] <= FirstSlot[(k + 1) + m]}
           Own(n) == IF n \in Dirs THEN InAll(form[n]) ELSE 0
<1>1. Len(form) \in Nat
  BY ItemIs
<1>2. \A n \in 1..Len(form) : FirstSlot[n + 1] = FirstSlot[n] + Own(n) /\ Own(n) \in Nat
  BY <1>1, SlotsBefore, Taking
<1> HIDE DEF Own
<1>3. 0 \in S
  BY <1>1, SlotsBefore
<1>4. ASSUME NEW n \in Nat, n \in S PROVE n + 1 \in S
  BY <1>2, <1>4
<1>5. Nat \subseteq S
  <2> HIDE DEF S
  <2> QED
    BY <1>3, <1>4, Induction
<1>6. \A n \in 0..Len(form) : FirstSlot[n + 1] \in Nat
  BY <1>1, <1>5
<1>7. \A n \in 1..(Len(form) + 1) : FirstSlot[n] \in Nat
  <2>1. \A n \in 1..(Len(form) + 1) : n - 1 \in 0..Len(form) /\ (n - 1) + 1 = n
    BY <1>1
  <2> QED
    BY <1>6, <2>1
<1>8. 0 \in T
  <2>1. (k + 1) + 0 = k + 1 /\ k + 1 \in 1..(Len(form) + 1)
    BY <1>1
  <2>2. FirstSlot[k + 1] \in Nat
    BY <1>7, <2>1
  <2> QED
    BY <2>1, <2>2
<1>9. ASSUME NEW m \in Nat, m \in T PROVE m + 1 \in T
  <2>1. CASE (k + 1) + (m + 1) \in 1..(Len(form) + 1)
    <3>1. PICK n : n = (k + 1) + m
      OBVIOUS
    <3>2. n \in 1..Len(form) /\ n \in 1..(Len(form) + 1) /\ (k + 1) + (m + 1) = n + 1
          /\ k + 1 \in 1..(Len(form) + 1)
      BY <1>1, <2>1, <3>1
    <3>3. FirstSlot[k + 1] <= FirstSlot[n] /\ FirstSlot[n + 1] = FirstSlot[n] + Own(n) /\ Own(n) \in Nat
      BY <1>2, <1>9, <3>1, <3>2
    <3>4. FirstSlot[k + 1] <= FirstSlot[n + 1]
      BY <1>7, <3>2, <3>3
    <3> QED
      BY <3>2, <3>4
  <2> QED
    BY <2>1
<1>10. Nat \subseteq T
  <2> HIDE DEF T
  <2> QED
    BY <1>8, <1>9, Induction
<1>11. FirstSlot[k + 1] <= FirstSlot[Len(form) + 1]
  <2>1. Len(form) - k \in Nat /\ (k + 1) + (Len(form) - k) = Len(form) + 1 /\ Len(form) + 1 \in 1..(Len(form) + 1)
    BY <1>1
  <2> QED
    BY <1>10, <2>1
<1>12. k \in 1..(Len(form) + 1) /\ k + 1 \in 1..(Len(form) + 1)
  BY <1>1
<1> QED
  BY <1>7, <1>11, <1>12

(* The slots a directive takes are there.                                  *)
LEMMA OrderedSlots ==
  ASSUME Given, Ordered, NEW k \in Dirs, NEW d, d = form[k]
  PROVE  /\ d.pos = InOrder /\ ~ Named(d.width) /\ ~ Named(d.prec)
         /\ FirstSlot[k] \in Nat /\ FirstSlot[k + 1] = FirstSlot[k] + InAll(d)
         /\ FirstSlot[k] + InAll(d) \in 1..Len(slots)
         /\ Star(d.width) => FirstSlot[k] + 1 \in 1..Len(slots)
         /\ Star(d.prec) => FirstSlot[k] + InWidth(d) + 1 \in 1..Len(slots)
<1>1. k \in 1..Len(form) /\ Len(form) \in Nat
  BY ItemIs
<1>2. d.pos = InOrder /\ ~ Named(d.width) /\ ~ Named(d.prec)
  BY DEF Ordered, InOrderUse
<1>3. FirstSlot[k + 1] = FirstSlot[k] + InAll(d)
  BY <1>1, SlotsBefore
<1>4. /\ FirstSlot[k] \in Nat /\ FirstSlot[k + 1] <= FirstSlot[Len(form) + 1]
      /\ FirstSlot[Len(form) + 1] \in Nat
  <2>1. Len(form) \in 1..Len(form)
    BY <1>1
  <2> QED
    BY <1>1, <2>1, FirstGrows
<1>5. FirstSlot[Len(form) + 1] <= Len(slots) /\ Len(slots) \in Nat
  BY LenProperties DEF Ordered, Given
<1>6. /\ InWidth(d) \in Nat /\ InAll(d) \in Nat /\ InWidth(d) <= InAll(d)
      /\ Star(d.width) => InWidth(d) = 1
      /\ Star(d.prec) => InWidth(d) + 1 <= InAll(d)
      /\ InAll(d) >= 1
  BY <1>2, Taking
<1>7. PICK f \in Nat : f = FirstSlot[k]
  BY <1>4
<1>8. f + InAll(d) <= Len(slots)
  BY <1>3, <1>4, <1>5, <1>6, <1>7
<1>9. f + InAll(d) \in 1..Len(slots)
  BY <1>5, <1>6, <1>8
<1>10. Star(d.width) => f + 1 \in 1..Len(slots)
  BY <1>5, <1>6, <1>8
<1>11. Star(d.prec) => f + InWidth(d) + 1 \in 1..Len(slots)
  <2>1. ASSUME Star(d.prec) PROVE f + InWidth(d) + 1 \in 1..Len(slots)
    BY <1>5, <1>6, <1>8, <2>1
  <2> QED
    BY <2>1
<1> QED
  BY <1>2, <1>3, <1>7, <1>9, <1>10, <1>11

LEMMA NamedSlots ==
  ASSUME Given, ByPosition, NEW k \in Dirs, NEW d, d = form[k]
  PROVE  /\ ~ Star(d.width) /\ ~ Star(d.prec)
         /\ d.pos \in 1..Len(slots) /\ d.pos # InOrder
         /\ Named(d.width) => d.width.pos \in 1..Len(slots)
         /\ Named(d.prec) => d.prec.pos \in 1..Len(slots)
         /\ [pos |-> d.pos, type |-> Type(d)] \in NamedTypes
         /\ Named(d.width) => [pos |-> d.width.pos, type |-> "INT"] \in NamedTypes
         /\ Named(d.prec) => [pos |-> d.prec.pos, type |-> "INT"] \in NamedTypes
<1>1. ~ Star(d.width) /\ ~ Star(d.prec) /\ d.pos > 0
  BY DEF ByPosition, NamedUse
<1>2. PICK n \in 0..Len(slots) : {a.pos : a \in NamedTypes} = 1..n
  BY DEF ByPosition
<1>3. \A a \in NamedTypes : a.pos \in 1..n
  BY <1>2
<1>4. Len(slots) \in Nat
  BY LenProperties DEF Given
<1>5. \A x \in 1..n : x \in 1..Len(slots)
  BY <1>4
<1>6. NamedAs(d) \subseteq NamedTypes
  BY DEF NamedTypes
<1>7. [pos |-> d.pos, type |-> Type(d)] \in NamedTypes
  BY <1>6 DEF NamedAs
<1>8. ASSUME NEW b \in {d.width, d.prec}, Named(b) PROVE [pos |-> b.pos, type |-> "INT"] \in NamedTypes
  <2>1. [pos |-> b.pos, type |-> "INT"] \in NamedAs(d)
    BY <1>8 DEF NamedAs
  <2> QED
    BY <1>6, <2>1
<1>9. d.pos \in 1..n
  BY <1>3, <1>7
<1>10. \A b \in {d.width, d.prec} : Named(b) => b.pos \in 1..n
  BY <1>3, <1>8
<1>11. d.pos # InOrder
  BY <1>9 DEF InOrder
<1> QED
  BY <1>1, <1>5, <1>7, <1>8, <1>9, <1>10, <1>11

LEMMA ReadIs ==
  ASSUME NEW s \in Slot
  PROVE  SignedRead(s, INT) \in Int /\ ToInt(PopArg("INT", s)) = SignedRead(s, INT)
<1>1. INT \in CTypes
  BY DEF CTypes
<1> QED
  BY <1>1, IntRead, SignedValue

(* What C means by a directive of such a call is in bounds.                *)
LEMMA CallIs ==
  ASSUME Legal, NEW k \in Dirs, NEW d, d = form[k]
  PROVE  /\ d \in Directive /\ Type(d) # None /\ CSlot(k) \in Slot
         /\ InBounds(CWidth(k)) /\ CPrec(k) \in Int /\ CPrec(k) <= MaxInt
         /\ Exact(d, CPrec(k)) <=> CPrec(k) >= 0
         /\ d.conv = "s" => CSlot(k) \in {0} \cup DOMAIN Strings
<1>1. Given /\ Allowed
  BY DEF Legal
<1>2. k \in 1..Len(form) /\ d \in Directive
  BY <1>1, ItemIs
<1>3. /\ Type(d) # None /\ InBounds(CWidth(k)) /\ CPrec(k) <= MaxInt
      /\ d.conv = "s" => CSlot(k) \in {0} \cup DOMAIN Strings
      /\ Ordered \/ ByPosition
  BY <1>1 DEF Allowed, InBounds, Ordered, ByPosition
<1>4. \A x \in 1..Len(slots) : slots[x] \in Slot
  BY <1>1, ElementOfSeq DEF Given
<1>5. CSlot(k) \in Slot
  <2>1. CASE Ordered
    <3>1. d.pos = InOrder /\ FirstSlot[k] + InAll(d) \in 1..Len(slots)
      BY <1>1, <2>1, OrderedSlots
    <3> QED
      BY <1>4, <3>1 DEF CSlot
  <2>2. CASE ByPosition
    <3>1. d.pos # InOrder /\ d.pos \in 1..Len(slots)
      BY <1>1, <2>2, NamedSlots
    <3> QED
      BY <1>4, <3>1 DEF CSlot
  <2> QED
    BY <1>3, <2>1, <2>2
<1>6. /\ d.prec.from \in {"none", "digits", "arg"}
      /\ d.prec.from = "digits" => d.prec.n \in Nat
  BY <1>2, DirectiveIs, AmountIs
<1>7. CASE d.prec.from = "none"
  <2>1. CPrec(k) = -1
    BY <1>7, Zenon DEF CPrec, Star, Named
  <2>2. ~ Exact(d, CPrec(k))
    BY <1>7 DEF Exact
  <2> QED
    BY <1>2, <1>3, <1>5, <2>1, <2>2
<1>8. CASE d.prec.from = "digits"
  <2>1. CPrec(k) = d.prec.n
    BY <1>8, Zenon DEF CPrec, Star, Named
  <2>2. Exact(d, CPrec(k))
    BY <1>8 DEF Exact
  <2>3. CPrec(k) \in Nat
    BY <1>6, <1>8, <2>1
  <2> QED
    BY <1>2, <1>3, <1>5, <2>2, <2>3
<1>9. CASE d.prec.from = "arg"
  <2>1. CPrec(k) \in Int
    <3>1. CASE Star(d.prec)
      <4>1. Ordered
        BY <1>1, <1>3, <3>1, NamedSlots
      <4>2. slots[FirstSlot[k] + InWidth(d) + 1] \in Slot
        BY <1>1, <1>4, <3>1, <4>1, OrderedSlots
      <4>3. CPrec(k) = SignedRead(slots[FirstSlot[k] + InWidth(d) + 1], INT)
        BY <1>9, <3>1, Zenon DEF CPrec, Star, Named
      <4> QED
        BY <4>2, <4>3, ReadIs
    <3>2. CASE ~ Star(d.prec)
      <4>1. Named(d.prec)
        BY <1>9, <3>2 DEF Star, Named
      <4>2. ByPosition
        BY <1>1, <1>3, <4>1, OrderedSlots
      <4>3. slots[d.prec.pos] \in Slot
        BY <1>1, <1>4, <4>1, <4>2, NamedSlots
      <4>4. CPrec(k) = SignedRead(slots[d.prec.pos], INT)
        BY <1>9, <3>2, <4>1, Zenon DEF CPrec, Star, Named
      <4> QED
        BY <4>3, <4>4, ReadIs
    <3> QED
      BY <3>1, <3>2
  <2>2. Exact(d, CPrec(k)) <=> CPrec(k) >= 0
    BY <1>9 DEF Exact
  <2> QED
    BY <1>2, <1>3, <1>5, <2>1, <2>2
<1> QED
  BY <1>6, <1>7, <1>8, <1>9

(* Of such a call every item shows characters.                             *)
LEMMA ShowsIs ==
  ASSUME Legal, NEW k \in 1..Len(form)
  PROVE  /\ Shows(k) \in Seq(Int) /\ Len(Shows(k)) \in Nat
         /\ k \in Dirs /\ form[k].conv # "n" => Shows(k) = CField(k)
         /\ k \in Dirs /\ form[k].conv = "n" => Shows(k) = <<>>
         /\ k \notin Dirs => Shows(k) = form[k].text
<1>1. Given
  BY DEF Legal
<1>2. k \in Dirs <=> ~ IsText(form[k])
  BY <1>1, ItemIs
<1>3. CASE k \in Dirs /\ form[k].conv # "n"
  <2>1. PICK d : d = form[k]
    OBVIOUS
  <2>2. /\ d \in Directive /\ Type(d) # None /\ CSlot(k) \in Slot
        /\ InBounds(CWidth(k)) /\ CPrec(k) \in Int
        /\ Exact(d, CPrec(k)) <=> CPrec(k) >= 0
        /\ d.conv = "s" => CSlot(k) \in {0} \cup DOMAIN Strings
    BY <1>3, <2>1, CallIs
  <2>3. PICK v : v = PopArg(Type(d), CSlot(k))
    OBVIOUS
  <2>4. Means(d, v, CValue(d, CSlot(k))) /\ (d.conv = "s" => v = CSlot(k))
    BY <2>2, <2>3, PopMeans
  <2>5. CShown(d, CWidth(k), CPrec(k), CValue(d, CSlot(k))) \in Seq(Int)
    <3>1. d.conv # "n" /\ (d.conv = "s" => v \in {0} \cup DOMAIN Strings)
      BY <1>3, <2>1, <2>2, <2>4
    <3>2. FieldShows(d, CWidth(k), CPrec(k), v, CValue(d, CSlot(k)))
      BY <2>2, <2>4, <3>1, FieldIs, Zenon
    <3> QED
      BY <3>2, Zenon DEF FieldShows
  <2>6. Shows(k) = CField(k) /\ CField(k) \in Seq(Int)
    BY <1>2, <1>3, <2>1, <2>5 DEF Shows, CField
  <2> QED
    BY <1>3, <2>6, LenProperties
<1>4. CASE k \in Dirs /\ form[k].conv = "n"
  <2>1. Shows(k) = <<>>
    BY <1>2, <1>4 DEF Shows
  <2> QED
    BY <1>4, <2>1, EmptySeq, LenProperties
<1>5. CASE k \notin Dirs
  <2>1. Shows(k) = form[k].text
    BY <1>2, <1>5 DEF Shows
  <2>2. form[k] \in Literal
    BY <1>1, <1>5, ItemIs
  <2> QED
    BY <1>5, <2>1, <2>2, LiteralIs
<1> QED
  BY <1>3, <1>4, <1>5

LEMMA PrintoutIs ==
  ASSUME Legal
  PROVE  /\ Printout(0) = <<>> /\ Len(form) \in Nat
         /\ \A k \in 0..Len(form) : /\ Printout(k) \in Seq(Int) /\ Len(Printout(k)) \in Nat
                                    /\ Len(Printout(k)) <= Len(Printout(Len(form)))
         /\ \A k \in 1..Len(form) : /\ Printout(k) = Printout(k - 1) \o Shows(k)
                                    /\ Len(Printout(k)) = Len(Printout(k - 1)) + Len(Shows(k))
<1>1. Len(form) \in Nat /\ DOMAIN form = 1..Len(form)
  BY ItemIs DEF Legal
<1> DEFINE parts == [j \in DOMAIN form |-> Shows(j)]
<1>2. \A j \in 1..Len(form) : parts[j] = Shows(j)
  BY <1>1
<1>3. \A k : Printout(k) = Concat(parts)[k]
  BY DEF Printout
<1> HIDE DEF parts
<1>4. \A j \in 1..Len(form) : parts[j] \in Seq(Int)
  BY <1>2, ShowsIs
<1>5. /\ Concat(parts)[0] = <<>>
      /\ \A j \in 1..Len(form) : Concat(parts)[j] = Concat(parts)[j - 1] \o parts[j]
  BY <1>1, ConcatIs
<1>6. /\ \A j \in 0..Len(form) : Concat(parts)[j] \in Seq(Int) /\ Len(Concat(parts)[j]) \in Nat
      /\ \A j \in 1..Len(form) : Len(Concat(parts)[j]) = Len(Concat(parts)[j - 1]) + Len(parts[j])
  BY <1>1, <1>4, ConcatTyped
<1>7. \A j \in 0..Len(form) : Len(Concat(parts)[j]) <= Len(Concat(parts)[Len(form)])
  BY <1>1, <1>4, ConcatGrows
<1> QED
  BY <1>1, <1>2, <1>3, <1>5, <1>6, <1>7

(* What %n has stored by an item.                                          *)
PStored == [to : Slot, type : Int, value : Int]
CCalled == [to : Slot, count : Int, type : Int]
Matching(ss, cc) ==
  /\ Len(ss) = Len(cc)
  /\ \A j \in 1..Len(ss) :
       ss[j].to = cc[j].to /\ ss[j].type = cc[j].type /\ ss[j].value = cc[j].count % cc[j].type
StoresBy(k) == Concat([j \in DOMAIN form |-> CStore(j)])[k]

LEMMA OneMore ==
  ASSUME NEW T, NEW U, NEW ss \in Seq(T), NEW cc \in Seq(U), Matching(ss, cc),
         NEW s \in T, NEW c \in U, s.to = c.to, s.type = c.type, s.value = c.count % c.type
  PROVE  Matching(ss \o <<s>>, cc \o <<c>>)
<1>1. /\ Len(ss \o <<s>>) = Len(ss) + 1 /\ (ss \o <<s>>)[Len(ss) + 1] = s
      /\ \A j \in 1..Len(ss) : (ss \o <<s>>)[j] = ss[j]
  OBVIOUS
<1>2. /\ Len(cc \o <<c>>) = Len(cc) + 1 /\ (cc \o <<c>>)[Len(cc) + 1] = c
      /\ \A j \in 1..Len(cc) : (cc \o <<c>>)[j] = cc[j]
  OBVIOUS
<1>3. Len(ss) = Len(cc) /\ Len(ss) \in Nat
  BY LenProperties DEF Matching
<1>4. ASSUME NEW j \in 1..(Len(ss) + 1)
      PROVE  /\ (ss \o <<s>>)[j].to = (cc \o <<c>>)[j].to
             /\ (ss \o <<s>>)[j].type = (cc \o <<c>>)[j].type
             /\ (ss \o <<s>>)[j].value = (cc \o <<c>>)[j].count % (cc \o <<c>>)[j].type
  <2>1. CASE j = Len(ss) + 1
    BY <1>1, <1>2, <1>3, <2>1
  <2>2. CASE j # Len(ss) + 1
    <3>1. j \in 1..Len(ss) /\ j \in 1..Len(cc)
      BY <1>3, <2>2
    <3>2. ss[j].to = cc[j].to /\ ss[j].type = cc[j].type /\ ss[j].value = cc[j].count % cc[j].type
      BY <3>1 DEF Matching
    <3> QED
      BY <1>1, <1>2, <3>1, <3>2
  <2> QED
    BY <2>1, <2>2
<1> HIDE DEF Matching
<1>5. Len(ss \o <<s>>) = Len(ss) + 1 /\ Len(ss \o <<s>>) = Len(cc \o <<c>>)
  BY <1>1, <1>2, <1>3
<1> QED
  BY <1>4, <1>5, Zenon DEF Matching

LEMMA StoredTyped == \A length : CStored(length) \in Int
<1>1. CHAR \in Int /\ SHORT \in Int /\ INT \in Int /\ LLONG \in Int
  BY TypesEven DEF CTypes
<1>2. \A length : CStored(length) \in {CHAR, SHORT, INT, LLONG}
  BY Zenon DEF CStored, CInteger
<1> QED
  BY <1>1, <1>2

LEMMA StoresAre ==
  ASSUME Legal
  PROVE  /\ StoresBy(0) = <<>> /\ CStores = StoresBy(Len(form))
         /\ \A k \in 0..Len(form) : StoresBy(k) \in Seq(CCalled)
         /\ \A k \in 1..Len(form) : StoresBy(k) = StoresBy(k - 1) \o CStore(k)
<1>1. Len(form) \in Nat /\ DOMAIN form = 1..Len(form) /\ \A k \in Dirs : k \in 1..Len(form)
  BY ItemIs DEF Legal
<1> DEFINE parts == [j \in DOMAIN form |-> CStore(j)]
<1>2. \A j \in 1..Len(form) : parts[j] = CStore(j)
  BY <1>1
<1>3. \A k : StoresBy(k) = Concat(parts)[k]
  BY DEF StoresBy
<1>4. CStores = Concat(parts)[Len(form)]
  BY DEF CStores
<1> HIDE DEF parts
<1>5. ASSUME NEW j \in 1..Len(form) PROVE parts[j] \in Seq(CCalled)
  <2>1. CASE j \in Dirs
    <3>1. CSlot(j) \in Slot
      BY <2>1, CallIs
    <3>2. Len(Printout(j)) \in Int
      BY <1>1, PrintoutIs
    <3>6. CStored(form[j].length) \in Int
      BY StoredTyped
    <3>3. PICK c \in CCalled : c = [to |-> CSlot(j), count |-> Len(Printout(j)),
                                   type |-> CStored(form[j].length)]
      BY <3>1, <3>2, <3>6 DEF CCalled
    <3>4. <<c>> \in Seq(CCalled) /\ <<>> \in Seq(CCalled)
      BY EmptySeq
    <3>5. CStore(j) = <<c>> \/ CStore(j) = <<>>
      BY <3>3, Zenon DEF CStore
    <3> QED
      BY <1>2, <3>4, <3>5
  <2>2. CASE j \notin Dirs
    <3>1. CStore(j) = <<>>
      BY <2>2 DEF CStore
    <3> QED
      BY <1>2, <3>1, EmptySeq
  <2> QED
    BY <2>1, <2>2
<1>6. /\ Concat(parts)[0] = <<>>
      /\ \A j \in 1..Len(form) : Concat(parts)[j] = Concat(parts)[j - 1] \o parts[j]
  BY <1>1, ConcatIs
<1>7. \A j \in 0..Len(form) : Concat(parts)[j] \in Seq(CCalled)
  BY <1>1, <1>5, ConcatTyped
<1> QED
  BY <1>2, <1>3, <1>4, <1>6, <1>7

(* What the passes know of the slots: in order, how many are used; by      *)
(* position, the arguments.                                                *)
InTurn == Ordered => ~ l10n /\ used = FirstSlot[item]
Placed == ByPosition => \A a \in NamedTypes : nlArg[a.pos] = PopArg(a.type, slots[a.pos])

LEMMA NotRefused ==
  ASSUME Legal, NEW k \in Dirs, NEW d, d = form[k], Ordered => ~ l10n
  PROVE  ~ Refused(d)
<1>1. /\ d \in Directive /\ Type(d) # None /\ InBounds(CWidth(k)) /\ Given
      /\ Ordered \/ ByPosition
  BY CallIs DEF Legal, Allowed, Ordered, ByPosition
<1>2. ~ (d.width.from = "digits" /\ d.width.n > MaxInt)
  <2>1. ASSUME d.width.from = "digits" PROVE ~ d.width.n > MaxInt
    <3>1. CWidth(k) = d.width.n
      BY <2>1, Zenon DEF CWidth, Star, Named
    <3> QED
      BY <1>1, <3>1, MaxIntIs DEF InBounds
  <2> QED
    BY <2>1
<1>3. ~ (Star(d.width) /\ Named1(d)) /\ ~ (Star(d.prec) /\ Named2(d))
  <2>1. CASE Ordered
    <3>1. d.pos = InOrder /\ ~ Named(d.width)
      BY <1>1, <2>1, OrderedSlots
    <3> QED
      BY <2>1, <3>1 DEF Named1, Named2
  <2>2. CASE ByPosition
    BY <1>1, <2>2, NamedSlots
  <2> QED
    BY <1>1, <2>1, <2>2
<1> QED
  BY <1>1, <1>2, <1>3 DEF Refused

(* An int that a width or a precision takes.                               *)
LEMMA IntsIs ==
  ASSUME NEW a, a.from = "arg", NEW m, NEW s \in Slot,
         Star(a) => m \in DOMAIN slots /\ slots[m] = s,
         ~ Star(a) => nlArg[a.pos] = PopArg("INT", s)
  PROVE  Ints(a, m) = {SignedRead(s, INT)}
<1>1. ToInt(PopArg("INT", s)) = SignedRead(s, INT)
  BY ReadIs
<1>2. CASE Star(a)
  <2>1. Ints(a, m) = {ToInt(x) : x \in Pops("INT", m)}
    BY <1>2, Zenon DEF Ints, Named, Star
  <2>2. Pops("INT", m) = {PopArg("INT", s)}
    BY <1>2 DEF Pops
  <2> QED
    BY <1>1, <2>1, <2>2
<1>3. CASE ~ Star(a)
  <2>1. Named(a)
    BY <1>3 DEF Named, Star
  <2>2. Ints(a, m) = {ToInt(nlArg[a.pos])}
    BY <1>3, <2>1, Zenon DEF Ints
  <2> QED
    BY <1>1, <1>3, <2>2
<1> QED
  BY <1>2, <1>3

LEMMA WidthsAre ==
  ASSUME Legal, InTurn, Placed, item \in Dirs, NEW d, d = form[item]
  PROVE  Widths(d) = {CWidth(item)}
<1>1. /\ d \in Directive /\ InBounds(CWidth(item)) /\ Given /\ item \in 1..Len(form)
      /\ Ordered \/ ByPosition
  BY CallIs, ItemIs DEF Legal, Allowed, Ordered, ByPosition
<1>2. d.width.from \in {"none", "digits", "arg"}
  BY <1>1, DirectiveIs, AmountIs
<1>3. \A x \in 1..Len(slots) : slots[x] \in Slot /\ x \in DOMAIN slots
  BY <1>1, ElementOfSeq, LenProperties DEF Given
<1>4. CASE d.width.from = "none"
  BY <1>4, Zenon DEF Widths, CWidth, Star, Named
<1>5. CASE d.width.from = "digits"
  <2>1. CWidth(item) = d.width.n
    BY <1>5, Zenon DEF CWidth, Star, Named
  <2>2. d.width.n <= MaxInt
    BY <1>1, <2>1, MaxIntIs DEF InBounds
  <2> QED
    BY <1>5, <2>1, <2>2, Zenon DEF Widths, Ints, Star, Named
<1>6. CASE d.width.from = "arg"
  <2>1. Widths(d) = Ints(d.width, used + 1)
    BY <1>6 DEF Widths
  <2>2. CASE Star(d.width)
    <3>1. Ordered
      BY <1>1, <2>2, NamedSlots
    <3>2. used = FirstSlot[item] /\ FirstSlot[item] + 1 \in 1..Len(slots)
      BY <1>1, <2>2, <3>1, OrderedSlots DEF InTurn
    <3>3. PICK s \in Slot : s = slots[FirstSlot[item] + 1] /\ FirstSlot[item] + 1 \in DOMAIN slots
      BY <1>3, <3>2
    <3>4. CWidth(item) = SignedRead(s, INT)
      BY <1>6, <2>2, <3>3, Zenon DEF CWidth, Star, Named
    <3>5. Ints(d.width, used + 1) = {SignedRead(s, INT)}
      BY <1>6, <2>2, <3>2, <3>3, IntsIs
    <3> QED
      BY <2>1, <3>4, <3>5
  <2>3. CASE ~ Star(d.width)
    <3>1. Named(d.width)
      BY <1>6, <2>3 DEF Star, Named
    <3>2. ByPosition
      BY <1>1, <3>1, OrderedSlots
    <3>3. d.width.pos \in 1..Len(slots) /\ [pos |-> d.width.pos, type |-> "INT"] \in NamedTypes
      BY <1>1, <3>1, <3>2, NamedSlots
    <3>4. PICK s \in Slot : s = slots[d.width.pos] /\ nlArg[d.width.pos] = PopArg("INT", s)
      BY <1>3, <3>2, <3>3 DEF Placed
    <3>5. CWidth(item) = SignedRead(s, INT)
      BY <1>6, <2>3, <3>1, <3>4, Zenon DEF CWidth, Star, Named
    <3>6. Ints(d.width, used + 1) = {SignedRead(s, INT)}
      BY <1>6, <2>3, <3>4, IntsIs
    <3> QED
      BY <2>1, <3>5, <3>6
  <2> QED
    BY <2>2, <2>3
<1> QED
  BY <1>2, <1>4, <1>5, <1>6

LEMMA PrecsAre ==
  ASSUME Legal, InTurn, Placed, item \in Dirs, NEW d, d = form[item]
  PROVE  Precs(d) = {CPrec(item)}
<1>1. /\ d \in Directive /\ CPrec(item) <= MaxInt /\ Given /\ item \in 1..Len(form)
      /\ Ordered \/ ByPosition
  BY CallIs, ItemIs DEF Legal, Allowed, Ordered, ByPosition
<1>2. d.prec.from \in {"none", "digits", "arg"}
  BY <1>1, DirectiveIs, AmountIs
<1>3. \A x \in 1..Len(slots) : slots[x] \in Slot /\ x \in DOMAIN slots
  BY <1>1, ElementOfSeq, LenProperties DEF Given
<1>4. Precs(d) = Ints(d.prec, used + InWidth(d) + 1)
  BY DEF Precs
<1>5. CASE d.prec.from = "none"
  BY <1>4, <1>5, Zenon DEF Ints, CPrec, Star, Named
<1>6. CASE d.prec.from = "digits"
  <2>1. CPrec(item) = d.prec.n
    BY <1>6, Zenon DEF CPrec, Star, Named
  <2>2. d.prec.n <= MaxInt
    BY <1>1, <2>1
  <2> QED
    BY <1>4, <1>6, <2>1, <2>2, Zenon DEF Ints, Star, Named
<1>7. CASE d.prec.from = "arg"
  <2>1. CASE Star(d.prec)
    <3>1. Ordered
      BY <1>1, <2>1, NamedSlots
    <3>2. used = FirstSlot[item] /\ FirstSlot[item] + InWidth(d) + 1 \in 1..Len(slots)
      BY <1>1, <2>1, <3>1, OrderedSlots DEF InTurn
    <3>3. PICK s \in Slot : /\ s = slots[FirstSlot[item] + InWidth(d) + 1]
                            /\ FirstSlot[item] + InWidth(d) + 1 \in DOMAIN slots
      BY <1>3, <3>2
    <3>4. CPrec(item) = SignedRead(s, INT)
      BY <1>7, <2>1, <3>3, Zenon DEF CPrec, Star, Named
    <3>5. Ints(d.prec, used + InWidth(d) + 1) = {SignedRead(s, INT)}
      BY <1>7, <2>1, <3>2, <3>3, IntsIs
    <3> QED
      BY <1>4, <3>4, <3>5
  <2>2. CASE ~ Star(d.prec)
    <3>1. Named(d.prec)
      BY <1>7, <2>2 DEF Star, Named
    <3>2. ByPosition
      BY <1>1, <3>1, OrderedSlots
    <3>3. d.prec.pos \in 1..Len(slots) /\ [pos |-> d.prec.pos, type |-> "INT"] \in NamedTypes
      BY <1>1, <3>1, <3>2, NamedSlots
    <3>4. PICK s \in Slot : s = slots[d.prec.pos] /\ nlArg[d.prec.pos] = PopArg("INT", s)
      BY <1>3, <3>2, <3>3 DEF Placed
    <3>5. CPrec(item) = SignedRead(s, INT)
      BY <1>7, <2>2, <3>1, <3>4, Zenon DEF CPrec, Star, Named
    <3>6. Ints(d.prec, used + InWidth(d) + 1) = {SignedRead(s, INT)}
      BY <1>7, <2>2, <3>4, IntsIs
    <3> QED
      BY <1>4, <3>5, <3>6
  <2> QED
    BY <2>1, <2>2
<1> QED
  BY <1>2, <1>5, <1>6, <1>7

LEMMA ValuesAre ==
  ASSUME Legal, InTurn, Placed, item \in Dirs, NEW d, d = form[item]
  PROVE  Values(d) = {PopArg(Type(d), CSlot(item))}
<1>1. Given /\ (Ordered \/ ByPosition)
  BY DEF Legal, Allowed, Ordered, ByPosition
<1>2. \A x \in 1..Len(slots) : x \in DOMAIN slots
  BY <1>1, LenProperties DEF Given
<1>3. CASE Ordered
  <2>1. d.pos = InOrder /\ used = FirstSlot[item] /\ FirstSlot[item] + InAll(d) \in 1..Len(slots)
    BY <1>1, <1>3, OrderedSlots DEF InTurn
  <2>2. CSlot(item) = slots[used + InAll(d)]
    BY <2>1 DEF CSlot
  <2>3. Values(d) = Pops(Type(d), used + InAll(d))
    BY <2>1 DEF Values
  <2>4. Pops(Type(d), used + InAll(d)) = {PopArg(Type(d), slots[used + InAll(d)])}
    BY <1>2, <2>1 DEF Pops
  <2> QED
    BY <2>2, <2>3, <2>4
<1>4. CASE ByPosition
  <2>1. d.pos # InOrder /\ [pos |-> d.pos, type |-> Type(d)] \in NamedTypes
    BY <1>1, <1>4, NamedSlots
  <2>2. CSlot(item) = slots[d.pos]
    BY <2>1 DEF CSlot
  <2>3. nlArg[d.pos] = PopArg(Type(d), slots[d.pos])
    BY <1>4, <2>1 DEF Placed
  <2>4. Values(d) = {nlArg[d.pos]}
    BY <2>1 DEF Values
  <2> QED
    BY <2>2, <2>3, <2>4
<1> QED
  BY <1>1, <1>3, <1>4
-----------------------------------------------------------------------------
(* The invariant.  In the first pass, l10n tells whether a directive came, *)
(* and none so far took its argument in order; nlType has the types that   *)
(* the directives so far give to positions.                                *)
TypesNoted ==
  \A x \in Position :
    /\ \A k \in Dirs : k < item => \A a \in NamedAs(form[k]) : a.pos = x => nlType[x] = a.type
    /\ (\A k \in Dirs : k < item => \A a \in NamedAs(form[k]) : a.pos # x) => nlType[x] = None

FirstPass ==
  /\ out = <<>> /\ stores = <<>> /\ used = 0 /\ ret = 0
  /\ l10n <=> \E k \in Dirs : k < item
  /\ \A k \in Dirs : k < item => form[k].pos # InOrder /\ Type(form[k]) # None
  /\ Allowed => cnt \in Nat /\ cnt <= Len(Printout(item - 1)) /\ (ByPosition => TypesNoted)

(* In the second, what is printed and stored is what C prints and stores   *)
(* of the items so far.                                                    *)
SecondPass ==
  /\ out = Printout(item - 1) /\ cnt = Len(out) /\ cnt <= MaxInt
  /\ stores \in Seq(PStored) /\ Matching(stores, StoresBy(item - 1))
  /\ InTurn /\ Placed

Sorted == (\E k \in Dirs : form[k].pos = InOrder) \/ (\A k \in Dirs : Type(form[k]) # None)

PrintfInv ==
  /\ form \in Forms /\ slots \in SlotLists
  /\ pass \in {"types", "print", "done", "lost"} /\ item \in 1..(Len(form) + 1)
  /\ pass = "types" => FirstPass
  /\ pass = "print" => ret = 0 /\ Sorted /\ (Allowed => SecondPass)
  /\ pass = "lost" => ~ Allowed
  /\ PrintedExactly /\ RefusedFirst

LEMMA SameCall ==
  ASSUME form' = form, slots' = slots
  PROVE  /\ (Allowed' <=> Allowed) /\ (Ordered' <=> Ordered) /\ (ByPosition' <=> ByPosition)
         /\ Dirs' = Dirs /\ FirstSlot' = FirstSlot /\ NamedTypes' = NamedTypes /\ CStores' = CStores
         /\ (Sorted' <=> Sorted)
         /\ \A k : Printout(k)' = Printout(k) /\ StoresBy(k)' = StoresBy(k)
<1>1. Dirs' = Dirs
  BY DEF Dirs
<1>2. FirstSlot' = FirstSlot
  BY <1>1 DEF FirstSlot
<1>3. NamedTypes' = NamedTypes
  BY <1>1 DEF NamedTypes
<1>4. \A k : CWidth(k)' = CWidth(k) /\ CPrec(k)' = CPrec(k) /\ CSlot(k)' = CSlot(k)
  BY <1>2 DEF CWidth, CPrec, CSlot
<1>5. (Ordered' <=> Ordered) /\ (ByPosition' <=> ByPosition)
  BY <1>1, <1>2, <1>3 DEF Ordered, ByPosition
<1>6. Allowed' <=> Allowed
  BY <1>1, <1>2, <1>3, <1>4 DEF Allowed
<1>7. \A k : CField(k)' = CField(k)
  BY <1>4 DEF CField
<1>8. \A k : Shows(k)' = Shows(k)
  BY <1>7 DEF Shows
<1>9. \A k : Printout(k)' = Printout(k)
  <2>1. \A parts : Concat(parts)' = Concat(parts)
    BY DEF Concat
  <2>2. [j \in DOMAIN form |-> Shows(j)]' = [j \in DOMAIN form |-> Shows(j)]
    BY <1>8
  <2> QED
    BY <2>1, <2>2 DEF Printout
<1>10. \A k : CStore(k)' = CStore(k)
  BY <1>1, <1>4, <1>9 DEF CStore
<1>11. CStores' = CStores /\ \A k : StoresBy(k)' = StoresBy(k)
  <2>1. \A parts : Concat(parts)' = Concat(parts)
    BY DEF Concat
  <2>2. [j \in DOMAIN form |-> CStore(j)]' = [j \in DOMAIN form |-> CStore(j)]
    BY <1>10
  <2> QED
    BY <2>1, <2>2 DEF CStores, StoresBy
<1>12. Sorted' <=> Sorted
  BY <1>1 DEF Sorted
<1> QED
  BY <1>1, <1>2, <1>3, <1>5, <1>6, <1>9, <1>11, <1>12

LEMMA InvGives ==
  ASSUME PrintfInv
  PROVE  /\ Given /\ Len(form) \in Nat /\ item \in Nat /\ item >= 1 /\ item <= Len(form) + 1
         /\ Allowed => Legal
         /\ \A k \in Dirs : k \in 1..Len(form)
<1>1. Given
  BY PrintfAssumption DEF PrintfInv, Given
<1>2. Len(form) \in Nat /\ \A k \in Dirs : k \in 1..Len(form)
  BY <1>1, ItemIs
<1>3. item \in 1..(Len(form) + 1)
  BY DEF PrintfInv
<1> QED
  BY <1>1, <1>2, <1>3 DEF Legal

LEMMA FailKeeps ==
  ASSUME PrintfInv, pass \in {"types", "print"}, Fail,
         Allowed => Len(Printout(Len(form))) > MaxInt
  PROVE  PrintfInv'
<1>1. form' = form /\ slots' = slots /\ item' = item /\ out' = out /\ ret' = -1 /\ pass' = "done"
  BY DEF Fail
<1>2. (Allowed' <=> Allowed) /\ Printout(Len(form))' = Printout(Len(form)) /\ (Sorted' <=> Sorted)
  BY <1>1, SameCall
<1>3. PrintedExactly'
  BY <1>1, <1>2, Zenon DEF PrintedExactly
<1>4. out = <<>> \/ Sorted
  BY DEF PrintfInv, FirstPass
<1>5. RefusedFirst'
  BY <1>1, <1>2, <1>4 DEF RefusedFirst, Sorted
<1>6. form' \in Forms /\ slots' \in SlotLists /\ item' \in 1..(Len(form') + 1)
  BY <1>1 DEF PrintfInv
<1> QED
  BY <1>1, <1>3, <1>5, <1>6 DEF PrintfInv

LEMMA NothingYet ==
  ASSUME ret # -1, pass # "done"
  PROVE  PrintedExactly /\ RefusedFirst
BY DEF PrintedExactly, RefusedFirst

LEMMA Going ==
  ASSUME PrintfInv, pass \in {"types", "print"}
  PROVE  ret = 0
BY DEF PrintfInv, FirstPass

(* The text of an item, in both passes.                                    *)
LEMMA TextKeeps ==
  ASSUME PrintfInv, LiteralText
  PROVE  PrintfInv'
<1>1. /\ Given /\ Len(form) \in Nat /\ item \in Nat /\ item >= 1
      /\ Allowed => Legal
      /\ \A k \in Dirs : k \in 1..Len(form)
  BY InvGives
<1>2. pass \in {"types", "print"} /\ item \in 1..Len(form) /\ IsText(form[item])
  BY <1>1 DEF LiteralText, Running
<1>3. item \notin Dirs
  BY <1>1, <1>2, ItemIs
<1>4. PICK t : t = form[item].text
  OBVIOUS
<1>5. t \in Seq(Int) /\ Len(t) \in Nat
  BY <1>1, <1>2, <1>3, <1>4, ItemIs, LiteralIs
<1>6. ASSUME Allowed
      PROVE  /\ Printout(item) = Printout(item - 1) \o t
             /\ Len(Printout(item)) = Len(Printout(item - 1)) + Len(t)
             /\ Len(Printout(item - 1)) \in Nat /\ Printout(item - 1) \in Seq(Int)
             /\ Len(Printout(item)) <= Len(Printout(Len(form))) /\ Len(Printout(Len(form))) \in Nat
  <2>1. Legal
    BY <1>1, <1>6
  <2>2. Shows(item) = t
    BY <1>2, <1>3, <1>4, <2>1, ShowsIs
  <2>3. item - 1 \in 0..Len(form) /\ item \in 0..Len(form) /\ Len(form) \in 0..Len(form)
    BY <1>1, <1>2
  <2> QED
    BY <1>2, <2>1, <2>2, <2>3, PrintoutIs
<1>7. ASSUME Allowed PROVE cnt \in Nat /\ cnt <= Len(Printout(item - 1))
  <2>1. CASE pass = "types"
    BY <1>7, <2>1 DEF PrintfInv, FirstPass
  <2>2. CASE pass = "print"
    <3>1. out = Printout(item - 1) /\ cnt = Len(out)
      BY <1>7, <2>2 DEF PrintfInv, SecondPass
    <3> QED
      BY <1>6, <1>7, <3>1
  <2> QED
    BY <1>2, <2>1, <2>2
<1>8. MaxInt \in Nat
  BY MaxIntIs
<1>9. CASE Len(t) > MaxInt - cnt
  <2>1. Fail
    BY <1>4, <1>9 DEF LiteralText
  <2>2. Allowed => Len(Printout(Len(form))) > MaxInt
    BY <1>5, <1>6, <1>7, <1>8, <1>9
  <2> QED
    BY <1>2, <2>1, <2>2, FailKeeps
<1>10. CASE ~ Len(t) > MaxInt - cnt
  <2>1. Prints(t) /\ UNCHANGED <<l10n, nlType, used>>
    BY <1>4, <1>10 DEF LiteralText
  <2>2. /\ cnt' = cnt + Len(t) /\ item' = item + 1
        /\ out' = IF pass = "print" THEN out \o t ELSE out
        /\ form' = form /\ slots' = slots /\ pass' = pass /\ nlArg' = nlArg /\ stores' = stores /\ ret' = ret
        /\ l10n' = l10n /\ nlType' = nlType /\ used' = used
    BY <2>1 DEF Prints
  <2>3. /\ (Allowed' <=> Allowed) /\ (Ordered' <=> Ordered) /\ (ByPosition' <=> ByPosition)
        /\ Dirs' = Dirs /\ FirstSlot' = FirstSlot /\ NamedTypes' = NamedTypes /\ (Sorted' <=> Sorted)
        /\ \A k : Printout(k)' = Printout(k) /\ StoresBy(k)' = StoresBy(k)
    BY <2>2, SameCall
  <2>4. \A k \in Dirs : k < item + 1 <=> k < item
    BY <1>1, <1>3
  <2>5. item' - 1 = item /\ item' \in 1..(Len(form') + 1)
    BY <1>1, <1>2, <2>2
  <2>6. ASSUME pass = "types" PROVE FirstPass'
    <3>1. FirstPass
      BY <2>6 DEF PrintfInv
    <3>2. out' = <<>> /\ stores' = <<>> /\ used' = 0 /\ ret' = 0
      BY <2>2, <2>6, <3>1 DEF FirstPass
    <3>3. /\ l10n' <=> \E k \in Dirs' : k < item'
          /\ \A k \in Dirs' : k < item' => form'[k].pos # InOrder /\ Type(form'[k]) # None
      BY <2>2, <2>3, <2>4, <3>1 DEF FirstPass
    <3>4. ASSUME Allowed PROVE cnt' \in Nat /\ cnt' <= Len(Printout(item - 1)')
      <4>1. cnt' \in Nat /\ cnt' <= Len(Printout(item))
        BY <1>5, <1>6, <1>7, <2>2, <3>4
      <4> QED
        BY <2>3, <2>5, <4>1
    <3>5. ASSUME Allowed, ByPosition PROVE TypesNoted'
      <4>1. TypesNoted
        BY <3>1, <3>5 DEF FirstPass
      <4> QED
        BY <2>2, <2>3, <2>4, <4>1 DEF TypesNoted
    <3> QED
      BY <2>3, <3>2, <3>3, <3>4, <3>5, Zenon DEF FirstPass
  <2>7. ASSUME pass = "print", Allowed PROVE SecondPass'
    <3>1. SecondPass /\ Legal
      BY <1>1, <2>7 DEF PrintfInv
    <3>2. out' = Printout(item) /\ cnt' = Len(out') /\ cnt' <= MaxInt
      <4>1. out' = Printout(item - 1) \o t /\ cnt = Len(Printout(item - 1))
        BY <2>2, <2>7, <3>1 DEF SecondPass
      <4>2. out' = Printout(item)
        BY <1>6, <2>7, <4>1
      <4>3. cnt' = Len(Printout(item))
        BY <1>6, <2>2, <2>7, <4>1
      <4>4. cnt' <= MaxInt
        BY <1>5, <1>7, <1>8, <1>10, <2>2, <2>7
      <4> QED
        BY <4>2, <4>3, <4>4
    <3>3. StoresBy(item) = StoresBy(item - 1)
      <4>1. StoresBy(item) = StoresBy(item - 1) \o CStore(item) /\ StoresBy(item - 1) \in Seq(CCalled)
        <5>1. item - 1 \in 0..Len(form)
          BY <1>1, <1>2
        <5> QED
          BY <1>2, <3>1, <5>1, StoresAre
      <4>2. CStore(item) = <<>>
        BY <1>3 DEF CStore
      <4> QED
        BY <4>1, <4>2, ConcatEmptySeq
    <3>4. stores' \in Seq(PStored) /\ Matching(stores', StoresBy(item))
      BY <2>2, <3>1, <3>3 DEF SecondPass
    <3>5. InTurn'
      <4>1. ASSUME Ordered PROVE FirstSlot[item + 1] = FirstSlot[item]
        <5>1. FirstSlot[item + 1] = FirstSlot[item] + 0 /\ FirstSlot[item] \in Nat
          BY <1>1, <1>2, <1>3, SlotsBefore, FirstGrows
        <5> QED
          BY <5>1
      <4> QED
        BY <2>2, <2>3, <3>1, <4>1 DEF SecondPass, InTurn
    <3>6. Placed'
      BY <2>2, <2>3, <3>1 DEF SecondPass, Placed
    <3> QED
      BY <2>3, <2>5, <3>2, <3>4, <3>5, <3>6, Zenon DEF SecondPass
  <2>8. ret' = 0 /\ pass' \in {"types", "print"}
    BY <1>2, <2>2, Going
  <2>9. PrintedExactly' /\ RefusedFirst'
    BY <2>8 DEF PrintedExactly, RefusedFirst
  <2>10. pass = "print" => Sorted
    BY DEF PrintfInv
  <2>11. form' \in Forms /\ slots' \in SlotLists
    BY <2>2 DEF PrintfInv
  <2> QED
    BY <2>2, <2>3, <2>5, <2>6, <2>7, <2>8, <2>9, <2>10, <2>11 DEF PrintfInv
<1> QED
  BY <1>9, <1>10

(* The second pass starts with nothing printed.                            *)
LEMMA StartKeeps ==
  ASSUME PrintfInv, pass = "types", StartPrinting, Sorted, Allowed /\ Ordered => used' = 0,
         Allowed /\ ByPosition => \A a \in NamedTypes : nlArg'[a.pos] = PopArg(a.type, slots[a.pos])
  PROVE  PrintfInv'
<1>1. /\ pass' = "print" /\ item' = 1 /\ cnt' = 0 /\ l10n' = FALSE
      /\ form' = form /\ slots' = slots /\ out' = out /\ stores' = stores /\ ret' = ret
  BY DEF StartPrinting
<1>2. out = <<>> /\ stores = <<>> /\ ret = 0
  BY DEF PrintfInv, FirstPass
<1>3. /\ (Allowed' <=> Allowed) /\ (Ordered' <=> Ordered) /\ (ByPosition' <=> ByPosition)
      /\ FirstSlot' = FirstSlot /\ NamedTypes' = NamedTypes /\ (Sorted' <=> Sorted)
      /\ \A k : Printout(k)' = Printout(k) /\ StoresBy(k)' = StoresBy(k)
  BY <1>1, SameCall
<1>4. Len(form) \in Nat /\ (Allowed => Legal)
  BY InvGives
<1>5. ASSUME Allowed PROVE SecondPass'
  <2>1. Printout(0) = <<>> /\ StoresBy(0) = <<>>
    BY <1>4, <1>5, PrintoutIs, StoresAre
  <2>2. item' - 1 = 0
    BY <1>1
  <2>3. out' = Printout(0) /\ cnt' = Len(out') /\ cnt' <= MaxInt
    <3>1. out' = <<>> /\ Len(<<>>) = 0 /\ 0 <= MaxInt
      BY <1>1, <1>2, MaxIntIs
    <3> QED
      BY <1>1, <2>1, <3>1
  <2>4. stores' \in Seq(PStored) /\ Matching(stores', StoresBy(0))
    BY <1>1, <1>2, <2>1 DEF Matching
  <2>5. InTurn'
    BY <1>1, <1>3, <1>4, <1>5, SlotsBefore DEF InTurn
  <2>6. Placed'
    BY <1>1, <1>3, <1>5 DEF Placed
  <2> QED
    BY <1>3, <2>2, <2>3, <2>4, <2>5, <2>6, Zenon DEF SecondPass
<1>6. PrintedExactly' /\ RefusedFirst'
  BY <1>1, <1>2 DEF PrintedExactly, RefusedFirst
<1>7. form' \in Forms /\ slots' \in SlotLists
  BY <1>1 DEF PrintfInv
<1>8. item' \in 1..(Len(form') + 1)
  BY <1>1, <1>4
<1> QED
  BY <1>1, <1>2, <1>3, <1>5, <1>6, <1>7, <1>8 DEF PrintfInv

(* The types that a directive gives.                                       *)
LEMMA TypesKeep ==
  ASSUME Given, ByPosition, TypesNoted, item \in Dirs, NEW d, d = form[item],
         nlType' = Types(d), item' = item + 1, form' = form, slots' = slots
  PROVE  TypesNoted'
<1>1. Dirs' = Dirs /\ item \in Nat /\ \A k \in Dirs : k \in Nat
  BY ItemIs, SameCall
<1>2. \A a, b \in NamedTypes : a.pos = b.pos => a = b
  BY DEF ByPosition
<1>3. \A k \in Dirs : NamedAs(form[k]) \subseteq NamedTypes
  BY DEF NamedTypes
<1>4. ASSUME NEW k \in Dirs PROVE k < item + 1 <=> k < item \/ k = item
  BY <1>1
<1>5. PICK own : own = [pos |-> d.pos, type |-> Type(d)]
  OBVIOUS
<1>6. own \in NamedTypes /\ own \in NamedAs(d)
  BY <1>3, <1>5 DEF NamedAs
<1>7. \A a \in NamedAs(d) : a = own \/ (\E b \in {d.width, d.prec} : Named(b) /\ a = [pos |-> b.pos, type |-> "INT"])
  BY <1>5 DEF NamedAs
<1>8. \A b \in {d.width, d.prec} : Named(b) => [pos |-> b.pos, type |-> "INT"] \in NamedAs(d)
  BY DEF NamedAs
<1> SUFFICES ASSUME NEW x \in Position
             PROVE  /\ \A k \in Dirs : k < item + 1 => \A a \in NamedAs(form[k]) : a.pos = x => nlType'[x] = a.type
                    /\ (\A k \in Dirs : k < item + 1 => \A a \in NamedAs(form[k]) : a.pos # x) => nlType'[x] = None
  BY <1>1 DEF TypesNoted
<1>9. nlType'[x] = IF x = d.pos THEN Type(d)
                   ELSE IF (Named(d.width) /\ x = d.width.pos) \/ (Named(d.prec) /\ x = d.prec.pos) THEN "INT"
                   ELSE nlType[x]
  BY DEF Types
<1>10. /\ \A k \in Dirs : k < item => \A a \in NamedAs(form[k]) : a.pos = x => nlType[x] = a.type
       /\ (\A k \in Dirs : k < item => \A a \in NamedAs(form[k]) : a.pos # x) => nlType[x] = None
  BY DEF TypesNoted
<1>11. ASSUME NEW k \in Dirs, k < item \/ k = item, NEW a \in NamedAs(form[k]), a.pos = x
       PROVE  nlType'[x] = a.type
  <2>1. a \in NamedTypes
    BY <1>3
  <2>2. CASE x = d.pos
    <3>1. a = own
      BY <1>2, <1>5, <1>6, <1>11, <2>1, <2>2
    <3> QED
      BY <1>5, <1>9, <2>2, <3>1
  <2>3. CASE x # d.pos /\ ((Named(d.width) /\ x = d.width.pos) \/ (Named(d.prec) /\ x = d.prec.pos))
    <3>1. PICK b \in {d.width, d.prec} : Named(b) /\ x = b.pos
      BY <2>3
    <3>2. PICK c : c = [pos |-> b.pos, type |-> "INT"]
      OBVIOUS
    <3>3. c \in NamedTypes /\ c.pos = x /\ c.type = "INT"
      BY <1>3, <1>8, <3>1, <3>2
    <3>4. a = c
      BY <1>2, <1>11, <2>1, <3>3
    <3> QED
      BY <1>9, <2>3, <3>3, <3>4
  <2>4. CASE x # d.pos /\ ~ ((Named(d.width) /\ x = d.width.pos) \/ (Named(d.prec) /\ x = d.prec.pos))
    <3>1. k # item
      <4>1. SUFFICES ASSUME k = item PROVE FALSE
        OBVIOUS
      <4>2. a # own /\ a \in NamedAs(d)
        BY <1>5, <1>11, <2>4, <4>1
      <4>3. PICK b \in {d.width, d.prec} : Named(b) /\ a = [pos |-> b.pos, type |-> "INT"]
        BY <1>7, <4>2
      <4> QED
        BY <1>11, <2>4, <4>3
    <3> QED
      BY <1>9, <1>10, <1>11, <2>4, <3>1
  <2> QED
    BY <2>2, <2>3, <2>4
<1>12. ASSUME \A k \in Dirs : k < item + 1 => \A a \in NamedAs(form[k]) : a.pos # x
       PROVE  nlType'[x] = None
  <2>1. \A a \in NamedAs(d) : a.pos # x
    BY <1>1, <1>12
  <2>2. x # d.pos
    BY <1>5, <1>6, <2>1
  <2>3. \A b \in {d.width, d.prec} : Named(b) => x # b.pos
    BY <1>8, <2>1
  <2>4. nlType[x] = None
    BY <1>4, <1>10, <1>12
  <2> QED
    BY <1>9, <2>2, <2>3, <2>4
<1> QED
  BY <1>4, <1>11, <1>12

LEMMA NoteKeeps ==
  ASSUME PrintfInv, NoteTypes
  PROVE  PrintfInv'
<1>1. /\ Given /\ Len(form) \in Nat /\ item \in Nat /\ item >= 1
      /\ Allowed => Legal
      /\ \A k \in Dirs : k \in 1..Len(form)
  BY InvGives
<1>2. pass = "types" /\ item \in 1..Len(form) /\ ~ IsText(form[item])
  BY <1>1 DEF NoteTypes, Running
<1>3. item \in Dirs
  BY <1>1, <1>2, ItemIs
<1>4. PICK d : d = form[item]
  OBVIOUS
<1>5. FirstPass
  BY <1>2 DEF PrintfInv
<1>6. ASSUME Allowed PROVE ~ Refused(d)
  <2>1. Ordered => ~ l10n
    BY <1>5 DEF FirstPass, Ordered, InOrderUse
  <2> QED
    BY <1>1, <1>3, <1>4, <1>6, <2>1, NotRefused
<1>7. CASE Refused(d)
  <2>1. Fail
    BY <1>4, <1>7 DEF NoteTypes
  <2> QED
    BY <1>2, <1>6, <1>7, <2>1, FailKeeps
<1>8. CASE ~ Refused(d) /\ d.pos = InOrder
  <2>1. StartPrinting /\ nlArg' = nlArg /\ used' = used
    BY <1>4, <1>8 DEF NoteTypes
  <2>2. Sorted
    BY <1>3, <1>4, <1>8 DEF Sorted
  <2>3. ~ ByPosition
    BY <1>1, <1>3, <1>4, <1>8, NamedSlots
  <2>4. used' = 0
    BY <1>5, <2>1 DEF FirstPass
  <2> QED
    BY <1>2, <2>1, <2>2, <2>3, <2>4, StartKeeps
<1>9. CASE ~ Refused(d) /\ d.pos # InOrder
  <2>1. /\ nlType' = Types(d) /\ item' = item + 1 /\ l10n' = TRUE
        /\ form' = form /\ slots' = slots /\ pass' = pass /\ nlArg' = nlArg /\ used' = used /\ cnt' = cnt
        /\ out' = out /\ stores' = stores /\ ret' = ret
    BY <1>4, <1>9 DEF NoteTypes
  <2>2. /\ (Allowed' <=> Allowed) /\ (ByPosition' <=> ByPosition) /\ Dirs' = Dirs
        /\ \A k : Printout(k)' = Printout(k)
    BY <2>1, SameCall
  <2>3. Type(d) # None
    BY <1>9 DEF Refused
  <2>4. \A k \in Dirs : k < item + 1 <=> k < item \/ k = item
    BY <1>1
  <2>5. out' = <<>> /\ stores' = <<>> /\ used' = 0 /\ ret' = 0
    BY <1>5, <2>1 DEF FirstPass
  <2>6. /\ l10n' <=> \E k \in Dirs' : k < item'
        /\ \A k \in Dirs' : k < item' => form'[k].pos # InOrder /\ Type(form'[k]) # None
    BY <1>3, <1>4, <1>5, <1>9, <2>1, <2>2, <2>3, <2>4 DEF FirstPass
  <2>7. ASSUME Allowed PROVE cnt' \in Nat /\ cnt' <= Len(Printout(item - 1)')
    <3>1. cnt \in Nat /\ cnt <= Len(Printout(item - 1))
      BY <1>5, <2>7 DEF FirstPass
    <3>2. /\ Len(Printout(item)) = Len(Printout(item - 1)) + Len(Shows(item))
          /\ Len(Printout(item - 1)) \in Nat /\ Len(Shows(item)) \in Nat
      <4>1. item - 1 \in 0..Len(form)
        BY <1>1, <1>2
      <4> QED
        BY <1>1, <1>2, <2>7, <4>1, PrintoutIs, ShowsIs
    <3>3. cnt <= Len(Printout(item)) /\ item' - 1 = item
      BY <1>1, <2>1, <3>1, <3>2
    <3> QED
      BY <2>1, <2>2, <3>1, <3>3
  <2>8. ASSUME Allowed, ByPosition PROVE TypesNoted'
    <3>1. TypesNoted
      BY <1>5, <2>8 DEF FirstPass
    <3> QED
      BY <1>1, <1>3, <1>4, <2>1, <2>8, <3>1, TypesKeep
  <2>9. FirstPass'
    BY <2>2, <2>5, <2>6, <2>7, <2>8, Zenon DEF FirstPass
  <2>10. pass' = "types" /\ PrintedExactly' /\ RefusedFirst'
    BY <1>2, <2>1, <2>5 DEF PrintedExactly, RefusedFirst
  <2>11. form' \in Forms /\ slots' \in SlotLists /\ item' \in 1..(Len(form') + 1)
    BY <1>1, <1>2, <2>1 DEF PrintfInv
  <2> QED
    BY <2>9, <2>10, <2>11 DEF PrintfInv
<1> QED
  BY <1>7, <1>8, <1>9

(* The arguments by position are popped as their types say.                *)
LEMMA LastTypedIs ==
  ASSUME Legal, ByPosition, TypesNoted, item > Len(form), item \in Nat
  PROVE  /\ \A a \in NamedTypes : a.pos \in 1..LastTyped /\ nlType[a.pos] = a.type /\ a.pos \in Position
         /\ LastTyped \in 0..9 /\ \A x \in Position : x > LastTyped => nlType[x] = None
         /\ \A x \in 1..LastTyped : x \in DOMAIN slots
<1>1. Given /\ \A k \in Dirs : Type(form[k]) # None
  BY DEF Legal, Allowed
<1>2. PICK n \in 0..Len(slots) : {a.pos : a \in NamedTypes} = 1..n
  BY DEF ByPosition
<1>3. \A k \in Dirs : k < item
  <2>1. \A k \in Dirs : k \in 1..Len(form) /\ Len(form) \in Nat
    BY <1>1, ItemIs
  <2> QED
    BY <2>1
<1>4. ASSUME NEW a \in NamedTypes
      PROVE  a.pos \in 1..n /\ a.pos \in Position /\ nlType[a.pos] = a.type /\ a.type # None
  <2>1. PICK k \in Dirs : a \in NamedAs(form[k])
    BY DEF NamedTypes
  <2>2. PICK d \in Directive : d = form[k]
    BY <1>1, <2>1, ItemIs
  <2>3. a.pos \in 1..n
    BY <1>2
  <2>4. a.pos \in Position /\ a.type # None
    <3>1. CASE a = [pos |-> d.pos, type |-> Type(d)]
      <4>1. d.pos \in Position \cup {InOrder} /\ d.pos # InOrder /\ Type(d) # None
        BY <1>1, <2>1, <2>2, DirectiveIs, NamedSlots
      <4> QED
        BY <3>1, <4>1
    <3>2. CASE \E b \in {d.width, d.prec} : Named(b) /\ a = [pos |-> b.pos, type |-> "INT"]
      <4>1. PICK b \in {d.width, d.prec} : Named(b) /\ a = [pos |-> b.pos, type |-> "INT"]
        BY <3>2
      <4>2. b \in Amount
        BY <2>2, <4>1, DirectiveIs
      <4>3. b.pos \in Position
        BY <4>1, <4>2, AmountIs DEF Named
      <4> QED
        BY <4>1, <4>3 DEF None
    <3> QED
      BY <2>1, <2>2, <3>1, <3>2 DEF NamedAs
  <2>5. nlType[a.pos] = a.type
    BY <1>3, <2>1, <2>4 DEF TypesNoted
  <2> QED
    BY <2>3, <2>4, <2>5
<1>5. Len(slots) \in Nat /\ n \in Nat /\ n <= Len(slots) /\ DOMAIN slots = 1..Len(slots)
  BY <1>1, LenProperties DEF Given
<1>6. \A x \in 1..n : nlType[x] # None /\ x \in Position
  BY <1>2, <1>4
<1>7. n <= 9
  <2>1. CASE n = 0
    BY <2>1
  <2>2. CASE n # 0
    BY <1>5, <1>6, <2>2 DEF Position
  <2> QED
    BY <2>1, <2>2
<1>8. ASSUME NEW x \in Position, x > n PROVE nlType[x] = None
  <2>1. \A k \in Dirs : k < item => \A a \in NamedAs(form[k]) : a.pos # x
    <3>1. \A k \in Dirs : \A a \in NamedAs(form[k]) : a \in NamedTypes
      BY DEF NamedTypes
    <3>2. \A a \in NamedTypes : a.pos # x
      BY <1>4, <1>5, <1>8
    <3> QED
      BY <3>1, <3>2
  <2> QED
    BY <2>1 DEF TypesNoted
<1>9. LastTyped = n
  <2> DEFINE Fit(m) == (\A x \in 1..m : nlType[x] # None) /\ (m < 9 => nlType[m + 1] = None)
  <2>1. n \in 0..9 /\ Fit(n)
    <3>1. n < 9 => n + 1 \in Position /\ n + 1 > n
      BY <1>5 DEF Position
    <3> QED
      BY <1>5, <1>6, <1>7, <1>8, <3>1
  <2>2. ASSUME NEW m \in 0..9, Fit(m) PROVE m = n
    <3>1. ~ m < n
      <4>1. SUFFICES ASSUME m < n PROVE FALSE
        OBVIOUS
      <4>2. m + 1 \in 1..n /\ m < 9
        BY <1>5, <1>7, <4>1
      <4> QED
        BY <1>6, <2>2, <4>2
    <3>2. ~ n < m
      <4>1. SUFFICES ASSUME n < m PROVE FALSE
        OBVIOUS
      <4>2. n + 1 \in 1..m /\ n < 9
        BY <1>5, <4>1
      <4> QED
        BY <2>1, <2>2, <4>2
    <3> QED
      BY <1>5, <3>1, <3>2
  <2>3. LastTyped = CHOOSE m \in 0..9 : Fit(m)
    BY DEF LastTyped
  <2> HIDE DEF Fit
  <2> QED
    BY <2>1, <2>2, <2>3
<1>10. \A x \in 1..n : x \in DOMAIN slots
  BY <1>5
<1>11. n \in 0..9
  BY <1>5, <1>7
<1> QED
  BY <1>4, <1>8, <1>9, <1>10, <1>11

LEMMA TypesEndKeeps ==
  ASSUME PrintfInv, TypesEnd
  PROVE  PrintfInv'
<1>1. /\ Given /\ Len(form) \in Nat /\ item \in Nat
      /\ Allowed => Legal
      /\ \A k \in Dirs : k \in 1..Len(form)
  BY InvGives
<1>2. pass = "types" /\ item > Len(form)
  BY DEF TypesEnd
<1>3. FirstPass
  BY <1>2 DEF PrintfInv
<1>4. \A k \in Dirs : k < item /\ form[k].pos # InOrder /\ Type(form[k]) # None
  BY <1>1, <1>2, <1>3 DEF FirstPass
<1>5. Sorted
  BY <1>4 DEF Sorted
<1>6. used = 0
  BY <1>3 DEF FirstPass
<1>7. CASE ~ l10n
  <2>1. StartPrinting /\ nlArg' = nlArg /\ used' = used
    BY <1>7 DEF TypesEnd
  <2>2. Dirs = {}
    BY <1>3, <1>4, <1>7 DEF FirstPass
  <2>3. NamedTypes = {}
    BY <2>2 DEF NamedTypes
  <2> QED
    BY <1>2, <1>5, <1>6, <2>1, <2>3, StartKeeps
<1>8. CASE l10n
  <2>1. PICK k \in Dirs : form[k].pos # InOrder
    BY <1>3, <1>8 DEF FirstPass
  <2>2. ~ Ordered
    BY <2>1 DEF Ordered, InOrderUse
  <2>3. Allowed => ByPosition /\ TypesNoted /\ Legal
    BY <1>1, <1>3, <2>2 DEF FirstPass, Allowed, Ordered, ByPosition
  <2>4. CASE \E x \in (LastTyped + 1)..9 : nlType[x] # None
    <3>1. Fail
      BY <1>8, <2>4 DEF TypesEnd
    <3>2. ~ Allowed
      <4>1. SUFFICES ASSUME Allowed PROVE FALSE
        OBVIOUS
      <4>2. LastTyped \in 0..9 /\ \A x \in Position : x > LastTyped => nlType[x] = None
        BY <1>1, <1>2, <2>3, <4>1, LastTypedIs
      <4>3. \A x \in (LastTyped + 1)..9 : x \in Position /\ x > LastTyped
        BY <4>2 DEF Position
      <4> QED
        BY <2>4, <4>2, <4>3
    <3> QED
      BY <1>2, <3>1, <3>2, FailKeeps
  <2>5. CASE ~ \E x \in (LastTyped + 1)..9 : nlType[x] # None
    <3>1. PICK g \in Garbage :
            nlArg' = [x \in Position |->
                        IF x \notin 1..LastTyped THEN nlArg[x]
                        ELSE PopArg(nlType[x], IF x \in DOMAIN slots THEN slots[x] ELSE g)]
      BY <1>8, <2>5 DEF TypesEnd
    <3>2. StartPrinting
      BY <1>8, <2>5 DEF TypesEnd
    <3>3. ASSUME Allowed, ByPosition, NEW a \in NamedTypes
          PROVE  nlArg'[a.pos] = PopArg(a.type, slots[a.pos])
      <4>1. a.pos \in 1..LastTyped /\ nlType[a.pos] = a.type /\ a.pos \in Position /\ a.pos \in DOMAIN slots
        BY <1>1, <1>2, <2>3, <3>3, LastTypedIs
      <4> QED
        BY <3>1, <4>1
    <3> QED
      BY <1>2, <1>5, <2>2, <3>2, <3>3, StartKeeps
  <2> QED
    BY <2>4, <2>5
<1> QED
  BY <1>7, <1>8

(* A directive of an allowed call, in the second pass: one of its fields   *)
(* or its store is made, or the count is too large.                        *)
LEMMA PrintsAs ==
  ASSUME Legal, SecondPass, item \in Dirs, NEW d, d = form[item],
         NEW w \in Widths(d), NEW p \in Precs(d), NEW v \in Values(d)
  PROVE  /\ d.conv = "s" => v \in {0} \cup DOMAIN Strings
         /\ d.conv = "n" => v = CSlot(item)
         /\ d.conv # "n" => /\ Field(d, w, p, v).chars = CField(item)
                            /\ Field(d, w, p, v).overflows <=> Len(CField(item)) > MaxInt - cnt
<1>1. InTurn /\ Placed
  BY DEF SecondPass
<1>2. w = CWidth(item) /\ p = CPrec(item) /\ v = PopArg(Type(d), CSlot(item))
  BY <1>1, WidthsAre, PrecsAre, ValuesAre
<1>3. /\ d \in Directive /\ Type(d) # None /\ CSlot(item) \in Slot
      /\ InBounds(w) /\ p \in Int
      /\ Exact(d, p) <=> p >= 0
      /\ d.conv = "s" => CSlot(item) \in {0} \cup DOMAIN Strings
  BY <1>2, CallIs
<1>4. PICK n : n = CValue(d, CSlot(item))
  OBVIOUS
<1>5. Means(d, v, n) /\ (d.conv \in {"s", "n"} => v = CSlot(item))
  BY <1>2, <1>3, <1>4, PopMeans
<1>6. d.conv = "s" => v \in {0} \cup DOMAIN Strings
  BY <1>3, <1>5
<1>7. CField(item) = CShown(d, w, p, n)
  BY <1>2, <1>4 DEF CField
<1>8. ASSUME d.conv # "n"
      PROVE  /\ Field(d, w, p, v).chars = CShown(d, w, p, n)
             /\ Field(d, w, p, v).overflows <=> Len(CShown(d, w, p, n)) > MaxInt - cnt
  <2>1. FieldShows(d, w, p, v, n)
    BY <1>3, <1>5, <1>6, <1>8, FieldIs, Zenon
  <2> QED
    BY <2>1, Zenon DEF FieldShows
<1> QED
  BY <1>5, <1>6, <1>7, <1>8

LEMMA PrefixIs ==
  ASSUME NEW length
  PROVE  Prefix(length) \in {"BARE", "LPRE", "LLPRE", "HPRE", "HHPRE", "ZTPRE", "JPRE", "BIGLPRE", None}
BY Zenon DEF Prefix

LEMMA RecordsAre ==
  ASSUME NEW x \in Slot, NEW t \in Int, NEW n \in Int
  PROVE  /\ [to |-> x, type |-> t, value |-> n] \in PStored
         /\ [to |-> x, count |-> n, type |-> t] \in CCalled
BY DEF PStored, CCalled

(* The code's table gives the integers of the reference.                   *)
LEMMA StoredWell ==
  ASSUME NEW length, Prefix(length) \in DOMAIN StoredAs
  PROVE  StoredAs[Prefix(length)] = CStored(length)
<1>1. CASE length = <<>>
  <2>1. Prefix(length) = "BARE" /\ CStored(length) = INT
    BY <1>1, SMT DEF Prefix, CStored, CInteger
  <2> QED
    BY <2>1, SMT DEF StoredAs
<1>2. CASE length = <<"l">>
  <2>1. Prefix(length) = "LPRE" /\ CStored(length) = LLONG
    BY <1>2, SMT DEF Prefix, CStored, CInteger
  <2> QED
    BY <2>1, SMT DEF StoredAs
<1>3. CASE length = <<"h">>
  <2>1. Prefix(length) = "HPRE" /\ CStored(length) = SHORT
    BY <1>3, SMT DEF Prefix, CStored, CInteger
  <2> QED
    BY <2>1, SMT DEF StoredAs
<1>4. CASE length = <<"h", "h">>
  <2>1. Prefix(length) = "HHPRE" /\ CStored(length) = CHAR
    BY <1>4, SMT DEF Prefix, CStored, CInteger
  <2> QED
    BY <2>1, SMT DEF StoredAs
<1>5. CASE length \notin {<<>>, <<"l">>, <<"h">>, <<"h", "h">>}
  <2>1. CStored(length) = LLONG
    BY <1>5, SMT DEF CStored, CInteger
  <2>2. Prefix(length) \in {"LLPRE", "ZTPRE", "JPRE", "BIGLPRE", None}
    BY <1>5, SMT DEF Prefix
  <2>3. Prefix(length) \in {"LLPRE", "ZTPRE", "JPRE"}
    BY <2>2, SMT DEF StoredAs, None
  <2> QED
    BY <2>1, <2>3, SMT DEF StoredAs
<1> QED
  BY <1>1, <1>2, <1>3, <1>4, <1>5

LEMMA StoredIs ==
  ASSUME Legal, item \in Dirs, NEW d, d = form[item], d.conv = "n", NEW v, v = CSlot(item),
         cnt = Len(Printout(item)), cnt \in Nat, NEW ss \in Seq(PStored), NEW cc \in Seq(CCalled), Matching(ss, cc)
  PROVE  ss \o Stored(d, v) \in Seq(PStored) /\ Matching(ss \o Stored(d, v), cc \o CStore(item))
<1>1. Type(d) # None /\ CSlot(item) \in Slot
  BY CallIs
<1>2. Prefix(d.length) # None
  BY <1>1, TypeIs
<1>3. PICK f : f = Prefix(d.length)
  OBVIOUS
<1>4. f \in DOMAIN StoredAs \/ f = "BIGLPRE"
  BY <1>2, <1>3, PrefixIs DEF StoredAs
<1>5. CASE f \in DOMAIN StoredAs
  <2>1. f # "BIGLPRE"
    BY <1>5 DEF StoredAs
  <2>2. StoredAs[f] \in CTypes
    BY <1>5 DEF StoredAs, CTypes
  <2>3. PICK t \in Nat \ {0} : t = StoredAs[f]
    BY <2>2, TypesEven
  <2>4. cnt % t \in Int /\ t \in Int /\ cnt \in Int /\ v \in Slot
    BY <1>1, <2>3
  <2>5. PICK s \in PStored : s = [to |-> v, type |-> t, value |-> cnt % t]
    BY <2>4, RecordsAre, Zenon
  <2>11. t = CStored(d.length)
    BY <1>3, <1>5, <2>3, StoredWell
  <2>6. PICK c \in CCalled : c = [to |-> v, count |-> cnt, type |-> t]
    BY <2>4, RecordsAre, Zenon
  <2>7. Stored(d, v) = <<s>>
    BY <1>3, <1>5, <2>3, <2>5, Zenon DEF Stored
  <2>8. CStore(item) = <<c>>
    BY <1>3, <2>1, <2>6, <2>11, Zenon DEF CStore
  <2>9. Matching(ss \o <<s>>, cc \o <<c>>)
    <3>1. s.to = c.to /\ s.type = c.type /\ s.value = c.count % c.type
      BY <2>5, <2>6
    <3> QED
      BY <3>1, OneMore, Zenon
  <2>10. ss \o <<s>> \in Seq(PStored)
    <3>1. <<s>> \in Seq(PStored)
      OBVIOUS
    <3> QED
      BY <3>1, ConcatProperties, Zenon
  <2> QED
    BY <2>7, <2>8, <2>9, <2>10
<1>6. CASE f = "BIGLPRE"
  <2>1. Stored(d, v) = <<>>
    <3>1. f \notin DOMAIN StoredAs
      BY <1>6 DEF StoredAs
    <3> QED
      BY <1>3, <3>1, Zenon DEF Stored
  <2>2. CStore(item) = <<>>
    BY <1>3, <1>6, Zenon DEF CStore
  <2>3. ss \o <<>> = ss /\ cc \o <<>> = cc
    BY ConcatEmptySeq
  <2> QED
    BY <2>1, <2>2, <2>3
<1> QED
  BY <1>4, <1>5, <1>6

LEMMA PrintKeeps ==
  ASSUME PrintfInv, PrintDirective
  PROVE  PrintfInv'
<1>1. /\ Given /\ Len(form) \in Nat /\ item \in Nat /\ item >= 1
      /\ Allowed => Legal
      /\ \A k \in Dirs : k \in 1..Len(form)
  BY InvGives
<1>2. pass = "print" /\ item \in 1..Len(form) /\ ~ IsText(form[item])
  BY <1>1 DEF PrintDirective, Running
<1>3. item \in Dirs
  BY <1>1, <1>2, ItemIs
<1>4. PICK d : d = form[item]
  OBVIOUS
<1>5. ret = 0 /\ Sorted /\ (Allowed => SecondPass)
  BY <1>2 DEF PrintfInv
<1>6. ASSUME Allowed PROVE ~ Refused(d)
  <2>1. Ordered => ~ l10n
    BY <1>5, <1>6 DEF SecondPass, InTurn
  <2> QED
    BY <1>1, <1>3, <1>4, <1>6, <2>1, NotRefused
<1>7. CASE Refused(d)
  <2>1. Fail
    BY <1>4, <1>7 DEF PrintDirective
  <2> QED
    BY <1>2, <1>6, <1>7, <2>1, FailKeeps
<1>8. CASE ~ Refused(d)
  <2>1. PICK w \in Widths(d), p \in Precs(d), v \in Values(d) :
          IF d.conv # "n" /\ (d.conv = "s" => v \in {0} \cup DOMAIN Strings) /\ Field(d, w, p, v).overflows
          THEN Fail
          ELSE Emit(d, w, p, v) /\ l10n' = Named2(d) /\ nlType' = Types(d) /\ used' = used + InAll(d)
    BY <1>4, <1>8, Zenon DEF PrintDirective
  <2>2. ASSUME Allowed
        PROVE  /\ d.conv = "s" => v \in {0} \cup DOMAIN Strings
               /\ d.conv = "n" => v = CSlot(item)
               /\ d.conv # "n" => /\ Field(d, w, p, v).chars = CField(item)
                                  /\ Field(d, w, p, v).overflows <=> Len(CField(item)) > MaxInt - cnt
    BY <1>1, <1>3, <1>4, <1>5, <2>2, PrintsAs
  <2>3. ASSUME Allowed
        PROVE  /\ Printout(item) = Printout(item - 1) \o Shows(item)
               /\ Len(Printout(item)) = Len(Printout(item - 1)) + Len(Shows(item))
               /\ Len(Printout(item - 1)) \in Nat /\ Printout(item - 1) \in Seq(Int)
               /\ Len(Shows(item)) \in Nat
               /\ Len(Printout(item)) <= Len(Printout(Len(form))) /\ Len(Printout(Len(form))) \in Nat
               /\ d.conv # "n" => Shows(item) = CField(item)
               /\ d.conv = "n" => Shows(item) = <<>>
               /\ cnt = Len(Printout(item - 1)) /\ out = Printout(item - 1)
    <3>1. Legal /\ SecondPass
      BY <1>1, <1>5, <2>3
    <3>2. item - 1 \in 0..Len(form) /\ item \in 0..Len(form) /\ Len(form) \in 0..Len(form)
      BY <1>1, <1>2
    <3>3. /\ d.conv # "n" => Shows(item) = CField(item)
          /\ d.conv = "n" => Shows(item) = <<>>
          /\ Len(Shows(item)) \in Nat
      BY <1>2, <1>3, <1>4, <3>1, ShowsIs
    <3>4. cnt = Len(Printout(item - 1)) /\ out = Printout(item - 1)
      BY <3>1 DEF SecondPass
    <3>5. /\ Printout(item) = Printout(item - 1) \o Shows(item)
          /\ Len(Printout(item)) = Len(Printout(item - 1)) + Len(Shows(item))
          /\ Len(Printout(item - 1)) \in Nat /\ Printout(item - 1) \in Seq(Int)
          /\ Len(Printout(item)) <= Len(Printout(Len(form))) /\ Len(Printout(Len(form))) \in Nat
      BY <1>2, <3>1, <3>2, PrintoutIs
    <3> QED
      BY <3>3, <3>4, <3>5
  <2>4. MaxInt \in Nat
    BY MaxIntIs
  <2>5. CASE d.conv # "n" /\ (d.conv = "s" => v \in {0} \cup DOMAIN Strings) /\ Field(d, w, p, v).overflows
    <3>1. Fail
      BY <2>1, <2>5
    <3>2. ASSUME Allowed PROVE Len(Printout(Len(form))) > MaxInt
      <4>1. Len(Shows(item)) > MaxInt - cnt
        BY <2>2, <2>3, <2>5, <3>2
      <4> QED
        BY <2>3, <2>4, <3>2, <4>1
    <3> QED
      BY <1>2, <3>1, <3>2, FailKeeps
  <2>6. CASE ~ (d.conv # "n" /\ (d.conv = "s" => v \in {0} \cup DOMAIN Strings) /\ Field(d, w, p, v).overflows)
    <3>1. Emit(d, w, p, v) /\ l10n' = Named2(d) /\ used' = used + InAll(d)
      BY <2>1, <2>6
    <3>2. CASE d.conv = "s" /\ v \notin {0} \cup DOMAIN Strings
      <4>1. pass' = "lost" /\ form' = form /\ slots' = slots /\ item' = item /\ ret' = ret
        BY <3>1, <3>2, Zenon DEF Emit
      <4>2. Allowed' <=> Allowed
        BY <4>1, SameCall
      <4>3. ~ Allowed'
        BY <2>2, <3>2, <4>2
      <4>4. PrintedExactly' /\ RefusedFirst'
        BY <1>5, <4>1 DEF PrintedExactly, RefusedFirst
      <4>5. form' \in Forms /\ slots' \in SlotLists /\ item' \in 1..(Len(form') + 1)
        BY <4>1 DEF PrintfInv
      <4> QED
        BY <4>1, <4>3, <4>4, <4>5 DEF PrintfInv
    <3>3. CASE ~ (d.conv = "s" /\ v \notin {0} \cup DOMAIN Strings)
      <4>1. /\ form' = form /\ slots' = slots /\ pass' = pass /\ nlArg' = nlArg /\ ret' = ret /\ item' = item + 1
            /\ d.conv = "n" => cnt' = cnt /\ out' = out /\ stores' = stores \o Stored(d, v)
            /\ d.conv # "n" => /\ cnt' = cnt + Len(Field(d, w, p, v).chars)
                               /\ out' = out \o Field(d, w, p, v).chars /\ stores' = stores
        <5>1. CASE d.conv = "n"
          <6>1. d.conv # "s"
            BY <5>1
          <6> QED
            BY <3>1, <5>1, <6>1, Zenon DEF Emit
        <5>2. CASE d.conv # "n"
          <6>1. Prints(Field(d, w, p, v).chars)
            BY <3>1, <3>3, <5>2, Zenon DEF Emit
          <6> QED
            BY <1>2, <5>2, <6>1, Zenon DEF Prints
        <5> QED
          BY <5>1, <5>2
      <4>2. /\ (Allowed' <=> Allowed) /\ (Ordered' <=> Ordered) /\ (ByPosition' <=> ByPosition)
            /\ FirstSlot' = FirstSlot /\ NamedTypes' = NamedTypes /\ (Sorted' <=> Sorted)
            /\ \A k : Printout(k)' = Printout(k) /\ StoresBy(k)' = StoresBy(k)
        BY <4>1, SameCall
      <4>3. ASSUME Allowed PROVE SecondPass'
        <5>1. Legal /\ SecondPass
          BY <1>1, <1>5, <4>3
        <5>2. item' - 1 = item
          BY <1>1, <4>1
        <5>3. out' = Printout(item) /\ cnt' = Len(Printout(item)) /\ cnt' <= MaxInt
          <6>1. CASE d.conv = "n"
            <7>1. Printout(item) = Printout(item - 1)
              BY <2>3, <4>3, <6>1, ConcatEmptySeq
            <7> QED
              BY <2>3, <4>1, <4>3, <5>1, <6>1, <7>1 DEF SecondPass
          <6>2. CASE d.conv # "n"
            <7>1. PICK chars : chars = Shows(item)
              OBVIOUS
            <7>2. /\ Field(d, w, p, v).chars = chars
                  /\ ~ Len(chars) > MaxInt - cnt
              BY <2>2, <2>3, <2>6, <3>3, <4>3, <6>2, <7>1
            <7>3. out' = Printout(item)
              BY <2>3, <4>1, <4>3, <6>2, <7>1, <7>2
            <7>4. cnt' = Len(Printout(item))
              BY <2>3, <4>1, <4>3, <6>2, <7>1, <7>2
            <7>5. cnt' <= MaxInt
              BY <2>3, <2>4, <4>1, <4>3, <6>2, <7>1, <7>2
            <7> QED
              BY <7>3, <7>4, <7>5
          <6> QED
            BY <6>1, <6>2
        <5>4. stores' \in Seq(PStored) /\ Matching(stores', StoresBy(item))
          <6>1. stores \in Seq(PStored) /\ Matching(stores, StoresBy(item - 1))
            BY <5>1 DEF SecondPass
          <6>2. StoresBy(item) = StoresBy(item - 1) \o CStore(item) /\ StoresBy(item - 1) \in Seq(CCalled)
            <7>1. item - 1 \in 0..Len(form)
              BY <1>1, <1>2
            <7> QED
              BY <1>2, <5>1, <7>1, StoresAre
          <6>3. CASE d.conv = "n"
            <7>1. Printout(item) = Printout(item - 1)
              BY <2>3, <4>3, <6>3, ConcatEmptySeq
            <7>2. v = CSlot(item) /\ cnt = Len(Printout(item)) /\ cnt \in Nat
              BY <2>2, <2>3, <4>3, <6>3, <7>1
            <7>3. /\ stores \o Stored(d, v) \in Seq(PStored)
                  /\ Matching(stores \o Stored(d, v), StoresBy(item - 1) \o CStore(item))
              BY <1>3, <1>4, <5>1, <6>1, <6>2, <6>3, <7>2, StoredIs, Zenon
            <7> QED
              BY <4>1, <6>2, <6>3, <7>3
          <6>4. CASE d.conv # "n"
            <7>1. CStore(item) = <<>>
              BY <1>4, <6>4 DEF CStore
            <7>2. StoresBy(item) = StoresBy(item - 1)
              BY <6>2, <7>1, ConcatEmptySeq
            <7> QED
              BY <4>1, <6>1, <6>4, <7>2
          <6> QED
            BY <6>3, <6>4
        <5>5. InTurn'
          <6>1. ASSUME Ordered PROVE ~ l10n' /\ used' = FirstSlot[item + 1]
            <7>1. /\ d.pos = InOrder /\ ~ Named(d.width)
                  /\ FirstSlot[item + 1] = FirstSlot[item] + InAll(d)
              BY <1>1, <1>3, <1>4, <6>1, OrderedSlots
            <7>2. ~ l10n /\ used = FirstSlot[item]
              BY <5>1, <6>1 DEF SecondPass, InTurn
            <7> QED
              BY <3>1, <7>1, <7>2 DEF Named2, Named1
          <6> QED
            BY <4>1, <4>2, <6>1 DEF InTurn
        <5>6. Placed'
          BY <4>1, <4>2, <5>1 DEF SecondPass, Placed
        <5> QED
          BY <4>2, <5>2, <5>3, <5>4, <5>5, <5>6, Zenon DEF SecondPass
      <4>4. PrintedExactly' /\ RefusedFirst'
        BY <1>2, <1>5, <4>1 DEF PrintedExactly, RefusedFirst
      <4>5. form' \in Forms /\ slots' \in SlotLists /\ item' \in 1..(Len(form') + 1)
        BY <1>1, <1>2, <4>1 DEF PrintfInv
      <4> QED
        BY <1>2, <1>5, <4>1, <4>2, <4>3, <4>4, <4>5 DEF PrintfInv
    <3> QED
      BY <3>2, <3>3
  <2> QED
    BY <2>5, <2>6
<1> QED
  BY <1>7, <1>8

LEMMA EndsKeeps ==
  ASSUME PrintfInv, PrintEnds
  PROVE  PrintfInv'
<1>1. /\ Len(form) \in Nat /\ item \in Nat /\ item <= Len(form) + 1
      /\ Allowed => Legal
  BY InvGives
<1>2. /\ pass = "print" /\ item > Len(form) /\ ret' = cnt /\ pass' = "done"
      /\ form' = form /\ slots' = slots /\ item' = item /\ cnt' = cnt /\ out' = out /\ stores' = stores
  BY DEF PrintEnds
<1>3. Sorted /\ (Allowed => SecondPass)
  BY <1>2 DEF PrintfInv
<1>4. /\ (Allowed' <=> Allowed) /\ CStores' = CStores /\ (Sorted' <=> Sorted)
      /\ \A k : Printout(k)' = Printout(k)
  BY <1>2, SameCall
<1>5. item - 1 = Len(form)
  BY <1>1, <1>2
<1>6. ASSUME Allowed
      PROVE  /\ ~ Len(Printout(Len(form))) > MaxInt
             /\ cnt = Len(out) /\ out = Printout(Len(form))
             /\ Len(stores) = Len(CStores)
             /\ \A k \in DOMAIN stores :
                  /\ stores[k].to = CStores[k].to /\ stores[k].type = CStores[k].type
                  /\ stores[k].value = CStores[k].count % CStores[k].type
  <2>1. Legal /\ SecondPass
    BY <1>1, <1>3, <1>6
  <2>2. CStores = StoresBy(Len(form)) /\ Len(Printout(Len(form))) \in Nat
    <3>1. Len(form) \in 0..Len(form)
      BY <1>1
    <3> QED
      BY <2>1, <3>1, StoresAre, PrintoutIs
  <2>3. out = Printout(Len(form)) /\ cnt = Len(out) /\ cnt <= MaxInt
    BY <1>5, <2>1 DEF SecondPass
  <2>4. stores \in Seq(PStored) /\ Matching(stores, CStores)
    BY <1>5, <2>1, <2>2 DEF SecondPass
  <2>5. DOMAIN stores = 1..Len(stores)
    BY <2>4, LenProperties
  <2>6. ~ Len(Printout(Len(form))) > MaxInt
    BY <2>2, <2>3, MaxIntIs
  <2> QED
    BY <2>3, <2>4, <2>5, <2>6 DEF Matching
<1>7. PrintedExactly'
  BY <1>2, <1>4, <1>6 DEF PrintedExactly
<1>8. RefusedFirst'
  BY <1>2, <1>3, <1>4 DEF RefusedFirst, Sorted
<1>9. form' \in Forms /\ slots' \in SlotLists /\ item' \in 1..(Len(form') + 1)
  BY <1>2 DEF PrintfInv
<1> QED
  BY <1>2, <1>7, <1>8, <1>9 DEF PrintfInv

(* Every call of printf that C allows prints what C says, and counts and   *)
(* stores as much, or fails for more than an int can count; and where all  *)
(* arguments are named by position, what is refused is refused before      *)
(* anything is printed.                                                    *)
THEOREM PrintfExactAlways == PrintfSpec => []PrintfExact
<1>1. PrintfInit => PrintfInv
  <2> SUFFICES ASSUME PrintfInit PROVE PrintfInv
    OBVIOUS
  <2>1. /\ form \in Forms /\ slots \in SlotLists /\ pass = "types" /\ item = 1 /\ l10n = FALSE /\ used = 0
        /\ nlType = [x \in Position |-> None] /\ cnt = 0 /\ out = <<>> /\ stores = <<>> /\ ret = 0
    BY DEF PrintfInit
  <2>2. Given
    BY <2>1, PrintfAssumption DEF Given
  <2>3. Len(form) \in Nat /\ \A k \in Dirs : k \in 1..Len(form)
    BY <2>2, ItemIs
  <2>4. \A k \in Dirs : ~ k < item
    BY <2>1, <2>3
  <2>5. TypesNoted
    BY <2>1, <2>4 DEF TypesNoted
  <2>6. ASSUME Allowed PROVE cnt <= Len(Printout(item - 1))
    <3>1. Legal
      BY <2>2, <2>6 DEF Legal
    <3>2. item - 1 \in 0..Len(form)
      BY <2>1, <2>3
    <3> QED
      BY <2>1, <3>1, <3>2, PrintoutIs
  <2>7. FirstPass
    BY <2>1, <2>4, <2>5, <2>6 DEF FirstPass
  <2>8. PrintedExactly /\ RefusedFirst /\ item \in 1..(Len(form) + 1)
    BY <2>1, <2>3 DEF PrintedExactly, RefusedFirst
  <2> QED
    BY <2>1, <2>7, <2>8 DEF PrintfInv
<1>2. PrintfInv /\ [PrintfNext]_printfVars => PrintfInv'
  <2> SUFFICES ASSUME PrintfInv, [PrintfNext]_printfVars PROVE PrintfInv'
    OBVIOUS
  <2>1. CASE LiteralText
    BY <2>1, TextKeeps
  <2>2. CASE NoteTypes
    BY <2>2, NoteKeeps
  <2>3. CASE TypesEnd
    BY <2>3, TypesEndKeeps
  <2>4. CASE PrintDirective
    BY <2>4, PrintKeeps
  <2>5. CASE PrintEnds
    BY <2>5, EndsKeeps
  <2>6. CASE UNCHANGED printfVars
    <3>1. /\ form' = form /\ slots' = slots /\ pass' = pass /\ item' = item /\ l10n' = l10n /\ nlType' = nlType
          /\ nlArg' = nlArg /\ used' = used /\ cnt' = cnt /\ out' = out /\ stores' = stores /\ ret' = ret
      BY <2>6 DEF printfVars
    <3>2. /\ (Allowed' <=> Allowed) /\ (Ordered' <=> Ordered) /\ (ByPosition' <=> ByPosition)
          /\ Dirs' = Dirs /\ FirstSlot' = FirstSlot /\ NamedTypes' = NamedTypes /\ CStores' = CStores
          /\ (Sorted' <=> Sorted)
          /\ \A k : Printout(k)' = Printout(k) /\ StoresBy(k)' = StoresBy(k)
      BY <3>1, SameCall
    <3>3. TypesNoted' <=> TypesNoted
      BY <3>1, <3>2 DEF TypesNoted
    <3>4. FirstPass' <=> FirstPass
      BY <3>1, <3>2, <3>3 DEF FirstPass
    <3>5. SecondPass' <=> SecondPass
      BY <3>1, <3>2 DEF SecondPass, InTurn, Placed
    <3>6. (PrintedExactly' <=> PrintedExactly) /\ (RefusedFirst' <=> RefusedFirst)
      BY <3>1, <3>2 DEF PrintedExactly, RefusedFirst
    <3> QED
      BY <3>1, <3>2, <3>4, <3>5, <3>6 DEF PrintfInv
  <2> QED
    BY <2>1, <2>2, <2>3, <2>4, <2>5, <2>6 DEF PrintfNext
<1>3. PrintfInv => PrintfExact
  BY DEF PrintfInv, PrintfExact
<1> QED
  BY <1>1, <1>2, <1>3, PTL DEF PrintfSpec
=============================================================================
