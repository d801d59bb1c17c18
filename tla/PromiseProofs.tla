--------------------------- MODULE PromiseProofs ---------------------------
(***************************************************************************)
(* Proofs about the two specifications that Loader implements: LibTable,   *)
(* for every set of names and handles and every first capacity, and        *)
(* LoadTree, for any number of modules.                                    *)
(*                                                                         *)
(* The properties of LibTable that TLC checks are not inductive: the       *)
(* invariant adds that even a dangling pointer was issued for an entry     *)
(* that is still in the table, and that the second capacity is at least    *)
(* twice the first.  Of LoadTree, ChildrenFirst is inductive together with *)
(* OneTree: a child is younger than its parent, so an innermost parent has *)
(* attached children only.                                                 *)
(***************************************************************************)
EXTENDS LibTable, LoadTree, SequenceTheorems, TLAPS

CapInv ==
  /\ Len(libs) <= cap
  /\ cap = 0 => block = 0 /\ held = {}
  /\ cap # 0 => block >= 1 /\ cap >= FirstCap
  /\ cap = FirstCap => block = 1
  /\ cap > FirstCap => cap >= 2 * FirstCap /\ 2 * Len(libs) > cap

HeldInv ==
  \A p \in held : /\ p.block \in 1..block
                  /\ p.idx \in 1..Len(libs)
                  /\ libs[p.idx] = p.lib

TableInv == TableTypeOK /\ CapInv /\ HeldInv
-----------------------------------------------------------------------------
(* Growing gives room for one more entry, and keeps the table half full.   *)
LEMMA GrowMakesRoom ==
  ASSUME NEW c \in Nat
  PROVE  /\ Grow(c) \in Nat
         /\ Grow(c) > c
         /\ Grow(c) >= FirstCap
         /\ c = 0 => Grow(c) = FirstCap
         /\ c >= FirstCap => Grow(c) = 2 * c
  BY FirstCapAssumption DEF Grow

(* The first match of a name is the same before and after an append.       *)
LEMMA FirstMatchUnique ==
  ASSUME NEW s \in Seq(Lib), NEW key,
         NEW i, FirstMatch(s, key, i),
         NEW j, FirstMatch(s, key, j)
  PROVE  i = j
<1>1. Len(s) \in Nat
  BY LenProperties
<1>2. i \in Int /\ j \in Int
  BY <1>1 DEF FirstMatch
<1>3. ~ (i < j)
  BY <1>1, <1>2 DEF FirstMatch
<1>4. ~ (j < i)
  BY <1>1, <1>2 DEF FirstMatch
<1> QED
  BY <1>2, <1>3, <1>4

LEMMA FirstMatchAppend ==
  ASSUME NEW s \in Seq(Lib), NEW lib \in Lib, NEW key,
         NEW i, FirstMatch(s, key, i)
  PROVE  FirstMatch(Append(s, lib), key, i)
<1>1. /\ Len(s) \in Nat
      /\ Len(Append(s, lib)) = Len(s) + 1
      /\ \A k \in 1..Len(s) : Append(s, lib)[k] = s[k]
  BY AppendProperties, LenProperties
<1>2. i \in 1..Len(s) /\ i \in 1..(Len(s) + 1)
  BY <1>1 DEF FirstMatch
<1>3. \A k \in 1..(i - 1) : k \in 1..Len(s)
  BY <1>1, <1>2
<1> QED
  BY <1>1, <1>2, <1>3 DEF FirstMatch

(* What Find returns is a first match, when there is one.                  *)
LEMMA FindIsFirstMatch ==
  ASSUME NEW s, NEW key, Find(s, key) # 0
  PROVE  FirstMatch(s, key, Find(s, key))
<1>1. \E i \in 1..Len(s) : FirstMatch(s, key, i)
  BY DEF Find
<1>2. Find(s, key) = CHOOSE i \in 1..Len(s) : FirstMatch(s, key, i)
  BY <1>1 DEF Find
<1> QED
  BY <1>1, <1>2

(* loaderlib_get_lib finds a name where it found it before a registration. *)
LEMMA FindAppend ==
  ASSUME NEW s \in Seq(Lib), NEW lib \in Lib, NEW key, Find(s, key) # 0
  PROVE  Find(Append(s, lib), key) = Find(s, key)
<1> DEFINE t == Append(s, lib)
<1>1. FirstMatch(s, key, Find(s, key))
  BY FindIsFirstMatch
<1>2. FirstMatch(t, key, Find(s, key))
  BY <1>1, FirstMatchAppend
<1>3. t \in Seq(Lib)
  BY AppendProperties
<1>4. Find(s, key) \in 1..Len(t)
  BY <1>2 DEF FirstMatch
<1>5. Find(t, key) = CHOOSE i \in 1..Len(t) : FirstMatch(t, key, i)
  BY <1>2, <1>4 DEF Find
<1>6. FirstMatch(t, key, Find(t, key))
  BY <1>2, <1>4, <1>5
<1> QED
  BY <1>2, <1>3, <1>6, FirstMatchUnique
-----------------------------------------------------------------------------
LEMMA InitInv == TableInit => TableInv
  BY FirstCapAssumption
  DEF TableInit, TableInv, TableTypeOK, CapInv, HeldInv

(* Registration preserves the invariant.                                   *)
LEMMA AddInv ==
  ASSUME TableInv, NEW lib \in Lib, AddLoadedLib(lib)
  PROVE  TableInv'
<1> USE DEF TableInv, TableTypeOK
<1>1. /\ libs' = Append(libs, lib)
      /\ libs' \in Seq(Lib)
      /\ Len(libs) \in Nat
      /\ Len(libs') = Len(libs) + 1
      /\ libs'[Len(libs) + 1] = lib
      /\ \A k \in 1..Len(libs) : libs'[k] = libs[k]
  BY AppendProperties, LenProperties DEF AddLoadedLib
<1>2. held' \subseteq held \cup {PointerTo(block', Len(libs'), libs')}
  BY DEF AddLoadedLib, Retain
<1>3. /\ cap' \in Nat
      /\ block' \in Nat
      /\ block' >= block
      /\ block' >= 1
      /\ CapInv'
  <2>1. CASE Len(libs) = cap
    <3>1. /\ cap' = Grow(cap)
          /\ \/ block' = block + 1
             \/ cap # 0 /\ block' = block
      BY <2>1 DEF AddLoadedLib, Reallocate
    <3>2. cap = 0 \/ cap >= FirstCap
      BY DEF CapInv
    <3>3. cap' \in Nat /\ cap' > cap /\ cap' >= FirstCap
      BY <3>1, GrowMakesRoom
    <3>4. CASE cap = 0
      <4>1. cap' = FirstCap
        BY <3>1, <3>4, GrowMakesRoom
      <4>2. block' = 1 /\ Len(libs') = 1
        BY <1>1, <2>1, <3>1, <3>4 DEF CapInv
      <4> QED
        BY <4>1, <4>2, <3>4, FirstCapAssumption DEF CapInv
    <3>5. CASE cap >= FirstCap
      <4>1. cap' = 2 * cap /\ cap # 0
        BY <3>1, <3>5, GrowMakesRoom, FirstCapAssumption
      <4>2. block' >= block /\ block >= 1 /\ block' \in Nat
        BY <3>1, <4>1 DEF CapInv
      <4>3. Len(libs') = cap + 1
        BY <1>1, <2>1
      <4> QED
        BY <3>3, <3>5, <4>1, <4>2, <4>3, FirstCapAssumption DEF CapInv
    <3> QED
      BY <3>2, <3>4, <3>5
  <2>2. CASE Len(libs) # cap
    <3>1. cap' = cap /\ block' = block
      BY <2>2 DEF AddLoadedLib, Reallocate
    <3> QED
      BY <1>1, <2>2, <3>1, FirstCapAssumption DEF CapInv
  <2> QED
    BY <2>1, <2>2
<1>4. PointerTo(block', Len(libs'), libs') =
        [block |-> block', idx |-> Len(libs) + 1, lib |-> lib]
  BY <1>1 DEF PointerTo
<1>5. held' \subseteq Pointer
  BY <1>1, <1>2, <1>3, <1>4 DEF Pointer
<1>6. HeldInv'
  <2> SUFFICES ASSUME NEW p \in held'
               PROVE  /\ p.block \in 1..(block')
                      /\ p.idx \in 1..Len(libs')
                      /\ libs'[p.idx] = p.lib
    BY DEF HeldInv
  <2>1. CASE p \in held
    <3>1. p.block \in 1..block /\ p.idx \in 1..Len(libs) /\ libs[p.idx] = p.lib
      BY <2>1 DEF HeldInv
    <3> QED
      BY <1>1, <1>3, <3>1
  <2>2. CASE p = [block |-> block', idx |-> Len(libs) + 1, lib |-> lib]
    BY <1>1, <1>3, <2>2
  <2> QED
    BY <1>2, <1>4, <2>1, <2>2
<1> QED
  BY <1>1, <1>3, <1>5, <1>6

(* A lookup hands out one more pointer into the current allocation.        *)
LEMMA GetInv ==
  ASSUME TableInv, NEW key \in Name, GetLib(key)
  PROVE  TableInv'
<1> USE DEF TableInv, TableTypeOK
<1>1. /\ UNCHANGED <<libs, cap, block>>
      /\ Find(libs, key) # 0
  BY DEF GetLib
<1>2. held' \subseteq held \cup {PointerTo(block, Find(libs, key), libs)}
  BY DEF GetLib, Retain
<1>3. Find(libs, key) \in 1..Len(libs)
  BY <1>1, FindIsFirstMatch DEF FirstMatch
<1>4. Len(libs) \in Nat /\ libs[Find(libs, key)] \in Lib
  BY <1>3, LenProperties, ElementOfSeq
<1>5. cap # 0 /\ block >= 1
  BY <1>3, <1>4 DEF CapInv
<1>6. CapInv'
  BY <1>1, <1>5 DEF CapInv
<1>7. held' \subseteq Pointer
  BY <1>2, <1>3, <1>4 DEF Pointer, PointerTo
<1>8. HeldInv'
  BY <1>1, <1>2, <1>3, <1>4, <1>5 DEF HeldInv, PointerTo
<1> QED
  BY <1>1, <1>6, <1>7, <1>8

LEMMA StepInv == TableInv /\ [TableNext]_tableVars => TableInv'
<1> SUFFICES ASSUME TableInv, [TableNext]_tableVars
             PROVE  TableInv'
  OBVIOUS
<1>1. CASE \E lib \in Lib : AddLoadedLib(lib)
  BY <1>1, AddInv
<1>2. CASE \E key \in Name : GetLib(key)
  BY <1>2, GetInv
<1>3. CASE Forget
  BY <1>3 DEF Forget, TableInv, TableTypeOK, CapInv, HeldInv
<1>4. CASE UNCHANGED tableVars
  BY <1>4 DEF tableVars, TableInv, TableTypeOK, CapInv, HeldInv
<1> QED
  BY <1>1, <1>2, <1>3, <1>4 DEF TableNext

(* The inductive invariant holds of every behaviour of the table.          *)
THEOREM TableInvariance == TableSpec => []TableInv
  BY InitInv, StepInv, PTL DEF TableSpec

(* add_loaded_lib and loaderlib_get_lib keep the table well formed.        *)
THEOREM TableTypeCorrect == TableSpec => []TableTypeOK
<1>1. TableInv => TableTypeOK
  BY DEF TableInv
<1> QED
  BY <1>1, TableInvariance, PTL

(* The array is never written past its allocation, and is at least half    *)
(* used once it has grown (main.c:26-31).                                  *)
THEOREM TableCapacityFits == TableSpec => []CapacityFits
<1>1. TableInv => CapacityFits
  BY DEF TableInv, CapInv, CapacityFits
<1> QED
  BY <1>1, TableInvariance, PTL

(* A pointer into the current allocation denotes what it was issued for    *)
(* (main.c:31-32, 46-48).                                                  *)
THEOREM TableHandlesDenote == TableSpec => []HandlesDenote
<1>1. TableInv => HandlesDenote
  <2> SUFFICES ASSUME TableInv, NEW p \in held, p.block = block
               PROVE  p.idx <= Len(libs) /\ libs[p.idx] = p.lib
    BY DEF HandlesDenote
  <2>1. Len(libs) \in Nat
    BY LenProperties DEF TableInv, TableTypeOK
  <2> QED
    BY <2>1 DEF TableInv, HeldInv
<1> QED
  BY <1>1, TableInvariance, PTL

(* No pointer dangles until the first allocation is full (main.c:26-28).   *)
THEOREM TableFirstAllocationSafe == TableSpec => []FirstAllocationSafe
<1>1. TableInv => FirstAllocationSafe
  <2> SUFFICES ASSUME TableInv, Len(libs) <= FirstCap, NEW p \in held
               PROVE  p.block = block
    BY DEF FirstAllocationSafe
  <2>1. Len(libs) \in Nat /\ cap \in Nat /\ block \in Nat
    BY LenProperties DEF TableInv, TableTypeOK
  <2>2. cap = FirstCap
    BY <2>1, FirstCapAssumption DEF TableInv, CapInv
  <2> QED
    BY <2>1, <2>2 DEF TableInv, CapInv, HeldInv
<1> QED
  BY <1>1, TableInvariance, PTL

(* A name once found stays at its entry: registration appends, and the     *)
(* search takes the first match (main.c:31, 45-48).                        *)
THEOREM TableLookupStable == TableSpec => LookupStable
<1>1. TableInv /\ [TableNext]_tableVars =>
        [\A key \in Name :
           Find(libs, key) # 0 => Find(libs', key) = Find(libs, key)]_tableVars
  <2> SUFFICES ASSUME TableInv, [TableNext]_tableVars,
                      NEW key \in Name, Find(libs, key) # 0
               PROVE  Find(libs', key) = Find(libs, key)
    OBVIOUS
  <2>1. ASSUME NEW lib \in Lib, AddLoadedLib(lib)
        PROVE  Find(libs', key) = Find(libs, key)
    BY <2>1, FindAppend DEF AddLoadedLib, TableInv, TableTypeOK
  <2>2. ASSUME libs' = libs
        PROVE  Find(libs', key) = Find(libs, key)
    BY <2>2
  <2> QED
    BY <2>1, <2>2 DEF TableNext, GetLib, Forget, tableVars
<1> QED
  BY <1>1, TableInvariance, PTL DEF TableSpec, LookupStable
-----------------------------------------------------------------------------
TreeInv == TreeTypeOK /\ OneTree /\ ChildrenFirst

LEMMA OpenedRange == parent \in Seq(Nat) => /\ Len(parent) \in Nat
                                            /\ Opened = 1..Len(parent)
  BY LenProperties DEF Opened

LEMMA TreeInitInv == TreeInit => TreeInv
<1> SUFFICES ASSUME TreeInit PROVE TreeInv
  OBVIOUS
<1>1. parent \in Seq(Nat) /\ Len(parent) = 0
  BY EmptySeq DEF TreeInit
<1>2. Opened = {}
  BY <1>1, OpenedRange
<1> QED
  BY <1>1, <1>2 DEF TreeInit, TreeInv, TreeTypeOK, OneTree, ChildrenFirst

(* Opening a module adds a leaf below an unattached one.                   *)
LEMMA OpenInv == ASSUME TreeInv, Open PROVE TreeInv'
<1> USE DEF TreeInv
<1>1. PICK m \in 0..Len(parent) : /\ IsInnermost(m)
                                  /\ m = 0 => parent = <<>>
                                  /\ parent' = Append(parent, m)
  BY DEF Open
<1>2. attached' = attached /\ ended' = ended
  BY DEF Open
<1>3. Len(parent) \in Nat /\ Opened = 1..Len(parent)
  BY OpenedRange DEF TreeTypeOK
<1>4. m \in Nat /\ parent \in Seq(Nat)
  BY <1>1, <1>3 DEF TreeTypeOK
<1>5. /\ parent' \in Seq(Nat)
      /\ Len(parent') = Len(parent) + 1
      /\ parent'[Len(parent) + 1] = m
      /\ \A k \in 1..Len(parent) : parent'[k] = parent[k]
  BY <1>1, <1>4, AppendProperties
<1>6. Opened' = 1..(Len(parent) + 1)
  BY <1>5, LenProperties DEF Opened
<1>7. TreeTypeOK'
  BY <1>2, <1>3, <1>5, <1>6 DEF TreeTypeOK
<1>8. m = 0 <=> Len(parent) = 0
  BY <1>1, <1>3, EmptySeq
<1>9. OneTree'
  <2> SUFFICES ASSUME NEW n \in Opened'
               PROVE  parent'[n] \in 0..(n - 1) /\ (parent'[n] = 0 <=> n = 1)
    BY DEF OneTree
  <2>1. CASE n = Len(parent) + 1
    BY <1>1, <1>3, <1>5, <1>8, <2>1
  <2>2. CASE n \in 1..Len(parent)
    BY <1>3, <1>5, <2>2 DEF OneTree
  <2> QED
    BY <1>3, <1>6, <2>1, <2>2
<1>10. m \notin attached
  BY <1>1, <1>3 DEF IsInnermost, TreeTypeOK
<1>11. ChildrenFirst'
  <2> SUFFICES ASSUME NEW n \in Opened', parent'[n] \in attached
               PROVE  n \in attached
    BY <1>2 DEF ChildrenFirst
  <2>1. n # Len(parent) + 1
    BY <1>5, <1>10
  <2>2. n \in 1..Len(parent)
    BY <1>3, <1>6, <2>1
  <2> QED
    BY <1>3, <1>5, <2>2 DEF ChildrenFirst
<1> QED
  BY <1>7, <1>9, <1>11

(* Attaching the innermost module leaves none of its children behind.      *)
LEMMA AttachInv == ASSUME TreeInv, Attach PROVE TreeInv'
<1> USE DEF TreeInv
<1>1. PICK m \in Opened : IsInnermost(m) /\ attached' = attached \cup {m}
  BY DEF Attach
<1>2. parent' = parent /\ ended' \in BOOLEAN
  BY DEF Attach
<1>3. Opened' = Opened /\ Opened = 1..Len(parent) /\ Len(parent) \in Nat
  BY <1>2, OpenedRange DEF Opened, TreeTypeOK
<1>4. TreeTypeOK' /\ OneTree'
  BY <1>1, <1>2, <1>3 DEF TreeTypeOK, OneTree
<1>5. ChildrenFirst'
  <2> SUFFICES ASSUME NEW n \in Opened, parent[n] \in attached \cup {m}
               PROVE  n \in attached \cup {m}
    BY <1>1, <1>2, <1>3 DEF ChildrenFirst
  <2>1. CASE parent[n] \in attached
    BY <2>1 DEF ChildrenFirst
  <2>2. CASE parent[n] = m
    <3>1. m < n
      BY <1>3, <2>2 DEF OneTree
    <3> QED
      BY <1>1, <3>1 DEF IsInnermost
  <2> QED
    BY <2>1, <2>2
<1> QED
  BY <1>4, <1>5

LEMMA TreeStepInv == TreeInv /\ [TreeNext]_treeVars => TreeInv'
<1> SUFFICES ASSUME TreeInv, [TreeNext]_treeVars PROVE TreeInv'
  OBVIOUS
<1>1. CASE Open
  BY <1>1, OpenInv
<1>2. CASE Attach
  BY <1>2, AttachInv
<1>3. CASE End
  BY <1>3 DEF End, TreeInv, TreeTypeOK, OneTree, ChildrenFirst, Opened
<1>4. CASE UNCHANGED treeVars
  BY <1>4 DEF treeVars, TreeInv, TreeTypeOK, OneTree, ChildrenFirst, Opened
<1> QED
  BY <1>1, <1>2, <1>3, <1>4 DEF TreeNext

(* The load tree is well formed in every behaviour.                        *)
THEOREM TreeInvariance == TreeSpec => []TreeInv
  BY TreeInitInv, TreeStepInv, PTL DEF TreeSpec

(* The modules form one tree rooted at the executable: each is opened by   *)
(* process_imports or LoadLibraryW on behalf of an earlier one.            *)
THEOREM TreeIsOne == TreeSpec => []OneTree
<1>1. TreeInv => OneTree
  BY DEF TreeInv
<1> QED
  BY <1>1, TreeInvariance, PTL

(* invoke_entry returns for a module only after it has for all the modules *)
(* its imports and its own code loaded.                                    *)
THEOREM TreeChildrenFirst == TreeSpec => []ChildrenFirst
<1>1. TreeInv => ChildrenFirst
  BY DEF TreeInv
<1> QED
  BY <1>1, TreeInvariance, PTL
=============================================================================
