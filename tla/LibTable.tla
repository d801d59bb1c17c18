------------------------------ MODULE LibTable ------------------------------
(***************************************************************************)
(* The table of loaded libraries of loaderlib (src/src/loaderlib/main.c).  *)
(*                                                                         *)
(* The table is a growing array.  Its two operations hand out pointers     *)
(* INTO the array: an HMODULE of the guest, and the local `loaded_lib` of  *)
(* process_imports, are such pointers.  Growing the array may move it, and *)
(* a pointer issued before the move is then dangling.  The model keeps the *)
(* array, its capacity, the identity of the allocation that holds it and   *)
(* the pointers that callers still have.                                   *)
(*                                                                         *)
(* Names are compared without regard to case: a member of Name stands for  *)
(* a class of names that differ in case only.                              *)
(***************************************************************************)
EXTENDS Integers, Sequences

CONSTANTS
  Name,      \* the library names, up to case
  Handle,    \* what a table entry points to: a PeFile or a dlopen handle
  FirstCap   \* the capacity of the first allocation; 8 in the code

ASSUME FirstCapAssumption == FirstCap \in Nat \ {0}

VARIABLES
  libs,   \* the entries, in the order of registration
  cap,    \* LOADERLIB_LOADED_LIBS_CAP
  block,  \* which allocation holds the array; 0 before the first one
  held    \* the pointers callers hold, each with the entry it was issued for

tableVars == <<libs, cap, block, held>>

Lib == [name : Name, kind : {"PE", "NATIVE"}, handle : Handle]
Pointer == [block : Nat, idx : Nat \ {0}, lib : Lib]

TableTypeOK ==
  /\ libs \in Seq(Lib)
  /\ cap \in Nat
  /\ block \in Nat
  /\ held \subseteq Pointer

TableInit == libs = <<>> /\ cap = 0 /\ block = 0 /\ held = {}
-----------------------------------------------------------------------------
(* Lookup: a linear search, so the earliest of several equal names wins.   *)
FirstMatch(s, key, i) ==
  /\ i \in 1..Len(s)
  /\ s[i].name = key
  /\ \A j \in 1..(i - 1) : s[j].name # key

Find_Last(s, key) ==
  IF \E i \in 1..Len(s) : s[i].name = key
  THEN CHOOSE i \in 1..Len(s) :
         s[i].name = key /\ \A j \in (i + 1)..Len(s) : s[j].name # key
  ELSE 0

Find(s, key) ==
  IF \E i \in 1..Len(s) : FirstMatch(s, key, i)
  THEN CHOOSE i \in 1..Len(s) : FirstMatch(s, key, i)
  ELSE 0

PointerTo(b, i, s) == [block |-> b, idx |-> i, lib |-> s[i]]

(* Callers keep some of the pointers they had, and the new one or not.     *)
Retain(new) == held' \in SUBSET (held \cup {new})

GetLib(key) ==
  /\ Find(libs, key) # 0
  /\ Retain(PointerTo(block, Find(libs, key), libs))
  /\ UNCHANGED <<libs, cap, block>>
-----------------------------------------------------------------------------
(* Registration: grow when full, append, return the address of the last.   *)
Grow_ByOne(c) == c + 1
Grow(c) == IF c < FirstCap THEN FirstCap ELSE 2 * c

(* realloc keeps the array where it is when it can, and moves it when not; *)
(* realloc(NULL, n) always makes a new allocation.                         *)
Reallocate ==
  IF Len(libs) = cap
  THEN /\ cap' = Grow(cap)
       /\ \/ block' = block + 1
          \/ cap # 0 /\ block' = block
  ELSE UNCHANGED <<cap, block>>

AddLoadedLib_Front(lib) ==
  /\ Reallocate
  /\ libs' = <<lib>> \o libs
  /\ Retain(PointerTo(block', Len(libs'), libs'))

AddLoadedLib_ZeroBased(lib) ==
  /\ Reallocate
  /\ libs' = Append(libs, lib)
  /\ Retain([block |-> block', idx |-> Len(libs), lib |-> lib])

AddLoadedLib(lib) ==
  /\ Reallocate
  /\ libs' = Append(libs, lib)
  /\ Retain(PointerTo(block', Len(libs'), libs'))

(* Callers forget pointers when they return; nothing is ever unloaded      *)
(* (loaderlib_unload_lib has an empty body).                               *)
Forget ==
  /\ held' \in SUBSET held
  /\ UNCHANGED <<libs, cap, block>>

TableNext ==
  \/ \E lib \in Lib : AddLoadedLib(lib)
  \/ \E key \in Name : GetLib(key)
  \/ Forget

TableSpec == TableInit /\ [][TableNext]_tableVars
-----------------------------------------------------------------------------
(* The array never overflows its allocation, and after the first one at    *)
(* least half of it is in use: the doubling of add_loaded_lib is neither   *)
(* too late nor too generous.                                              *)
CapacityFits ==
  /\ Len(libs) <= cap
  /\ cap > FirstCap => 2 * Len(libs) > cap
  /\ (cap = 0) <=> (block = 0)

(* A pointer into the current allocation still denotes the library it was  *)
(* issued for: registration disturbs no entry a caller may hold.           *)
HandlesDenote ==
  \A p \in held : p.block = block =>
    /\ p.idx <= Len(libs)
    /\ libs[p.idx] = p.lib

(* No pointer dangles while the first allocation suffices: up to FirstCap  *)
(* libraries every HMODULE of the guest may be used.                       *)
FirstAllocationSafe ==
  Len(libs) <= FirstCap => \A p \in held : p.block = block

(* Once a name is found it is found at the same entry for ever, however    *)
(* often the name is registered again: loaderlib_get_lib is stable.        *)
LookupStable ==
  [][\A key \in Name : Find(libs, key) # 0 => Find(libs', key) = Find(libs, key)]_tableVars
=============================================================================
