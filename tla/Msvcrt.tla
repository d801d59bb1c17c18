------------------------------- MODULE Msvcrt -------------------------------
(***************************************************************************)
(* Start-up and exit functions of the guest's C runtime                    *)
(* (src/src/msvcrt/main.c): _initterm and _initterm_e run an array of      *)
(* functions, _onexit registers functions for the end of the process, and  *)
(* a handler that set_args registers with atexit runs those.               *)
(*                                                                         *)
(* The loader calls set_args for every module that imports msvcrt.dll.     *)
(* Functions that run, at start-up or at the end, may register more.       *)
(***************************************************************************)
EXTENDS Integers, Sequences

CONSTANTS
  Fn,         \* functions of the guest
  MaxFns,     \* size of onexit_fns; 32 in the code
  Arrays,     \* the arrays handed to _initterm: see ArrayOK
  MaxTold     \* bound: modules that import msvcrt.dll

Null == "NULL"

(* The cells from *ppfn to *end, and the one after, which is not part of   *)
(* the array: `cells` has at least the two of an empty array.              *)
ArrayOK(a) ==
  /\ a.cells \in Seq(Fn \cup {Null}) /\ a.end \in 1..(Len(a.cells) - 1)
  /\ a.checks \in BOOLEAN

ASSUME MsvcrtAssumption ==
  /\ MaxFns \in Nat \ {0} /\ MaxTold \in Nat
  /\ Null \notin Fn /\ <<>> \notin Arrays
  /\ \A a \in Arrays : ArrayOK(a)

VARIABLES
  pc,        \* "run", "init", "exit", "ended"
  told,      \* calls of set_args
  handlers,  \* registrations of onexit_handler that atexit still holds
  fns,       \* onexit_fns, up to onexit_count
  since,     \* for each entry, how many runs of the handler had begun
  refused,   \* the functions for which _onexit returned NULL
  array,     \* the array _initterm works on; <<>> when none
  at,        \* its ppfn
  begun,     \* the functions _initterm has called, in order
  i,         \* the index of onexit_handler
  ran        \* the calls of onexit_handler: <<which run, which entry>>

loading == <<told, handlers>>
registry == <<fns, since, refused>>
initterm == <<array, at, begun>>
vars == <<pc, loading, registry, initterm, i, ran>>

(* Runs of the handler that have begun.                                    *)
Begun == IF pc \in {"run", "init"} THEN 0 ELSE told - handlers
-----------------------------------------------------------------------------
(* set_args: once per importing module, at any time before the end.        *)
SetArgs ==
  /\ pc # "ended" /\ told < MaxTold
  /\ told' = told + 1 /\ handlers' = handlers + 1
  /\ UNCHANGED <<pc, registry, initterm, i, ran>>

(* _onexit: the guest, which has imported msvcrt.dll to call it, may       *)
(* register the same function again.                                       *)
OnExit(f) ==
  /\ pc # "ended" /\ told > 0
  /\ IF Len(fns) = MaxFns
     THEN refused' = refused \cup {f} /\ UNCHANGED <<fns, since>>
     ELSE /\ fns' = Append(fns, f)
          /\ since' = Append(since, Begun)
          /\ UNCHANGED refused
  /\ UNCHANGED <<pc, loading, initterm, i, ran>>
-----------------------------------------------------------------------------
(* _initterm, and _initterm_e, which stops when a function fails.          *)
InitStart ==
  /\ pc = "run" /\ told > 0
  /\ array' \in Arrays
  /\ at' = 1 /\ begun' = <<>> /\ pc' = "init"
  /\ UNCHANGED <<loading, registry, i, ran>>

(* One turn: the increment comes first, and the comparison is with the     *)
(* cell just called.                                                       *)
InitTurn_ToEnd(fails) ==
  LET cell == array.cells[at + 1]
      stops == at > array.end \/ (fails /\ array.checks /\ cell # Null)
  IN /\ pc = "init"
     /\ at' = at + 1
     /\ begun' = IF cell = Null THEN begun ELSE Append(begun, cell)
     /\ pc' = IF stops \/ at + 2 > Len(array.cells) THEN "run" ELSE "init"
     /\ UNCHANGED <<array, loading, registry, i, ran>>

InitTurn(fails) ==
  LET cell == array.cells[at + 1]
      stops == at + 1 >= array.end \/ (fails /\ array.checks /\ cell # Null)
  IN /\ pc = "init"
     /\ at' = at + 1
     /\ begun' = IF cell = Null THEN begun ELSE Append(begun, cell)
     /\ pc' = IF stops THEN "run" ELSE "init"
     /\ UNCHANGED <<array, loading, registry, i, ran>>
-----------------------------------------------------------------------------
(* exit: atexit runs its registrations, and so onexit_handler as often as  *)
(* it was registered.  A function that calls exit again is left out.       *)
NextHandler ==
  IF handlers > 0
  THEN pc' = "exit" /\ handlers' = handlers - 1 /\ i' = 0
  ELSE pc' = "ended" /\ UNCHANGED <<handlers, i>>

Exit ==
  /\ pc \in {"run", "init"}
  /\ NextHandler
  /\ UNCHANGED <<told, registry, initterm, ran>>

HandlerTurn_Misses ==
  /\ pc = "exit" /\ i + 1 < Len(fns)
  /\ ran' = Append(ran, <<Begun, i + 1>>)
  /\ i' = i + 1
  /\ UNCHANGED <<pc, loading, registry, initterm>>

HandlerTurn ==
  /\ pc = "exit" /\ i < Len(fns)
  /\ ran' = Append(ran, <<Begun, i + 1>>)
  /\ i' = i + 1
  /\ UNCHANGED <<pc, loading, registry, initterm>>

HandlerDone_CountsFirst ==
  /\ pc = "exit" /\ (\A k \in DOMAIN fns : k > i => since[k] = Begun)
  /\ NextHandler
  /\ UNCHANGED <<told, registry, initterm, ran>>

HandlerDone ==
  /\ pc = "exit" /\ i = Len(fns)
  /\ NextHandler
  /\ UNCHANGED <<told, registry, initterm, ran>>
-----------------------------------------------------------------------------
Init ==
  /\ pc = "run" /\ told = 0 /\ handlers = 0
  /\ fns = <<>> /\ since = <<>> /\ refused = {}
  /\ array = <<>> /\ at = 0 /\ begun = <<>>
  /\ i = 0 /\ ran = <<>>

Next ==
  \/ SetArgs
  \/ \E f \in Fn : OnExit(f)
  \/ InitStart
  \/ \E fails \in BOOLEAN : InitTurn(fails)
  \/ Exit \/ HandlerTurn \/ HandlerDone

(* Exit handlers run to their end: they are called by exit, on one thread. *)
Fairness == WF_vars(HandlerTurn \/ HandlerDone)

Spec == Init /\ [][Next]_vars /\ Fairness
-----------------------------------------------------------------------------
TypeOK ==
  /\ pc \in {"run", "init", "exit", "ended"}
  /\ told \in 0..MaxTold /\ handlers \in 0..told
  /\ fns \in Seq(Fn) /\ Len(fns) <= MaxFns
  /\ since \in Seq(0..MaxTold) /\ Len(since) = Len(fns)
  /\ refused \subseteq Fn
  /\ array \in Arrays \cup {<<>>} /\ at \in Nat /\ begun \in Seq(Fn)
  /\ i \in 0..Len(fns) /\ ran \in Seq((1..MaxTold) \X (1..MaxFns))

(* Every accepted function runs at the end, once for each run of the       *)
(* handler that was not over when it was registered: once when one module  *)
(* imports msvcrt.dll, more often otherwise.  A function registered by     *)
(* another one at the end still runs.                                      *)
Runs(k) == {n \in DOMAIN ran : ran[n][2] = k}
RunsOncePerImporter ==
  pc = "ended" =>
    \A k \in DOMAIN fns : \A r \in 1..told :
      LET times == {n \in Runs(k) : ran[n][1] = r}
      IN IF r < since[k] THEN times = {} ELSE \E n \in times : times = {n}

(* An array with NULL at both ends, as a linker lays it out, has just what *)
(* lies between called, in order and each once, and nothing beyond it.     *)
(* UpTo: the functions in the cells after the first, up to each cell.      *)
UpTo(a) ==
  LET upTo[n \in 0..Len(a.cells)] ==
        IF n <= 1 THEN <<>>
        ELSE IF a.cells[n] = Null THEN upTo[n - 1]
        ELSE Append(upTo[n - 1], a.cells[n])
  IN upTo
Between(a) == UpTo(a)[a.end - 1]
LaidOut(a) == a.end > 1 /\ a.cells[1] = Null /\ a.cells[a.end] = Null
InittermExact ==
  array # <<>> /\ LaidOut(array) =>
    /\ Len(begun) <= Len(Between(array))
    /\ begun = SubSeq(Between(array), 1, Len(begun))
    /\ pc = "run" /\ ~ array.checks => begun = Between(array)

(* Exit comes to its end, whatever the functions register meanwhile: the   *)
(* table is finite, and so is the number of modules.                       *)
ExitEnds == pc = "exit" ~> pc = "ended"
=============================================================================
