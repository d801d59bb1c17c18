------------------------------ MODULE LoadTree ------------------------------
(***************************************************************************)
(* What loading promises, without how: modules are opened and attached     *)
(* depth first.  Module n is opened on behalf of the innermost module that *)
(* is not attached yet, its parent, and attached when it is the innermost  *)
(* itself.  Module 1 is the executable.  The process may end at any time.  *)
(***************************************************************************)
EXTENDS Integers, Sequences

VARIABLES
  parent,    \* for each module opened, the one it was opened for
  attached,  \* the modules whose entry point has returned
  ended      \* whether the process is over

treeVars == <<parent, attached, ended>>

Opened == DOMAIN parent

(* The innermost open module; 0 when there is none.                        *)
IsInnermost(m) ==
  /\ m \in {0} \cup (Opened \ attached)
  /\ \A n \in Opened : n > m => n \in attached

TreeTypeOK ==
  /\ parent \in Seq(Nat)
  /\ attached \subseteq Opened
  /\ ended \in BOOLEAN

TreeInit == parent = <<>> /\ attached = {} /\ ended = FALSE

Open ==
  /\ ~ ended
  /\ \E m \in 0..Len(parent) :
       /\ IsInnermost(m)
       /\ m = 0 => parent = <<>>
       /\ parent' = Append(parent, m)
  /\ UNCHANGED <<attached, ended>>

Attach ==
  /\ ~ ended
  /\ \E m \in Opened : /\ IsInnermost(m)
                       /\ attached' = attached \cup {m}
  /\ ended' \in BOOLEAN
  /\ UNCHANGED parent

End ==
  /\ ~ ended
  /\ ended' = TRUE
  /\ UNCHANGED <<parent, attached>>

TreeNext == Open \/ Attach \/ End
TreeSpec == TreeInit /\ [][TreeNext]_treeVars
-----------------------------------------------------------------------------
(* The modules form one tree, rooted at the executable.                    *)
OneTree ==
  \A n \in Opened : /\ parent[n] \in 0..(n - 1)
                    /\ parent[n] = 0 <=> n = 1

(* A module is attached only when all it caused to be loaded is.           *)
ChildrenFirst ==
  \A n \in Opened : parent[n] \in attached => n \in attached
=============================================================================
