------------------------------ MODULE MCMsvcrt ------------------------------
(***************************************************************************)
(* Two functions, a table of three, and arrays that are laid out as by a   *)
(* linker, empty, or without their NULLs.                                  *)
(***************************************************************************)
EXTENDS Msvcrt

Array(cells, checks) == [cells |-> cells, end |-> Len(cells) - 1, checks |-> checks]

MCArrays ==
  {Array(<<Null, "f", Null, "g", Null, "g">>, b) : b \in BOOLEAN}
  \cup {Array(<<Null, "f">>, FALSE), Array(<<"f", "g", "f">>, FALSE)}
=============================================================================
