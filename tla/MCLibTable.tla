----------------------------- MODULE MCLibTable -----------------------------
(***************************************************************************)
(* A small instance of LibTable: the first allocation holds two entries,   *)
(* so that five registrations outgrow it twice.                            *)
(***************************************************************************)
EXTENDS LibTable, FiniteSets

CONSTANTS MaxLibs, MaxHeld   \* bounds on the table and on the pointers kept

MCNext ==
  /\ TableNext
  /\ Len(libs') <= MaxLibs
  /\ Cardinality(held') <= MaxHeld

MCSpec == TableInit /\ [][MCNext]_tableVars
=============================================================================
