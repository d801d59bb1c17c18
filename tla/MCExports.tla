----------------------------- MODULE MCExports ------------------------------
(***************************************************************************)
(* All export directories with up to MaxNames names and MaxCount functions *)
(* and 16-bit numbers scaled down to 0..MaxU16.                            *)
(***************************************************************************)
EXTENDS Exports

CONSTANTS MaxNames, MaxCount, Bases   \* bounds on the directory

MCDirectory ==
  UNION {[base : Bases, count : 0..MaxCount, names : [1..n -> Name],
          numbers : [1..n -> U16], past : [name : Name, number : U16]] :
           n \in 0..MaxNames}

MCInit ==
  /\ dir \in MCDirectory
  /\ name \in Name
  /\ hint \in U16
  /\ found = NoResult

MCSpec == MCInit /\ [][Lookup]_exportsVars
=============================================================================
