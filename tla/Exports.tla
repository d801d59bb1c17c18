------------------------------ MODULE Exports -------------------------------
(***************************************************************************)
(* Export lookup in a PE image (src/src/loaderlib/exports.c): by ordinal,  *)
(* by name, and by name with the hint an import carries.                   *)
(*                                                                         *)
(* A directory has `count` functions, numbered from 0, a table of names    *)
(* and, beside it, a table that gives each name the number of its          *)
(* function.  Nothing checks a number against a table: what lies past the  *)
(* two tables is part of the image, and `past` is the name and the number  *)
(* that a hint outside them finds there.                                   *)
(***************************************************************************)
EXTENDS Integers, Sequences

CONSTANTS
  Name,     \* symbol names
  MaxU16    \* 2^16 - 1 in the code

ASSUME ExportsAssumption == MaxU16 \in Nat \ {0}

U16 == 0..MaxU16
Directory == [base : Nat, count : Nat, names : Seq(Name), numbers : Seq(U16),
              past : [name : Name, number : U16]]

(* What a lookup yields: a function's number, NULL, an address read        *)
(* outside the table of functions, or a fault.                             *)
Null == -1
Wild == -2
Faults == -3

VARIABLES
  dir,     \* the directory of the exporting image
  name,    \* what is asked for
  hint,    \* where the importer expects it
  found    \* the results: by hint, by name, by the number beside the hint

exportsVars == <<dir, name, hint, found>>
-----------------------------------------------------------------------------
(* Reading functions[k].                                                   *)
Function(d, k) == IF k < d.count THEN k ELSE Wild

(* pe_get_proc_addr with an ordinal: a pointer below 0xFFFF.  Ordinal      *)
(* 0xFFFF is taken for the address of a name.                              *)
ByOrdinal_NoBase(d, ordinal) ==
  IF ordinal = MaxU16 THEN Faults
  ELSE IF ordinal >= d.count THEN Null ELSE ordinal

ByOrdinal(d, ordinal) ==
  IF ordinal = MaxU16 THEN Faults
  ELSE IF ordinal < d.base THEN Null
  ELSE IF ordinal - d.base >= d.count THEN Null ELSE ordinal - d.base

(* pe_get_proc_addr with a name: the first entry that has it.              *)
IsFirst(d, n, i) ==
  /\ i \in 1..Len(d.names)
  /\ d.names[i] = n
  /\ \A j \in 1..(i - 1) : d.names[j] # n

ByName(d, n) ==
  IF \E i \in 1..Len(d.names) : IsFirst(d, n, i)
  THEN Function(d, d.numbers[CHOOSE i \in 1..Len(d.names) : IsFirst(d, n, i)])
  ELSE Null

(* pe_get_proc_addr_indexed: the entry at the hint if it has the name.     *)
(* Here, and only here, the ordinal base is subtracted from the number.    *)
At(d, h) ==
  IF h < Len(d.names)
  THEN [name |-> d.names[h + 1], number |-> d.numbers[h + 1]]
  ELSE d.past

ByHint_Trusting(d, n, h) ==
  Function(d, (At(d, h).number - d.base) % (MaxU16 + 1))

ByHint(d, n, h) ==
  IF At(d, h).name = n
  THEN Function(d, (At(d, h).number - d.base) % (MaxU16 + 1))
  ELSE ByName(d, n)

Results(d, n, h) ==
  [hinted |-> ByHint(d, n, h), named |-> ByName(d, n),
   ordinal |-> ByOrdinal(d, At(d, h).number)]
-----------------------------------------------------------------------------
NoResult == [hinted |-> Null, named |-> Null, ordinal |-> Null]

ExportsInit ==
  /\ dir \in Directory
  /\ Len(dir.names) = Len(dir.numbers)
  /\ name \in Name
  /\ hint \in U16
  /\ found = NoResult

Lookup ==
  /\ found' = Results(dir, name, hint)
  /\ UNCHANGED <<dir, name, hint>>

ExportsSpec == ExportsInit /\ [][Lookup]_exportsVars
-----------------------------------------------------------------------------
(* A directory as a linker writes it: no name twice, every number that of  *)
(* a function, and no name past the table that is also in a request.       *)
Distinct(d) == \A i, j \in 1..Len(d.names) : d.names[i] = d.names[j] => i = j
HintInTable == hint < Len(dir.names)

ExportsTypeOK ==
  /\ dir \in Directory /\ Len(dir.names) = Len(dir.numbers)
  /\ name \in Name /\ hint \in U16
  /\ found \in [hinted : Nat \cup {Null, Wild}, named : Nat \cup {Null, Wild},
                ordinal : Nat \cup {Null, Wild, Faults}]

(* With ordinal base 0 a hint is only a shortcut: right or wrong, it does  *)
(* not change what the name resolves to.                                   *)
HintHarmless ==
  found # NoResult /\ dir.base = 0 /\ Distinct(dir) /\ HintInTable =>
    found.hinted = found.named

(* With another base it is not: a hint that is right takes the number for  *)
(* an ordinal, and yields what that ordinal does; the lookup by name takes *)
(* it for a number.                                                        *)
HintTakesOrdinal ==
  LET number == At(dir, hint).number
  IN found # NoResult /\ HintInTable /\ At(dir, hint).name = name
     /\ number \in dir.base..(MaxU16 - 1) /\ number - dir.base < dir.count
       => found.hinted = found.ordinal

(* A name the table lacks is NULL, whatever the hint finds in the table,   *)
(* and a lookup by name never leaves the functions of a sound directory.   *)
AbsentIsNull ==
  found # NoResult /\ HintInTable
    /\ (\A i \in 1..Len(dir.names) : dir.names[i] # name)
    => found.hinted = Null
=============================================================================
