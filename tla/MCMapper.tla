------------------------------ MODULE MCMapper ------------------------------
(***************************************************************************)
(* Small images: pages of two bytes and sizes of four bits, with up to two *)
(* sections that may overlap, lie outside the image or outside the file,   *)
(* and an import address table in the headers or in the first section.     *)
(***************************************************************************)
EXTENDS Mapper

Sections ==
  [va : {2, 4}, vsize : {0, 1, 4}, raw : {1, 4}, rawSize : {0, 3}]

NoIat == [va |-> 0, size |-> 0]

MCInputs ==
  [build : {32, 64}, header : {"none", "badMachine", "badMagic", "pe64", "pe32"},
   size : {5}, stripped : BOOLEAN, imageSize : {0, 5, 8, 15},
   headerSize : {0, 2, 6}, sections : {<<>>},
   iat : {NoIat}]
  \cup
  [build : {64}, header : {"pe64"}, size : {6}, stripped : {FALSE},
   imageSize : {5, 8}, headerSize : {1, 2},
   sections : {<<s>> : s \in Sections} \cup {<<s, t>> : s, t \in Sections},
   iat : {NoIat} \cup [va : {1, 2}, size : {1, 2}]]
=============================================================================
