------------------------------ MODULE MCRelocs ------------------------------
(***************************************************************************)
(* An image of nine cells of two bits with one field of each kind, and     *)
(* directories of up to two blocks, sound and not.                         *)
(***************************************************************************)
EXTENDS Relocs

E(type, at) == [type |-> type, at |-> at]
Sized(entries) == [size |-> 8 + 2 * Len(entries), entries |-> entries]

Pad == E(Absolute, 0)
Fields == <<E(HighLow, 0), E(High, 2), E(Low, 3), E(Dir64, 4)>>
Whole == <<Sized(<<E(HighLow, 0), E(Dir64, 4)>>), Sized(<<E(High, 2), E(Low, 3), E(HighAdj, 8), Pad>>)>>
One == <<Sized(Fields)>>

Directories ==
  {[blocks |-> Whole, total |-> 28], [blocks |-> One, total |-> 16],
   [blocks |-> <<>>, total |-> 0],
   [blocks |-> Whole, total |-> 20],                        \* ends within a block
   [blocks |-> One, total |-> 18],                          \* nothing behind it,
   [blocks |-> One \o <<Sized(<<E(Low, 3)>>)>>, total |-> 18],  \* and something
   [blocks |-> <<[size |-> 0, entries |-> Fields]>>, total |-> 8],
   [blocks |-> <<[size |-> 9, entries |-> <<>>], [size |-> 30, entries |-> <<Pad>>]>>, total |-> 16],
   [blocks |-> [b \in 1..3 |-> [size |-> 20 + 2 * (b \div 3), entries |-> [j \in 1..6 + (b \div 3) |-> Pad]]],
    total |-> 30],                                          \* passes 2^32
   [blocks |-> <<Sized(<<E(HighLow, 8), E(Dir64, 9), E(Low, 3)>>)>>, total |-> 14],
   [blocks |-> <<Sized(<<E(HighLow, 0), E(HighLow, 0)>>)>>, total |-> 12]}

Contents ==
  {[c \in 0..8 |-> IF c \in {1, 2} THEN h ELSE IF c \in {0, 3} THEN l ELSE 3] :
     h \in 0..3, l \in 0..3}

MCImages ==
  {[linked |-> l, base |-> b, blocks |-> d.blocks, total |-> d.total,
    length |-> 9, cells |-> m] :
     l \in {0, 6}, b \in {0, 4, 6, 7, 201}, d \in Directories, m \in Contents}
=============================================================================
