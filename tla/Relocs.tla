------------------------------- MODULE Relocs -------------------------------
(***************************************************************************)
(* Base relocations (apply_relocations, src/src/loaderlib/relocs.c): the   *)
(* walk over the blocks of the relocation directory, and what each entry   *)
(* adds to the image.                                                      *)
(*                                                                         *)
(* The image is a row of 16-bit cells, the least significant of a field    *)
(* first; C is the number of values of a cell, 2^16 in the code.  Entries  *)
(* that are not on a 16-bit boundary, and relocations of the directory by  *)
(* itself, are left out.                                                   *)
(***************************************************************************)
EXTENDS Integers, Sequences

CONSTANTS
  C,        \* 2^16 in the code
  U32,      \* 2^32 in the code
  Images    \* the images considered: see ImageOK

HeaderSize == 8

ASSUME RelocsAssumption == C \in Nat \ {0, 1} /\ U32 \in Nat /\ U32 > HeaderSize

VARIABLES
  image,   \* where it is linked, where it is mapped, and its directory
  cells,   \* the memory of the image
  blk,     \* the block at `relocs`, from 1
  done,    \* `i`: bytes passed, the current block included
  ent,     \* entries of the current block applied
  pc       \* "start", "block", "entries", "done", "crash"

vars == <<image, cells, blk, done, ent, pc>>

(* C to the power of n, for the widths a field has.                        *)
Power(n) ==
  CASE n = 0 -> 1
    [] n = 1 -> C
    [] n = 2 -> C * C
    [] n = 3 -> C * C * C
    [] n = 4 -> C * C * C * C

Absolute == 0
High == 1
Low == 2
HighLow == 3
HighAdj == 4
Dir64 == 10

Entry == [type : 0..15, at : Nat]
Block == [size : 0..(U32 - 1), entries : Seq(Entry)]

(* How many entries a block says it has: 2^31 - 4 and more when it says it *)
(* is shorter than its header.                                             *)
Count(b) == ((b.size - HeaderSize) % U32) \div 2

(* `blocks` are the blocks as the walk meets them, whether inside the      *)
(* directory, which is `total` long, or in what lies behind it and is read *)
(* as blocks; and in each the entries it counts.  Either sequence is       *)
(* shorter when the memory ends.                                           *)
ImageOK(i) ==
  /\ i.linked \in 0..(Power(4) - 1) /\ i.base \in 0..(Power(4) - 1)
  /\ i.blocks \in Seq(Block) /\ i.total \in 0..(U32 - 1)
  /\ \A b \in DOMAIN i.blocks : Len(i.blocks[b].entries) <= Count(i.blocks[b])
  /\ i.cells \in [0..(i.length - 1) -> 0..(C - 1)]

ASSUME ImagesAssumption == \A i \in Images : ImageOK(i)

Delta == (image.base - image.linked) % Power(4)
-----------------------------------------------------------------------------
Sum(s) == LET sum[i \in 0..Len(s)] == IF i = 0 THEN 0 ELSE sum[i - 1] + s[i] IN sum[Len(s)]

(* A field of `n` cells at cell `c`, and the cells with it increased.      *)
Field(m, c, n) == Sum([i \in 1..n |-> m[c + i - 1] * Power(i - 1)])

Plus(m, c, n, d) ==
  LET sum == (Field(m, c, n) + d) % Power(n)
  IN [x \in DOMAIN m |->
        IF x \in c..(c + n - 1) THEN (sum \div Power(x - c)) % C ELSE m[x]]

(* What one entry does; ABSOLUTE, HIGHADJ and the rest do nothing.         *)
Width(type) ==
  CASE type \in {High, Low} -> 1
    [] type = HighLow -> 2
    [] type = Dir64 -> 4
    [] OTHER -> 0

Applied_HalvesSwapped(m, e) ==
  CASE e.type = Low -> Plus(m, e.at, 1, (Delta \div C) % C)
    [] e.type = High -> Plus(m, e.at, 1, Delta % C)
    [] e.type = HighLow -> Plus(m, e.at, 2, Delta % Power(2))
    [] e.type = Dir64 -> Plus(m, e.at, 4, Delta)
    [] OTHER -> m

Applied_WideHighLow(m, e) ==
  CASE e.type = Low -> Plus(m, e.at, 1, Delta % C)
    [] e.type = High -> Plus(m, e.at, 1, (Delta \div C) % C)
    [] e.type \in {HighLow, Dir64} -> Plus(m, e.at, 4, Delta)
    [] OTHER -> m

Applied(m, e) ==
  CASE e.type = Low -> Plus(m, e.at, 1, Delta % C)
    [] e.type = High -> Plus(m, e.at, 1, (Delta \div C) % C)
    [] e.type = HighLow -> Plus(m, e.at, 2, Delta % Power(2))
    [] e.type = Dir64 -> Plus(m, e.at, 4, Delta)
    [] OTHER -> m
-----------------------------------------------------------------------------
Init ==
  /\ image \in Images
  /\ cells = image.cells
  /\ blk = 1 /\ done = 0 /\ ent = 0 /\ pc = "start"

Start ==
  /\ pc = "start"
  /\ pc' = IF Delta = 0 THEN "done" ELSE "block"
  /\ UNCHANGED <<image, cells, blk, done, ent>>

(* The head of the outer loop.                                             *)
MoreBlocks == blk <= Len(image.blocks)

NextBlock_AfterHeader ==
  /\ pc = "block" /\ done < image.total /\ MoreBlocks
  /\ done' = (done + image.blocks[blk].size - HeaderSize) % U32
  /\ pc' = "entries" /\ ent' = 0
  /\ UNCHANGED <<image, cells, blk>>

NextBlock ==
  /\ pc = "block" /\ done < image.total /\ MoreBlocks
  /\ done' = (done + image.blocks[blk].size) % U32
  /\ pc' = "entries" /\ ent' = 0
  /\ UNCHANGED <<image, cells, blk>>

NoMoreBlocks ==
  /\ pc = "block" /\ done < image.total /\ ~ MoreBlocks
  /\ pc' = "crash"
  /\ UNCHANGED <<image, cells, blk, done, ent>>

Entries == image.blocks[blk].entries
CellsOf(e) == e.at..(e.at + Width(e.type) - 1)
Inside(e) == CellsOf(e) \subseteq DOMAIN cells

ApplyEntry_Twice ==
  /\ pc = "entries" /\ ent < Len(Entries) /\ Inside(Entries[ent + 1])
  /\ cells' = Applied(Applied(cells, Entries[ent + 1]), Entries[ent + 1])
  /\ ent' = ent + 1
  /\ UNCHANGED <<image, blk, done, pc>>

ApplyEntry ==
  /\ pc = "entries" /\ ent < Len(Entries) /\ Inside(Entries[ent + 1])
  /\ cells' = Applied(cells, Entries[ent + 1])
  /\ ent' = ent + 1
  /\ UNCHANGED <<image, blk, done, pc>>

(* A field that is not in the image is in memory nobody has, or in that of *)
(* somebody else; of one across the end, some cells are the image's.       *)
WriteOutside ==
  /\ pc = "entries" /\ ent < Len(Entries) /\ ~ Inside(Entries[ent + 1])
  /\ \/ pc' = "crash" /\ cells' = cells
     \/ /\ pc' = pc
        /\ \E m \in [CellsOf(Entries[ent + 1]) \cap DOMAIN cells -> 0..(C - 1)] :
             cells' = [c \in DOMAIN cells |-> IF c \in DOMAIN m THEN m[c] ELSE cells[c]]
  /\ ent' = ent + 1
  /\ UNCHANGED <<image, blk, done>>

NoMoreEntries ==
  /\ pc = "entries" /\ ent = Len(Entries) /\ ent < Count(image.blocks[blk])
  /\ pc' = "crash"
  /\ UNCHANGED <<image, cells, blk, done, ent>>

BlockDone ==
  /\ pc = "entries" /\ ent = Count(image.blocks[blk])
  /\ blk' = blk + 1
  /\ pc' = "block"
  /\ UNCHANGED <<image, cells, done, ent>>

Finish ==
  /\ pc = "block" /\ done >= image.total
  /\ pc' = "done"
  /\ UNCHANGED <<image, cells, blk, done, ent>>

Step ==
  \/ Start \/ NextBlock \/ NoMoreBlocks
  \/ ApplyEntry \/ WriteOutside \/ NoMoreEntries
  \/ BlockDone \/ Finish

Next == Step \/ (pc \in {"done", "crash"} /\ UNCHANGED vars)

Spec == Init /\ [][Next]_vars
-----------------------------------------------------------------------------
(* A directory as a linker writes it: every block as long as its entries,  *)
(* the directory as long as its blocks, every field within the image, and  *)
(* no cell relocated twice.                                                *)
BlockSize(b) == HeaderSize + 2 * Len(b.entries)
AllEntries ==
  UNION {{<<b, j>> : j \in DOMAIN image.blocks[b].entries} : b \in DOMAIN image.blocks}
EntryAt(x) == image.blocks[x[1]].entries[x[2]]

WellFormed ==
  /\ \A b \in DOMAIN image.blocks : image.blocks[b].size = BlockSize(image.blocks[b])
  /\ image.total = Sum([b \in DOMAIN image.blocks |-> BlockSize(image.blocks[b])])
  /\ \A x \in AllEntries : CellsOf(EntryAt(x)) \subseteq DOMAIN image.cells
  /\ \A x, y \in AllEntries : x # y => CellsOf(EntryAt(x)) \cap CellsOf(EntryAt(y)) = {}

TypeOK ==
  /\ image \in Images
  /\ cells \in [0..(image.length - 1) -> 0..(C - 1)]
  /\ blk \in 1..(Len(image.blocks) + 1) /\ done \in 0..(U32 - 1) /\ ent \in Nat
  /\ pc \in {"start", "block", "entries", "done", "crash"}

(* Every address stored whole in the image has moved with the image, by    *)
(* the distance from where it was linked to where it is mapped, once.      *)
AddressesMoved ==
  pc = "done" /\ WellFormed =>
    \A x \in AllEntries :
      LET e == EntryAt(x)
          n == Width(e.type)
      IN e.type \in {HighLow, Dir64} =>
           Field(cells, e.at, n) = (Field(image.cells, e.at, n) + Delta) % Power(n)

(* An address stored in two halves has moved too, but for the carry from   *)
(* the low half, which is lost: it is right when the distance is a whole   *)
(* number of 64 KiB, or the low half does not overflow.                    *)
SplitAddresses ==
  pc = "done" /\ WellFormed =>
    \A x, y \in AllEntries :
      LET hi == EntryAt(x).at
          lo == EntryAt(y).at
          carry == (image.cells[lo] + (Delta % C)) \div C
      IN EntryAt(x).type = High /\ EntryAt(y).type = Low =>
           (cells[hi] * C + cells[lo] + carry * C) % Power(2)
             = (image.cells[hi] * C + image.cells[lo] + Delta) % Power(2)

(* No cell outside the relocated fields changes, however the entries are   *)
(* spread over blocks and padded.                                          *)
RestUntouched ==
  WellFormed => \A c \in DOMAIN cells :
    (\A x \in AllEntries : c \notin CellsOf(EntryAt(x))) => cells[c] = image.cells[c]

(* What a sound directory does to an image: each of the three.             *)
Relocated == AddressesMoved /\ SplitAddresses /\ RestUntouched

(* The walk over a sound directory stays inside it.                        *)
WalkStaysInside == pc = "crash" => ~ WellFormed
=============================================================================
