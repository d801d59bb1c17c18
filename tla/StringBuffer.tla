---------------------------- MODULE StringBuffer ----------------------------
(***************************************************************************)
(* The growing string of include/str.h, in which the loader builds file    *)
(* names and kernel32 builds paths.                                        *)
(*                                                                         *)
(* Memory is kept cell by cell: a cell is a byte, the terminator, or       *)
(* Junk, what malloc left there.  `text` is what the string is meant to    *)
(* be, and `bare` tells whether it need not have a terminator: the         *)
(* operations are checked against them.                                    *)
(***************************************************************************)
EXTENDS Integers, Sequences

CONSTANTS
  Char,       \* the bytes considered, without the terminator
  MinSize     \* the smallest allocation without its terminator; 8 in the code

ASSUME StringAssumption == MinSize \in Nat \ {0}

Nul == 0
Junk == -1

ASSUME CellsAssumption == Char \subseteq 1..255

VARIABLES
  cells,   \* the allocation, from cell 0
  size,    \* its number of cells
  len,     \* the fields of String
  maxLen,
  text,    \* the intended value
  bare,    \* whether the last operation on it may have left no terminator
  over     \* whether a cell outside the allocation was ever written

stringVars == <<cells, size, len, maxLen, text, bare, over>>

Max2(a, b) == IF a > b THEN a ELSE b
Min2(a, b) == IF a < b THEN a ELSE b

(* Memory of n cells that holds s from cell 0 and keeps m where s is not.  *)
Written(m, n, s) ==
  [c \in 0..(n - 1) |-> IF c < Len(s) THEN s[c + 1] ELSE m[c]]
Fresh(n) == [c \in 0..(n - 1) |-> Junk]
Realloc(m, old, n) == [c \in 0..(n - 1) |-> IF c < old THEN m[c] ELSE Junk]
Held == [c \in 1..len |-> cells[c - 1]]

(* The string becomes s, in m of n cells, and is terminated.               *)
Store(m, n, s) ==
  /\ cells' = Written(m, n, s \o <<Nul>>)
  /\ size' = n
  /\ len' = Len(s)
  /\ bare' = FALSE
  /\ over' = (over \/ Len(s) >= n)
-----------------------------------------------------------------------------
(* string_new and string_new_with_size: the second leaves the string       *)
(* without a terminator and forgets how much it allocated.                 *)
NewString(s) ==
  LET n == Max2(Len(s), MinSize)
  IN /\ Store(Fresh(n + 1), n + 1, s)
     /\ maxLen' = n
     /\ text' = s

NewWithSize(s, room) ==
  LET n == Max2(Max2(Len(s), room), MinSize)
  IN /\ cells' = Written(Fresh(n + 1), n + 1, s)
     /\ size' = n + 1
     /\ len' = Len(s) /\ maxLen' = Len(s)
     /\ text' = s /\ bare' = TRUE
     /\ UNCHANGED over

(* Growth, which string_append and string_prepend share.                   *)
Grown(n) ==
  IF len + n > maxLen THEN Max2(maxLen * 2, len + n) ELSE maxLen

SizeFor_NoTerminator(n) ==
  IF len + n > maxLen THEN Grown(n) ELSE size

SizeFor(n) ==
  IF len + n > maxLen THEN Grown(n) + 1 ELSE size

StringAppend(s) ==
  LET n == SizeFor(Len(s))
  IN /\ Store(Realloc(cells, size, n), n, Held \o s)
     /\ maxLen' = Grown(Len(s))
     /\ text' = text \o s

StringPrepend_Overlapping(s) ==
  LET n == SizeFor(Len(s))
      moved[c \in 0..len] ==
        IF c < len /\ (c < Len(s) \/ s = <<>>) THEN cells[c]
        ELSE IF c < len THEN moved[c - Len(s)] ELSE Nul
  IN /\ Store(Realloc(cells, size, n), n, s \o [c \in 1..len |-> moved[c - 1]])
     /\ maxLen' = Grown(Len(s))
     /\ text' = s \o text

StringPrepend(s) ==
  LET n == SizeFor(Len(s))
  IN /\ Store(Realloc(cells, size, n), n, s \o Held)
     /\ maxLen' = Grown(Len(s))
     /\ text' = s \o text

(* string_clear leaves the first character where the terminator should be. *)
StringClear ==
  /\ len' = 0
  /\ text' = <<>> /\ bare' = (bare \/ len > 0)
  /\ UNCHANGED <<cells, size, maxLen, over>>
-----------------------------------------------------------------------------
(* string_starts_with compares the C string, string_ends_with the last     *)
(* characters of the string.                                               *)
StartsWith(p) == \A c \in 1..Len(p) : c <= size /\ cells[c - 1] = p[c]
EndsWith(p) ==
  Len(p) <= len /\ \A c \in 1..Len(p) : cells[len - Len(p) + c - 1] = p[c]

(* The callers strip only strings that have a terminator.                  *)
StripPrefix_NoTerminator(p) ==
  /\ ~ bare /\ StartsWith(p)
  /\ cells' = [c \in 0..(size - 1) |->
                 IF c < len - Len(p) THEN cells[c + Len(p)] ELSE cells[c]]
  /\ len' = len - Len(p)
  /\ text' = SubSeq(text, Len(p) + 1, Len(text))
  /\ UNCHANGED <<size, maxLen, bare, over>>

StripPrefix(p) ==
  /\ ~ bare /\ StartsWith(p)
  /\ cells' = [c \in 0..(size - 1) |->
                 IF c <= len - Len(p) THEN cells[c + Len(p)] ELSE cells[c]]
  /\ len' = len - Len(p)
  /\ text' = SubSeq(text, Len(p) + 1, Len(text))
  /\ UNCHANGED <<size, maxLen, bare, over>>

StripPostfix(p) ==
  /\ ~ bare /\ EndsWith(p)
  /\ cells' = [cells EXCEPT ![len - Len(p)] = Nul]
  /\ len' = len - Len(p)
  /\ text' = SubSeq(text, 1, Len(text) - Len(p))
  /\ UNCHANGED <<size, maxLen, bare, over>>

ReplaceAllC(replace, with) ==
  /\ cells' = [c \in 0..(size - 1) |->
                 IF c < len /\ cells[c] = replace THEN with ELSE cells[c]]
  /\ text' = [c \in 1..Len(text) |-> IF text[c] = replace THEN with ELSE text[c]]
  /\ UNCHANGED <<size, len, maxLen, bare, over>>
-----------------------------------------------------------------------------
CONSTANT Texts   \* the arguments considered

ASSUME TextsAssumption == Texts \subseteq Seq(Char) /\ <<>> \in Texts

StringIs(s) ==
  /\ cells = Written(Fresh(Max2(Len(s), MinSize) + 1), Max2(Len(s), MinSize) + 1, s \o <<Nul>>)
  /\ size = Max2(Len(s), MinSize) + 1
  /\ len = Len(s) /\ maxLen = Max2(Len(s), MinSize)
  /\ text = s /\ bare = FALSE /\ over = FALSE

StringInit == \E s \in Texts : StringIs(s)

StringNext ==
  \/ \E s \in Texts : NewString(s) \/ StringAppend(s) \/ StringPrepend(s)
  \/ \E s \in Texts, room \in 0..(2 * MinSize) : NewWithSize(s, room)
  \/ StringClear
  \/ \E s \in Texts : StripPrefix(s) \/ StripPostfix(s)
  \/ \E a, b \in Char : ReplaceAllC(a, b)

StringSpec == StringInit /\ [][StringNext]_stringVars
-----------------------------------------------------------------------------
StringTypeOK ==
  /\ size \in Nat \ {0} /\ len \in Nat /\ maxLen \in Nat
  /\ cells \in [0..(size - 1) -> -1..255]
  /\ text \in Seq(0..255) /\ bare \in BOOLEAN /\ over \in BOOLEAN

(* No operation writes outside the allocation, in whatever order they are  *)
(* called: max_len never promises more than there is, though it may        *)
(* promise less.                                                           *)
StaysInside == ~ over /\ len <= maxLen /\ maxLen < size

(* A terminator follows the last character.                                *)
Terminated == cells[len] = Nul

(* The characters are the intended ones after any sequence of operations:  *)
(* growing, shrinking and moving lose none.  A terminator follows them,    *)
(* even where an earlier operation had left none or a longer text, unless  *)
(* the string comes straight from string_new_with_size or string_clear.    *)
HoldsText == Held = text /\ (bare \/ Terminated)
=============================================================================
