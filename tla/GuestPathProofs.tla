-------------------------- MODULE GuestPathProofs --------------------------
(***************************************************************************)
(* What is proved of StringBuffer, Utf and GuestPath, for any characters,  *)
(* texts, paths, buffers, smallest allocation and number of operations: no *)
(* operation on a string leaves its allocation or loses text, conversions  *)
(* read and write where they should, and text survives both ways.          *)
(***************************************************************************)
EXTENDS GuestPath, SequenceTheorems, WellFoundedInduction, TLAPS
-----------------------------------------------------------------------------
(* The fields are numbers, the intended text is made of characters, and    *)
(* both properties hold: neither is inductive without the other, since     *)
(* what is copied when a string grows is what it holds, and what it holds  *)
(* lies inside the allocation.                                             *)
Fields ==
  /\ len \in Nat /\ maxLen \in Nat /\ size \in Nat
  /\ text \in Seq(Byte) /\ DOMAIN cells = 0..(size - 1)

StringInv == Fields /\ StaysInside /\ HoldsText

LEMMA BytesOfTexts ==
  /\ Seq(1..255) \subseteq Seq(Byte)
  /\ Texts \subseteq Seq(1..255) /\ Char \subseteq Byte
<1>1. 1..255 \subseteq Byte
  BY DEF Byte
<1>2. Texts \subseteq Seq(1..255)
  <2>1. \A T : Char \subseteq T => Seq(Char) \subseteq Seq(T)
    BY SeqMonotonic
  <2>2. Seq(Char) \subseteq Seq(1..255)
    BY <2>1, CellsAssumption
  <2> QED
    BY <2>2, TextsAssumption
<1> QED
  BY <1>1, <1>2, CellsAssumption, SeqMonotonic

(* A string stored in cells that have room for its terminator is held, and *)
(* terminated.                                                             *)
LEMMA StoreHolds ==
  ASSUME NEW m, NEW n \in Nat, NEW s \in Seq(Byte), Len(s) < n, Store(m, n, s), ~ over
  PROVE  /\ Held' = s /\ len' = Len(s) /\ size' = n /\ ~ over' /\ Terminated'
         /\ DOMAIN cells' = 0..(n - 1)
<1>1. len' = Len(s) /\ size' = n /\ ~ over'
  <2>1. ~ (Len(s) >= n)
    OBVIOUS
  <2> QED
    BY <2>1, Zenon DEF Store
<1>2. ASSUME NEW c \in 1..Len(s)
      PROVE  cells'[c - 1] = s[c]
  <2>1. c - 1 \in 0..(n - 1) /\ c - 1 < Len(s \o <<Nul>>) /\ (s \o <<Nul>>)[c] = s[c]
    OBVIOUS
  <2> QED
    BY <2>1 DEF Store, Written
<1>3. cells'[Len(s)] = Nul
  <2>1. Len(s) \in 0..(n - 1) /\ Len(s) < Len(s \o <<Nul>>) /\ (s \o <<Nul>>)[Len(s) + 1] = Nul
    OBVIOUS
  <2> QED
    BY <2>1 DEF Store, Written
<1>4. DOMAIN cells' = 0..(n - 1)
  BY DEF Store, Written
<1> QED
  BY <1>1, <1>2, <1>3, <1>4 DEF Held, Terminated

(* What is held is a sequence as long as the field says.                   *)
LEMMA HeldIsText ==
  ASSUME StringInv
  PROVE  Held \in Seq(Byte) /\ Len(Held) = len /\ Len(text) = len
<1>1. Held = text
  BY DEF StringInv, HoldsText
<1>2. Len(Held) = len
  BY DEF Held, StringInv, Fields
<1> QED
  BY <1>1, <1>2 DEF StringInv, Fields

(* Growing leaves room for the characters and the terminator.              *)
LEMMA RoomToGrow ==
  ASSUME StringInv, NEW n \in Nat
  PROVE  /\ Grown(n) \in Nat /\ SizeFor(n) \in Nat
         /\ len + n <= Grown(n) /\ Grown(n) < SizeFor(n)
BY DEF StringInv, Fields, StaysInside, Grown, SizeFor, Max2

LEMMA NewStringKeeps ==
  ASSUME StringInv, NEW s \in Seq(Byte), NewString(s)
  PROVE  StringInv'
<1> DEFINE n == Max2(Len(s), MinSize)
<1>1. s \in Seq(Byte) /\ n \in Nat /\ n >= Len(s)
  BY TextsAssumption, StringAssumption DEF Max2
<1>2. Store(Fresh(n + 1), n + 1, s) /\ maxLen' = n /\ text' = s
  BY DEF NewString
<1>3. /\ Held' = s /\ len' = Len(s) /\ size' = n + 1 /\ ~ over' /\ Terminated'
      /\ DOMAIN cells' = 0..((n + 1) - 1)
  <2> HIDE DEF n
  <2> QED
    BY <1>1, <1>2, StoreHolds DEF StringInv, StaysInside
<1> QED
  BY <1>1, <1>2, <1>3 DEF StringInv, Fields, StaysInside, HoldsText

LEMMA NewWithSizeKeeps ==
  ASSUME StringInv, NEW s \in Seq(Byte), NEW room \in Nat, NewWithSize(s, room)
  PROVE  StringInv'
<1> DEFINE n == Max2(Max2(Len(s), room), MinSize)
<1>1. s \in Seq(Byte) /\ n \in Nat /\ n >= Len(s)
  BY TextsAssumption, StringAssumption DEF Max2
<1>2. /\ cells' = Written(Fresh(n + 1), n + 1, s) /\ size' = n + 1
      /\ len' = Len(s) /\ maxLen' = Len(s) /\ text' = s /\ bare' /\ over' = over
  BY DEF NewWithSize
<1> HIDE DEF n
<1>3. ASSUME NEW c \in 1..Len(s)
      PROVE  cells'[c - 1] = s[c]
  BY <1>1, <1>2 DEF Written
<1>4. Held' = s /\ DOMAIN cells' = 0..(size' - 1)
  BY <1>1, <1>2, <1>3 DEF Held, Written
<1> QED
  BY <1>1, <1>2, <1>4 DEF StringInv, Fields, StaysInside, HoldsText

LEMMA StringAppendKeeps ==
  ASSUME StringInv, NEW s \in Seq(Byte), StringAppend(s)
  PROVE  StringInv'
<1> DEFINE n == SizeFor(Len(s))
<1>1. s \in Seq(Byte) /\ Len(s) \in Nat
  BY TextsAssumption
<1>2. Held \in Seq(Byte) /\ Len(Held) = len /\ Held = text
  BY HeldIsText DEF StringInv, HoldsText
<1>3. Held \o s \in Seq(Byte) /\ Len(Held \o s) = len + Len(s)
  BY <1>1, <1>2
<1>4. n \in Nat /\ Grown(Len(s)) \in Nat /\ len + Len(s) <= Grown(Len(s)) /\ Grown(Len(s)) < n
  BY <1>1, RoomToGrow
<1>5. Store(Realloc(cells, size, n), n, Held \o s) /\ maxLen' = Grown(Len(s)) /\ text' = text \o s
  BY DEF StringAppend
<1> HIDE DEF n
<1>6. len \in Nat /\ Len(Held \o s) < n
  BY <1>1, <1>3, <1>4 DEF StringInv, Fields
<1>7. /\ Held' = Held \o s /\ len' = len + Len(s) /\ size' = n /\ ~ over' /\ Terminated'
      /\ DOMAIN cells' = 0..(n - 1)
  BY <1>3, <1>4, <1>5, <1>6, StoreHolds DEF StringInv, StaysInside
<1> QED
  BY <1>1, <1>2, <1>3, <1>4, <1>5, <1>6, <1>7 DEF StringInv, Fields, StaysInside, HoldsText

LEMMA StringPrependKeeps ==
  ASSUME StringInv, NEW s \in Seq(Byte), StringPrepend(s)
  PROVE  StringInv'
<1> DEFINE n == SizeFor(Len(s))
<1>1. s \in Seq(Byte) /\ Len(s) \in Nat
  BY TextsAssumption
<1>2. Held \in Seq(Byte) /\ Len(Held) = len /\ Held = text
  BY HeldIsText DEF StringInv, HoldsText
<1>3. s \o Held \in Seq(Byte) /\ Len(s \o Held) = len + Len(s)
  BY <1>1, <1>2
<1>4. n \in Nat /\ Grown(Len(s)) \in Nat /\ len + Len(s) <= Grown(Len(s)) /\ Grown(Len(s)) < n
  BY <1>1, RoomToGrow
<1>5. Store(Realloc(cells, size, n), n, s \o Held) /\ maxLen' = Grown(Len(s)) /\ text' = s \o text
  BY DEF StringPrepend
<1> HIDE DEF n
<1>6. len \in Nat /\ Len(s \o Held) < n
  BY <1>1, <1>3, <1>4 DEF StringInv, Fields
<1>7. /\ Held' = s \o Held /\ len' = len + Len(s) /\ size' = n /\ ~ over' /\ Terminated'
      /\ DOMAIN cells' = 0..(n - 1)
  BY <1>3, <1>4, <1>5, <1>6, StoreHolds DEF StringInv, StaysInside
<1> QED
  BY <1>1, <1>2, <1>3, <1>4, <1>5, <1>6, <1>7 DEF StringInv, Fields, StaysInside, HoldsText

LEMMA StringClearKeeps ==
  ASSUME StringInv, StringClear
  PROVE  StringInv'
<1>1. Held' = <<>>
  BY DEF StringClear, Held
<1>2. bare' \/ Terminated'
  <2>1. /\ len \in Nat /\ (bare \/ cells[len] = Nul)
        /\ len' = 0 /\ cells' = cells /\ (len > 0 => bare') /\ (bare => bare')
    BY DEF StringClear, StringInv, Fields, HoldsText, Terminated
  <2>2. CASE len = 0 /\ ~ bare
    BY <2>1, <2>2 DEF Terminated
  <2>3. CASE ~ (len = 0)
    BY <2>1, <2>3
  <2> QED
    BY <2>1, <2>2, <2>3
<1> QED
  BY <1>1, <1>2 DEF StringClear, StringInv, Fields, StaysInside, HoldsText

(* A prefix that matches is not longer than the string: its terminator is  *)
(* no character.                                                           *)
LEMMA PrefixFits ==
  ASSUME StringInv, NEW p \in Seq(1..255), Terminated, StartsWith(p)
  PROVE  Len(p) <= len
<1> SUFFICES ASSUME Len(p) > len PROVE FALSE
  BY DEF StringInv, Fields
<1>1. len + 1 \in 1..Len(p)
  BY DEF StringInv, Fields
<1>2. cells[(len + 1) - 1] = p[len + 1]
  BY <1>1 DEF StartsWith
<1>3. (len + 1) - 1 = len
  BY DEF StringInv, Fields
<1>4. p[len + 1] \in 1..255
  BY <1>1, ElementOfSeq
<1>5. cells[len] = 0
  BY DEF Terminated, Nul
<1>6. p[len + 1] = 0
  BY <1>2, <1>3, <1>5, Zenon
<1> QED
  BY <1>4, <1>6

LEMMA StripPrefixKeeps ==
  ASSUME StringInv, NEW p \in Seq(1..255), StripPrefix(p)
  PROVE  StringInv'
<1>1. p \in Seq(Byte) /\ Len(p) \in Nat
  BY BytesOfTexts
<1>2. Len(p) <= len
  BY <1>1, PrefixFits DEF StripPrefix, StringInv, HoldsText
<1>3. len \in Nat /\ size \in Nat /\ len < size /\ Len(text) = len /\ text \in Seq(Byte)
  BY HeldIsText DEF StringInv, Fields, StaysInside
<1>4. /\ len' = len - Len(p) /\ text' = SubSeq(text, Len(p) + 1, Len(text))
      /\ size' = size /\ maxLen' = maxLen /\ over' = over
  BY DEF StripPrefix
<1>5. text' \in Seq(Byte) /\ Len(text') = len'
  BY <1>1, <1>2, <1>3, <1>4
<1>6. ASSUME NEW c \in 1..len'
      PROVE  cells'[c - 1] = text'[c]
  <2>1. c - 1 \in 0..(size - 1) /\ c - 1 <= len - Len(p) /\ c + Len(p) \in 1..len
    BY <1>1, <1>2, <1>3, <1>4
  <2>2. cells'[c - 1] = cells[(c - 1) + Len(p)]
    BY <2>1 DEF StripPrefix
  <2>3. (c - 1) + Len(p) = (c + Len(p)) - 1
    BY <1>1, <1>3, <1>4
  <2>4. cells[(c + Len(p)) - 1] = text[c + Len(p)]
    BY <2>1 DEF StringInv, HoldsText, Held
  <2>5. text'[c] = text[c + Len(p)]
    BY <1>1, <1>2, <1>3, <1>4, <2>1
  <2> QED
    BY <2>2, <2>3, <2>4, <2>5
<1>7. Held' = text'
  BY <1>5, <1>6 DEF Held
<1>8. Terminated'
  <2>1. len' \in 0..(size - 1) /\ len' <= len - Len(p) /\ len' + Len(p) = len
    BY <1>1, <1>2, <1>3, <1>4
  <2>2. cells'[len'] = cells[len' + Len(p)]
    BY <2>1 DEF StripPrefix
  <2>3. cells[len] = Nul
    BY DEF StripPrefix, StringInv, HoldsText, Terminated
  <2> QED
    BY <2>1, <2>2, <2>3 DEF Terminated
<1>9. DOMAIN cells' = 0..(size' - 1)
  BY <1>4 DEF StripPrefix
<1> QED
  BY <1>1, <1>2, <1>3, <1>4, <1>5, <1>7, <1>8, <1>9 DEF StringInv, Fields, StaysInside, HoldsText

LEMMA StripPostfixKeeps ==
  ASSUME StringInv, NEW p \in Seq(1..255), StripPostfix(p)
  PROVE  StringInv'
<1>1. p \in Seq(Byte) /\ Len(p) \in Nat
  BY BytesOfTexts
<1>2. Len(p) <= len
  BY DEF StripPostfix, EndsWith
<1>3. len \in Nat /\ size \in Nat /\ len < size /\ Len(text) = len /\ text \in Seq(Byte)
  BY HeldIsText DEF StringInv, Fields, StaysInside
<1>4. /\ len' = len - Len(p) /\ text' = SubSeq(text, 1, Len(text) - Len(p))
      /\ size' = size /\ maxLen' = maxLen /\ over' = over
  BY DEF StripPostfix
<1>5. text' \in Seq(Byte) /\ Len(text') = len'
  BY <1>1, <1>2, <1>3, <1>4
<1>6. ASSUME NEW c \in 1..len'
      PROVE  cells'[c - 1] = text'[c]
  <2>1. c \in 1..len /\ c - 1 # len - Len(p)
    BY <1>1, <1>2, <1>3, <1>4
  <2>2. cells'[c - 1] = cells[c - 1]
    BY <2>1 DEF StripPostfix
  <2>3. cells[c - 1] = text[c]
    BY <2>1 DEF StringInv, HoldsText, Held
  <2>4. text'[c] = text[c]
    BY <1>1, <1>2, <1>3, <1>4, <2>1
  <2> QED
    BY <2>2, <2>3, <2>4
<1>7. Held' = text'
  BY <1>5, <1>6 DEF Held
<1>8. DOMAIN cells = 0..(size - 1) /\ DOMAIN cells' = 0..(size' - 1)
  BY <1>4 DEF StringInv, Fields, StripPostfix
<1>9. Terminated'
  <2>1. len' = len - Len(p) /\ len - Len(p) \in 0..(size - 1)
    BY <1>1, <1>2, <1>3, <1>4
  <2> QED
    BY <1>8, <2>1 DEF StripPostfix, Terminated
<1> QED
  BY <1>1, <1>2, <1>3, <1>4, <1>5, <1>7, <1>8, <1>9 DEF StringInv, Fields, StaysInside, HoldsText

LEMMA ReplaceAllCKeeps ==
  ASSUME StringInv, NEW a \in Byte, NEW b \in Byte, ReplaceAllC(a, b)
  PROVE  StringInv'
<1>1. len \in Nat /\ size \in Nat /\ len < size /\ Len(text) = len /\ text \in Seq(Byte)
  BY HeldIsText DEF StringInv, Fields, StaysInside
<1>2. /\ len' = len /\ size' = size /\ maxLen' = maxLen /\ over' = over
      /\ text' = [c \in 1..len |-> IF text[c] = a THEN b ELSE text[c]]
  BY <1>1 DEF ReplaceAllC
<1>3. text' \in Seq(Byte) /\ Len(text') = len
  BY <1>1, <1>2
<1>4. ASSUME NEW c \in 1..len
      PROVE  cells'[c - 1] = text'[c]
  <2>1. c - 1 \in 0..(size - 1) /\ c - 1 < len
    BY <1>1
  <2>2. cells[c - 1] = text[c]
    BY DEF StringInv, HoldsText, Held
  <2> QED
    BY <1>2, <2>1, <2>2 DEF ReplaceAllC
<1>5. Held' = text'
  BY <1>1, <1>2, <1>3, <1>4 DEF Held
<1>6. bare' \/ Terminated'
  <2>1. len \in 0..(size - 1) /\ ~ (len < len)
    BY <1>1
  <2>2. cells'[len] = cells[len]
    BY <2>1 DEF ReplaceAllC
  <2>3. bare' = bare /\ len' = len
    BY DEF ReplaceAllC
  <2> QED
    BY <2>2, <2>3 DEF StringInv, HoldsText, Terminated
<1>7. DOMAIN cells' = 0..(size' - 1)
  BY <1>2 DEF ReplaceAllC
<1> QED
  BY <1>1, <1>2, <1>3, <1>5, <1>6, <1>7 DEF StringInv, Fields, StaysInside, HoldsText

LEMMA StringIsHolds ==
  ASSUME NEW s \in Seq(Byte), StringIs(s)
  PROVE  StringInv
<1> DEFINE n == Max2(Len(s), MinSize)
<1>1. s \in Seq(Byte) /\ n \in Nat /\ n >= Len(s)
  BY TextsAssumption, StringAssumption DEF Max2
<1>2. /\ cells = Written(Fresh(n + 1), n + 1, s \o <<Nul>>) /\ size = n + 1
      /\ len = Len(s) /\ maxLen = n /\ text = s /\ over = FALSE
  BY DEF StringIs
<1> HIDE DEF n
<1>3. ASSUME NEW c \in 1..Len(s)
      PROVE  cells[c - 1] = s[c]
  <2>1. c - 1 \in 0..n /\ c - 1 < Len(s \o <<Nul>>) /\ (s \o <<Nul>>)[c] = s[c]
    BY <1>1
  <2> QED
    BY <1>1, <1>2, <2>1 DEF Written
<1>4. Held = s /\ DOMAIN cells = 0..(size - 1)
  BY <1>1, <1>2, <1>3 DEF Held, Written
<1>5. Terminated
  <2>1. Len(s) \in 0..n /\ Len(s) < Len(s \o <<Nul>>) /\ (s \o <<Nul>>)[Len(s) + 1] = Nul
    BY <1>1
  <2> QED
    BY <1>1, <1>2, <2>1 DEF Written, Terminated
<1> QED
  BY <1>1, <1>2, <1>4, <1>5 DEF StringInv, Fields, StaysInside, HoldsText

LEMMA StringInitHolds == StringInit => StringInv
BY BytesOfTexts, StringIsHolds DEF StringInit

LEMMA StepKeeps == StringInv /\ [StringNext]_stringVars => StringInv'
<1> SUFFICES ASSUME StringInv, [StringNext]_stringVars PROVE StringInv'
  OBVIOUS
<1>0. \A s \in Texts : s \in Seq(1..255) /\ s \in Seq(Byte)
  BY BytesOfTexts
<1>1. CASE \E s \in Texts : NewString(s) \/ StringAppend(s) \/ StringPrepend(s)
  BY <1>0, <1>1, NewStringKeeps, StringAppendKeeps, StringPrependKeeps
<1>2. CASE \E s \in Texts, room \in 0..(2 * MinSize) : NewWithSize(s, room)
  <2>1. PICK s \in Texts, room \in 0..(2 * MinSize) : NewWithSize(s, room)
    BY <1>2
  <2>2. s \in Seq(Byte) /\ room \in Nat
    BY <1>0, StringAssumption
  <2> QED
    BY <2>1, <2>2, NewWithSizeKeeps
<1>3. CASE StringClear
  BY <1>3, StringClearKeeps
<1>4. CASE \E s \in Texts : StripPrefix(s) \/ StripPostfix(s)
  BY <1>0, <1>4, StripPrefixKeeps, StripPostfixKeeps
<1>5. CASE \E a, b \in Char : ReplaceAllC(a, b)
  BY <1>5, BytesOfTexts, ReplaceAllCKeeps
<1>6. CASE UNCHANGED stringVars
  BY <1>6 DEF stringVars, StringInv, Fields, StaysInside, HoldsText, Held, Terminated
<1> QED
  BY <1>1, <1>2, <1>3, <1>4, <1>5, <1>6 DEF StringNext
-----------------------------------------------------------------------------
(* The codecs.  Only 0xFFFF takes two units, and then no character; and    *)
(* nothing is written as 0xFFFF.                                           *)
Units == {n \in Nat : n < 65535}

(* The 16-bit units, as bounds the provers need not unfold.                *)
LEMMA U16Range == \A n : n \in U16 <=> n \in Nat /\ n < 65536
<1>1. PICK b : b = 2^16 - 1
  OBVIOUS
<1>2. b = 65535
  BY <1>1
<1>3. b \in Nat
  BY <1>2
<1>4. \A n : n \in 0..b <=> n \in Nat /\ n <= b
  BY <1>3
<1>5. \A n : n \in U16 <=> n \in 0..b
  BY <1>1 DEF U16
<1>6. \A n \in Nat : n <= b <=> n < 65536
  BY <1>2
<1> QED
  BY <1>4, <1>5, <1>6

LEMMA Decode16 ==
  ASSUME NEW s \in Seq(U16), NEW k \in 1..Len(s)
  PROVE  /\ Utf16Decode(s, k).cp \in Nat /\ Utf16Decode(s, k).count \in 1..2
         /\ Utf16Decode(s, k).cp = 0 <=> s[k] = 0
         /\ Utf16Decode(s, k).count = 2 <=> s[k] = 65535
         /\ s[k] # 65535 => Utf16Decode(s, k).cp = s[k]
<1>1. s[k] \in U16
  BY ElementOfSeq
<1>2. PICK n \in Nat : n = s[k] /\ n <= 65535
  <2>1. \A n \in U16 : n \in Nat /\ n <= 65535
    BY U16Range
  <2>2. s[k] \in Nat /\ s[k] <= 65535
    BY <1>1, <2>1
  <2> QED
    BY <2>2
<1>3. CASE n < 65535
  <2>1. Utf16Decode(s, k) = [cp |-> n, count |-> 1]
    BY <1>2, <1>3, SMT DEF Utf16Decode
  <2> QED
    BY <1>2, <1>3, <2>1, SMT
<1>4. CASE ~ n < 65535
  <2>1. Utf16Decode(s, k).cp \in Nat \ {0} /\ Utf16Decode(s, k).count = 2
    BY <1>2, <1>4, SMT DEF Utf16Decode
  <2> QED
    BY <1>2, <1>4, <2>1, SMT
<1> QED
  BY <1>2, <1>3, <1>4, SMT

(* The bits a character is cut into, and the bytes it is put together      *)
(* from.                                                                   *)
LEMMA UnitBytes ==
  ASSUME NEW s \in Seq(Byte), NEW k
  PROVE  Unit(s, k) \in Byte
<1>1. DOMAIN s = 1..Len(s) /\ \A j \in 1..Len(s) : s[j] \in Byte
  BY ElementOfSeq
<1>2. 0 \in Byte
  BY DEF Byte
<1> QED
  BY <1>1, <1>2 DEF Unit

LEMMA BitsBounded ==
  ASSUME NEW n \in Nat
  PROVE  /\ Bits(n, 0, 6) \in Nat /\ Bits(n, 0, 6) < 64
         /\ Bits(n, 6, 6) \in Nat /\ Bits(n, 6, 6) < 64
         /\ Bits(n, 12, 6) \in Nat /\ Bits(n, 12, 6) < 64
         /\ Bits(n, 6, 5) \in Nat /\ Bits(n, 6, 5) < 32
         /\ Bits(n, 12, 4) \in Nat /\ Bits(n, 12, 4) < 16
         /\ Bits(n, 18, 3) \in Nat /\ Bits(n, 18, 3) < 8
BY SMT DEF Bits

LEMMA Rests ==
  ASSUME NEW s \in Seq(Byte), NEW k
  PROVE  /\ Unit(s, k) \in Nat /\ Unit(s, k) <= 255
         /\ Rest(Unit(s, k)) \in Nat /\ Rest(Unit(s, k)) < 64
<1>1. \A b \in Byte : b \in Nat /\ b <= 255 /\ Rest(b) \in Nat /\ Rest(b) < 64
  BY SMT DEF Rest, Byte
<1> QED
  BY <1>1, UnitBytes, Zenon

(* How each kind of first byte is read.                                    *)
Read8(d, first, r1, r2, r3) ==
  \/ d = [cp |-> first, count |-> 1] /\ first < 128
  \/ d = [cp |-> (first % 32) * 64 + r1, count |-> 2] /\ Within(first, 192, 223)
  \/ d = [cp |-> (first % 16) * 4096 + r1 * 64 + r2, count |-> 3] /\ Within(first, 224, 239)
  \/ /\ d = [cp |-> (first % 8) * 262144 + r1 * 4096 + r2 * 64 + r3, count |-> 4]
     /\ Within(first, 240, 247)
  \/ d = [cp |-> 0, count |-> 0] /\ first >= 128 /\ ~ Within(first, 192, 247)

LEMMA DecodeArms ==
  ASSUME NEW s, NEW k, NEW first \in Nat, NEW r1 \in Nat, NEW r2 \in Nat, NEW r3 \in Nat,
         first = Unit(s, k), r1 = Rest(Unit(s, k + 1)),
         r2 = Rest(Unit(s, k + 2)), r3 = Rest(Unit(s, k + 3))
  PROVE  Read8(Utf8Decode(s, k), first, r1, r2, r3)
BY SMT DEF Read8, Utf8Decode, Within

LEMMA DecodeCases ==
  ASSUME NEW s \in Seq(Byte), NEW k
  PROVE  \E first, r1, r2, r3 \in Nat :
           /\ first = Unit(s, k) /\ r1 = Rest(Unit(s, k + 1))
           /\ r2 = Rest(Unit(s, k + 2)) /\ r3 = Rest(Unit(s, k + 3))
           /\ Read8(Utf8Decode(s, k), first, r1, r2, r3)
BY Rests, DecodeArms, Zenon

(* How each kind of character is written, from its groups of bits.         *)
Wrote8(u, cp, a, b, c, d, e, f) ==
  \/ u = <<cp>> /\ cp <= 127
  \/ u = <<192 + d, 128 + a>> /\ cp >= 128 /\ cp <= 2047
  \/ u = <<224 + e, 128 + b, 128 + a>> /\ cp >= 2048 /\ cp <= 65535
  \/ u = <<240 + f, 128 + c, 128 + b, 128 + a>> /\ cp >= 65536
  \/ u = <<>> /\ cp >= 65536

Groups(cp, a, b, c, d, e, f) ==
  /\ a = Bits(cp, 0, 6) /\ b = Bits(cp, 6, 6) /\ c = Bits(cp, 12, 6)
  /\ d = Bits(cp, 6, 5) /\ e = Bits(cp, 12, 4) /\ f = Bits(cp, 18, 3)

LEMMA EncodeArms ==
  ASSUME NEW cp \in Nat
  PROVE  Wrote8(Utf8Encode(cp), cp, Bits(cp, 0, 6), Bits(cp, 6, 6), Bits(cp, 12, 6),
                Bits(cp, 6, 5), Bits(cp, 12, 4), Bits(cp, 18, 3))
BY SMT DEF Wrote8, Utf8Encode, Within

LEMMA EncodeCases ==
  ASSUME NEW cp \in Nat
  PROVE  \E a, b, c, d, e, f \in Nat :
           /\ a < 64 /\ b < 64 /\ c < 64 /\ d < 32 /\ e < 16 /\ f < 8
           /\ Groups(cp, a, b, c, d, e, f)
           /\ Wrote8(Utf8Encode(cp), cp, a, b, c, d, e, f)
<1>1. /\ Bits(cp, 0, 6) \in Nat /\ Bits(cp, 6, 6) \in Nat /\ Bits(cp, 12, 6) \in Nat
      /\ Bits(cp, 6, 5) \in Nat /\ Bits(cp, 12, 4) \in Nat /\ Bits(cp, 18, 3) \in Nat
  BY BitsBounded
<1>2. Groups(cp, Bits(cp, 0, 6), Bits(cp, 6, 6), Bits(cp, 12, 6),
             Bits(cp, 6, 5), Bits(cp, 12, 4), Bits(cp, 18, 3))
  BY DEF Groups
<1> USE <1>1
<1> WITNESS Bits(cp, 0, 6) \in Nat, Bits(cp, 6, 6) \in Nat, Bits(cp, 12, 6) \in Nat,
            Bits(cp, 6, 5) \in Nat, Bits(cp, 12, 4) \in Nat, Bits(cp, 18, 3) \in Nat
<1> QED
  BY <1>2, BitsBounded, EncodeArms

LEMMA DecodeOne ==
  ASSUME NEW s \in Seq(Byte), NEW k, NEW a \in Nat, a < 128, Unit(s, k) = a
  PROVE  Utf8Decode(s, k) = [cp |-> a, count |-> 1]
<1>1. PICK first \in Nat, r1 \in Nat, r2 \in Nat, r3 \in Nat :
        /\ first = Unit(s, k) /\ r1 = Rest(Unit(s, k + 1))
        /\ r2 = Rest(Unit(s, k + 2)) /\ r3 = Rest(Unit(s, k + 3))
        /\ Read8(Utf8Decode(s, k), first, r1, r2, r3)
  BY DecodeCases
<1>2. first = a /\ first < 128
  BY <1>1
<1> QED
  BY <1>1, <1>2, SMT DEF Read8, Within

LEMMA DecodeTwo ==
  ASSUME NEW s \in Seq(Byte), NEW k, NEW a \in Nat, a < 64, NEW b \in Nat, b < 32,
         Unit(s, k) = 192 + b, Unit(s, k + 1) = 128 + a
  PROVE  Utf8Decode(s, k) = [cp |-> b * 64 + a, count |-> 2]
<1>1. PICK first \in Nat, r1 \in Nat, r2 \in Nat, r3 \in Nat :
        /\ first = Unit(s, k) /\ r1 = Rest(Unit(s, k + 1))
        /\ r2 = Rest(Unit(s, k + 2)) /\ r3 = Rest(Unit(s, k + 3))
        /\ Read8(Utf8Decode(s, k), first, r1, r2, r3)
  BY DecodeCases
<1>2. Rest(128 + a) = a /\ (192 + b) % 32 = b
  BY SMT DEF Rest
<1>3. first = 192 + b /\ r1 = a
  BY <1>1, <1>2
<1>4. Utf8Decode(s, k) = [cp |-> (first % 32) * 64 + r1, count |-> 2]
  <2>1. first >= 192 /\ first <= 223
    BY <1>3
  <2> QED
    BY <1>1, <2>1, SMT DEF Read8, Within
<1> QED
  BY <1>2, <1>3, <1>4

Three(s, k, a, b, c) ==
  Unit(s, k) = 224 + c /\ Unit(s, k + 1) = 128 + b /\ Unit(s, k + 2) = 128 + a

LEMMA DecodeThree ==
  ASSUME NEW s \in Seq(Byte), NEW k, NEW a \in Nat, a < 64, NEW b \in Nat, b < 64,
         NEW c \in Nat, c < 16, Three(s, k, a, b, c)
  PROVE  Utf8Decode(s, k) = [cp |-> c * 4096 + b * 64 + a, count |-> 3]
<1>1. PICK first \in Nat, r1 \in Nat, r2 \in Nat, r3 \in Nat :
        /\ first = Unit(s, k) /\ r1 = Rest(Unit(s, k + 1))
        /\ r2 = Rest(Unit(s, k + 2)) /\ r3 = Rest(Unit(s, k + 3))
        /\ Read8(Utf8Decode(s, k), first, r1, r2, r3)
  BY DecodeCases
<1>2. Rest(128 + a) = a /\ Rest(128 + b) = b /\ (224 + c) % 16 = c
  BY SMT DEF Rest
<1>3. first = 224 + c /\ r1 = b /\ r2 = a
  BY <1>1, <1>2 DEF Three
<1>4. Utf8Decode(s, k) = [cp |-> (first % 16) * 4096 + r1 * 64 + r2, count |-> 3]
  <2>1. first >= 224 /\ first <= 239
    BY <1>3
  <2> QED
    BY <1>1, <2>1, SMT DEF Read8, Within
<1> QED
  BY <1>2, <1>3, <1>4

LEMMA Decode8 ==
  ASSUME NEW s \in Seq(Byte), NEW k
  PROVE  /\ Utf8Decode(s, k).cp \in Nat /\ Utf8Decode(s, k).count \in Nat
         /\ Utf8Decode(s, k).count = 0 => Utf8Decode(s, k).cp = 0
         /\ Unit(s, k) = 0 => Utf8Decode(s, k).cp = 0
<1>1. PICK first \in Nat, r1 \in Nat, r2 \in Nat, r3 \in Nat :
        /\ first = Unit(s, k) /\ r1 = Rest(Unit(s, k + 1))
        /\ r2 = Rest(Unit(s, k + 2)) /\ r3 = Rest(Unit(s, k + 3))
        /\ Read8(Utf8Decode(s, k), first, r1, r2, r3)
  BY DecodeCases
<1> DEFINE d == Utf8Decode(s, k)
           x == (first % 32) * 64 + r1
           y == (first % 16) * 4096 + r1 * 64 + r2
           z == (first % 8) * 262144 + r1 * 4096 + r2 * 64 + r3
<1>3. x \in Nat /\ y \in Nat /\ z \in Nat
  BY SMT
<1>4. \/ d = [cp |-> first, count |-> 1]
      \/ d = [cp |-> x, count |-> 2] /\ first # 0
      \/ d = [cp |-> y, count |-> 3] /\ first # 0
      \/ d = [cp |-> z, count |-> 4] /\ first # 0
      \/ d = [cp |-> 0, count |-> 0]
  BY <1>1, SMT DEF Read8, Within
<1> HIDE DEF d, x, y, z
<1>5. /\ d.cp \in Nat /\ d.count \in Nat
      /\ d.count = 0 => d.cp = 0
      /\ first = 0 => d.cp = 0
  BY <1>3, <1>4
<1> QED
  BY <1>1, <1>5 DEF d

LEMMA Encode8 ==
  ASSUME NEW cp \in Nat
  PROVE  Utf8Encode(cp) \in Seq(Byte)
<1>1. PICK a \in Nat, b \in Nat, c \in Nat, d \in Nat, e \in Nat, f \in Nat :
        /\ a < 64 /\ b < 64 /\ c < 64 /\ d < 32 /\ e < 16 /\ f < 8
        /\ Groups(cp, a, b, c, d, e, f)
        /\ Wrote8(Utf8Encode(cp), cp, a, b, c, d, e, f)
  BY EncodeCases
<1>2. /\ 128 + a \in Byte /\ 128 + b \in Byte /\ 128 + c \in Byte
      /\ 192 + d \in Byte /\ 224 + e \in Byte /\ 240 + f \in Byte
      /\ cp <= 127 => cp \in Byte
  BY <1>1, SMT DEF Byte
<1>3. \/ Utf8Encode(cp) = <<cp>> /\ cp <= 127
      \/ Utf8Encode(cp) = <<192 + d, 128 + a>>
      \/ Utf8Encode(cp) = <<224 + e, 128 + b, 128 + a>>
      \/ Utf8Encode(cp) = <<240 + f, 128 + c, 128 + b, 128 + a>>
      \/ Utf8Encode(cp) = <<>>
  BY <1>1, SMT DEF Wrote8
<1>4. CASE Utf8Encode(cp) = <<cp>> /\ cp <= 127
  BY <1>2, <1>4
<1>5. CASE Utf8Encode(cp) = <<192 + d, 128 + a>>
  BY <1>2, <1>5
<1>6. CASE Utf8Encode(cp) = <<224 + e, 128 + b, 128 + a>>
  BY <1>2, <1>6
<1>7. CASE Utf8Encode(cp) = <<240 + f, 128 + c, 128 + b, 128 + a>>
  BY <1>2, <1>7
<1> QED
  BY <1>3, <1>4, <1>5, <1>6, <1>7, EmptySeq

(* A character below 0xFFFF is a byte of its own, or bytes none of which   *)
(* stands for another; and is read back as it was written.                 *)
Spelled(s, k, cp) ==
  \A j \in 1..Len(Utf8Encode(cp)) : Unit(s, k + j - 1) = Utf8Encode(cp)[j]

LEMMA Spelling ==
  ASSUME NEW cp \in Units
  PROVE  /\ Utf8Encode(cp) \in Seq(Byte) /\ Len(Utf8Encode(cp)) \in 1..3
         /\ \/ cp <= 127 /\ Utf8Encode(cp) = <<cp>>
            \/ cp >= 128 /\ \A j \in 1..Len(Utf8Encode(cp)) : Utf8Encode(cp)[j] >= 128
<1>0. cp \in Nat
  BY DEF Units
<1>1. cp \in Nat /\ cp <= 65535
  BY DEF Units
<1>2. PICK a \in Nat, b \in Nat, c \in Nat, d \in Nat, e \in Nat, f \in Nat :
        /\ a < 64 /\ b < 64 /\ c < 64 /\ d < 32 /\ e < 16 /\ f < 8
        /\ Groups(cp, a, b, c, d, e, f)
        /\ Wrote8(Utf8Encode(cp), cp, a, b, c, d, e, f)
  BY <1>0, EncodeCases
<1>3. PICK u : u = Utf8Encode(cp)
  OBVIOUS
<1>4. u \in Seq(Byte)
  BY <1>0, <1>3, Encode8
<1>5. /\ Len(u) \in 1..3
      /\ \/ cp <= 127 /\ u = <<cp>>
         \/ cp >= 128 /\ \A j \in 1..Len(u) : u[j] >= 128
  <2>1. \/ cp <= 127 /\ u = <<cp>>
        \/ cp >= 128 /\ u = <<192 + d, 128 + a>>
        \/ cp >= 128 /\ u = <<224 + e, 128 + b, 128 + a>>
    BY <1>1, <1>2, <1>3, SMT DEF Wrote8
  <2>2. CASE u = <<cp>>
    BY <1>1, <2>1, <2>2
  <2>3. CASE u = <<192 + d, 128 + a>> /\ cp >= 128
    BY <1>2, <2>3
  <2>4. CASE u = <<224 + e, 128 + b, 128 + a>> /\ cp >= 128
    BY <1>2, <2>4
  <2> QED
    BY <2>1, <2>2, <2>3, <2>4
<1> QED
  BY <1>3, <1>4, <1>5

LEMMA ReadBack ==
  ASSUME NEW cp \in Units, NEW s \in Seq(Byte), NEW k \in Nat, Spelled(s, k, cp)
  PROVE  Utf8Decode(s, k) = [cp |-> cp, count |-> Len(Utf8Encode(cp))]
<1>0. cp \in Nat
  BY DEF Units
<1>1. cp \in Nat /\ cp <= 65535
  BY DEF Units
<1>2. PICK a \in Nat, b \in Nat, c \in Nat, d \in Nat, e \in Nat, f \in Nat :
        /\ a < 64 /\ b < 64 /\ c < 64 /\ d < 32 /\ e < 16 /\ f < 8
        /\ Groups(cp, a, b, c, d, e, f)
        /\ Wrote8(Utf8Encode(cp), cp, a, b, c, d, e, f)
  BY <1>0, EncodeCases
<1>3. CASE Utf8Encode(cp) = <<cp>> /\ cp <= 127
  <2>1. Unit(s, k) = cp
    <3>1. \A j \in 1..1 : Unit(s, k + j - 1) = <<cp>>[j]
      BY <1>3 DEF Spelled
    <3> QED
      BY <3>1
  <2>2. cp < 128
    BY <1>1, <1>3
  <2>3. Utf8Decode(s, k) = [cp |-> cp, count |-> 1]
    BY <1>1, <2>1, <2>2, DecodeOne
  <2> QED
    BY <1>3, <2>3
<1>4. CASE Utf8Encode(cp) = <<192 + d, 128 + a>> /\ cp >= 128 /\ cp <= 2047
  <2>1. cp = d * 64 + a
    <3>1. cp = Bits(cp, 6, 5) * 64 + Bits(cp, 0, 6)
      BY <1>1, <1>4, SMT DEF Bits
    <3>2. a = Bits(cp, 0, 6) /\ d = Bits(cp, 6, 5)
      BY <1>2 DEF Groups
    <3> QED
      BY <3>1, <3>2
  <2>2. Unit(s, k) = 192 + d /\ Unit(s, k + 1) = 128 + a
    <3>1. \A j \in 1..2 : Unit(s, k + j - 1) = <<192 + d, 128 + a>>[j]
      BY <1>4 DEF Spelled
    <3> QED
      BY <3>1
  <2>3. Utf8Decode(s, k) = [cp |-> d * 64 + a, count |-> 2]
    BY <1>2, <2>2, DecodeTwo
  <2> QED
    BY <1>4, <2>1, <2>3
<1>5. CASE Utf8Encode(cp) = <<224 + e, 128 + b, 128 + a>> /\ cp >= 2048
  <2>1. cp = e * 4096 + b * 64 + a
    <3>1. cp = Bits(cp, 12, 4) * 4096 + Bits(cp, 6, 6) * 64 + Bits(cp, 0, 6)
      BY <1>1, SMT DEF Bits
    <3>2. a = Bits(cp, 0, 6) /\ b = Bits(cp, 6, 6) /\ e = Bits(cp, 12, 4)
      BY <1>2 DEF Groups
    <3> QED
      BY <3>1, <3>2
  <2>2. Three(s, k, a, b, e)
    <3>1. \A j \in 1..3 : Unit(s, k + j - 1) = <<224 + e, 128 + b, 128 + a>>[j]
      <4>1. PICK u : u = Utf8Encode(cp)
        OBVIOUS
      <4>2. u = <<224 + e, 128 + b, 128 + a>> /\ Len(u) = 3
        BY <1>5, <4>1
      <4>3. \A j \in 1..Len(u) : Unit(s, k + j - 1) = u[j]
        BY <4>1 DEF Spelled
      <4> QED
        BY <4>2, <4>3
    <3> QED
      BY <3>1 DEF Three
  <2>3. Utf8Decode(s, k) = [cp |-> e * 4096 + b * 64 + a, count |-> 3]
    BY <1>2, <2>2, DecodeThree
  <2> QED
    BY <1>5, <2>1, <2>3
<1> QED
  BY <1>1, <1>2, <1>3, <1>4, <1>5, SMT DEF Wrote8

(* Nothing, one unit, or two of which the first is a low surrogate.        *)
LowHigh(cp) ==
  <<56320 + ((cp - 65536) % 2^10), (55296 + (cp - 65536) \div 2^10) % 2^16>>

LEMMA Encode16Cases ==
  ASSUME NEW cp \in Nat, NEW room \in Nat
  PROVE  \/ Utf16Encode(cp, room) = <<>> /\ ~ (cp < 65535 /\ room >= 1)
         \/ Utf16Encode(cp, room) = <<cp>> /\ room >= 1 /\ cp \in Units
         \/ Utf16Encode(cp, room) = LowHigh(cp) /\ room >= 2 /\ Within(cp, 65535, 1114111)
BY SMT DEF Utf16Encode, Within, LowHigh, Units

LEMMA LowHighUnits ==
  ASSUME NEW cp \in Nat, Within(cp, 65535, 1114111)
  PROVE  LowHigh(cp) \in Seq(Units) /\ Len(LowHigh(cp)) = 2 /\ LowHalf(LowHigh(cp)[1])
<1> DEFINE low == 56320 + ((cp - 65536) % 2^10)
           high == (55296 + (cp - 65536) \div 2^10) % 2^16
<1>1. LowHalf(low) /\ low \in Units /\ high \in Units
  BY SMT DEF LowHalf, Within, Units
<1>2. LowHigh(cp) = <<low, high>>
  BY DEF LowHigh
<1> HIDE DEF low, high
<1> QED
  BY <1>1, <1>2

LEMMA Encode16 ==
  ASSUME NEW cp \in Nat, NEW room \in Nat
  PROVE  /\ Utf16Encode(cp, room) \in Seq(Units)
         /\ \/ Utf16Encode(cp, room) = <<>>
            \/ Len(Utf16Encode(cp, room)) = 1 /\ room >= 1
            \/ /\ Len(Utf16Encode(cp, room)) = 2 /\ room >= 2
               /\ LowHalf(Utf16Encode(cp, room)[1])
<1>1. CASE Utf16Encode(cp, room) = <<cp>> /\ room >= 1 /\ cp \in Units
  BY <1>1
<1>2. CASE Utf16Encode(cp, room) = LowHigh(cp) /\ room >= 2 /\ Within(cp, 65535, 1114111)
  BY <1>2, LowHighUnits
<1>3. CASE Utf16Encode(cp, room) = <<>>
  BY <1>3, EmptySeq
<1> QED
  BY <1>1, <1>2, <1>3, Encode16Cases
-----------------------------------------------------------------------------
(* Induction over the numbers, for a set.                                  *)
LEMMA Induction ==
  ASSUME NEW S, 0 \in S, \A n \in Nat : n \in S => n + 1 \in S
  PROVE  Nat \subseteq S
<1> SUFFICES ASSUME Nat \ S # {} PROVE FALSE
  OBVIOUS
<1> DEFINE R == OpToRel(<, Nat)
<1>1. IsWellFoundedOn(R, Nat)
  BY NatLessThanWellFounded
<1>2. \A x, y \in Nat : y < x => <<y, x>> \in R
  BY DEF OpToRel
<1> HIDE DEF R
<1>3. PICK x \in Nat \ S : \A y \in Nat \ S : ~ (<<y, x>> \in R)
  <2>1. \A U \in SUBSET Nat : U # {} => \E x \in U : \A y \in U : ~ (<<y, x>> \in R)
    BY <1>1, WFMin
  <2>2. Nat \ S \in SUBSET Nat
    OBVIOUS
  <2> QED
    BY <2>1, <2>2, Zenon
<1>4. x # 0 /\ x - 1 \in Nat /\ x - 1 < x
  OBVIOUS
<1>5. x - 1 \in S
  BY <1>2, <1>3, <1>4
<1>6. (x - 1) + 1 \in S
  BY <1>4, <1>5
<1> QED
  BY <1>3, <1>6

(* The end of a text is its first zero.                                    *)
LEMMA EndOf ==
  ASSUME NEW s \in Seq(U16), s # <<>>, s[Len(s)] = 0
  PROVE  End(s) \in 1..Len(s) /\ s[End(s)] = 0 /\ \A j \in 1..(End(s) - 1) : s[j] # 0
<1> DEFINE S == {n \in Nat : n <= Len(s) /\ (\E k \in 1..n : s[k] = 0) =>
                    \E k \in 1..Len(s) : s[k] = 0 /\ \A j \in 1..(k - 1) : s[j] # 0}
<1>1. Len(s) \in Nat /\ Len(s) >= 1 /\ DOMAIN s = 1..Len(s)
  BY EmptySeq, LenProperties
<1>2. 0 \in S
  OBVIOUS
<1>3. ASSUME NEW n \in Nat, n \in S PROVE n + 1 \in S
  <2> SUFFICES ASSUME n + 1 <= Len(s), NEW k \in 1..(n + 1), s[k] = 0
               PROVE  \E i \in 1..Len(s) : s[i] = 0 /\ \A j \in 1..(i - 1) : s[j] # 0
    OBVIOUS
  <2>1. CASE \E i \in 1..n : s[i] = 0
    BY <1>1, <1>3, <2>1
  <2>2. CASE ~ \E i \in 1..n : s[i] = 0
    <3>1. k = n + 1
      BY <2>2
    <3>2. k \in 1..Len(s) /\ \A j \in 1..(k - 1) : s[j] # 0
      BY <1>1, <2>2, <3>1
    <3> QED
      BY <3>2
  <2> QED
    BY <2>1, <2>2
<1>4. Len(s) \in S
  <2>1. Nat \subseteq S
    <3> HIDE DEF S
    <3> QED
      BY <1>2, <1>3, Induction
  <2> QED
    BY <1>1, <2>1
<1>5. \E k \in 1..Len(s) : s[k] = 0 /\ \A j \in 1..(k - 1) : s[j] # 0
  <2>1. Len(s) \in 1..Len(s)
    BY <1>1
  <2> QED
    BY <1>1, <1>4, <2>1
<1> QED
  BY <1>1, <1>5 DEF End
-----------------------------------------------------------------------------
(* The invariant of the conversions.  A guest's text is long enough for    *)
(* 0xFFFF to take the unit behind it.                                      *)
EndsTwice(s) ==
  /\ s # <<>> /\ s[Len(s)] = 0
  /\ \A k \in 1..Len(s) : s[k] = 65535 => k + 1 < Len(s)

Kinds ==
  /\ stage \in {"convert", "new", "prefix", "backslashes", "back", "slashes", "opened", "strings"}
  /\ pc \in {"decode", "counted", "encode", "done"}
  /\ source \in Seq(U16) /\ utf8 \in Seq(Byte) /\ out \in Seq(Units)
  /\ pos \in Nat \ {0} /\ cap \in Nat /\ asked \in Nat /\ left \in Nat
  /\ host \in Seq(1..255)
  /\ stage \in {"new", "prefix", "backslashes", "strings"} => pc = "done" /\ out = <<>> /\ pos = 1
  /\ stage # "back" /\ pc \in {"decode", "counted"} => out = <<>>

DecodeInv ==
  pc = "decode" =>
    /\ EndsTwice(source) /\ pos <= Len(source)
    /\ pos <= End(source) \/ source[End(source) - 1] = 65535

CountedInv ==
  pc = "counted" =>
    /\ asked <= Len(source) /\ left <= asked
    /\ pos = asked - left + 1 \/ \E k \in 1..asked : source[k] = 65535

EncodeInv ==
  pc = "encode" =>
    /\ utf8 # <<>> /\ utf8[Len(utf8)] = 0
    /\ pos <= Len(utf8) \/ CutOff(utf8)

BufferInv ==
  /\ StaysInBuffer
  /\ stage = "convert" /\ pc = "encode" =>
       Len(out) <= cap /\ (Len(out) = cap => cap = 0 \/ PairAtEnd)

ConvertInv == Kinds /\ DecodeInv /\ CountedInv /\ EncodeInv /\ BufferInv

(* Only strings of their own are ever without a terminator: those of the   *)
(* conversions and of the paths are stored whole.                          *)
BareInv == stage # "strings" => ~ bare

GuestInv == StringInv /\ ConvertInv /\ BareInv

LEMMA BareKeeps == BareInv /\ [Next]_vars => BareInv'
<1> SUFFICES ASSUME BareInv, [Next]_vars PROVE BareInv'
  OBVIOUS
<1>1. ASSUME NEW s, StringAppend(s) \/ StringPrepend(s) \/ NewString(s) PROVE ~ bare'
  BY <1>1 DEF StringAppend, StringPrepend, NewString, Store
<1>2. CASE Decode
  BY <1>1, <1>2, Zenon DEF Decode, BareInv, stringVars
<1>3. CASE Encode \/ UNCHANGED vars
  BY <1>3 DEF Encode, BareInv, stringVars, vars
<1>4. CASE ReportNew \/ ReportPrefix \/ Reuse
  BY <1>1, <1>4 DEF ReportNew, ReportPrefix, Reuse, BareInv
<1>5. CASE ReportBackslashes \/ Strip \/ Slashes
  BY <1>5 DEF ReportBackslashes, Strip, Slashes, ReplaceAllC, StripPrefix, BareInv, stringVars
<1>6. CASE Strings
  BY <1>6 DEF Strings, BareInv
<1> QED
  BY <1>2, <1>3, <1>4, <1>5, <1>6 DEF Next

LEMMA ReadInv == ConvertInv => ReadsInside
BY DEF ConvertInv, Kinds, DecodeInv, CountedInv, EncodeInv, ReadsInside

(* utf16_to_str.                                                           *)
LEMMA ToUtf8Keeps ==
  ASSUME ConvertInv, ToUtf8, stage' = stage, host' = host
  PROVE  ConvertInv' /\ (pc' = "decode" => \E s \in Seq(Byte) : utf8' = utf8 \o s)
<1> USE DEF ConvertInv
<1> DEFINE d == Utf16Decode(source, pos)
<1>1. /\ pc = "decode" /\ source' = source /\ asked' = asked /\ left' = left
      /\ cap' = cap /\ out' = out
  BY DEF ToUtf8
<1>2. /\ pos \in 1..Len(source) /\ source \in Seq(U16) /\ Len(source) \in Nat
      /\ EndsTwice(source)
  BY <1>1, LenProperties DEF Kinds, DecodeInv
<1>3. /\ d.cp \in Nat /\ d.count \in 1..2
      /\ d.cp = 0 <=> source[pos] = 0
      /\ d.count = 2 <=> source[pos] = 65535
  BY <1>2, Decode16
<1>4. /\ End(source) \in 1..Len(source) /\ source[End(source)] = 0
      /\ \A j \in 1..(End(source) - 1) : source[j] # 0
  BY <1>2, EndOf DEF EndsTwice
<1> HIDE DEF d
<1>5. StaysInBuffer' /\ stage \notin {"new", "prefix", "backslashes", "strings"}
  BY <1>1 DEF BufferInv, StaysInBuffer, PairAtEnd, Kinds
<1>6. CASE d.cp = 0
  <2>1. pc' = "encode" /\ utf8' = Append(utf8, 0) /\ pos' = 1
    BY <1>6 DEF ToUtf8, d
  <2>2. utf8' \in Seq(Byte) /\ utf8' # <<>> /\ utf8'[Len(utf8')] = 0 /\ 1 <= Len(utf8')
    <3>1. 0 \in Byte /\ utf8 \in Seq(Byte)
      BY DEF Byte, Kinds
    <3> QED
      BY <2>1, <3>1, AppendProperties, LenProperties
  <2>3. Kinds' /\ DecodeInv' /\ CountedInv' /\ EncodeInv'
    BY <1>1, <1>5, <2>1, <2>2 DEF Kinds, DecodeInv, CountedInv, EncodeInv
  <2>4. BufferInv'
    BY <1>1, <1>5, <2>1, EmptySeq DEF Kinds, BufferInv
  <2> QED
    BY <2>1, <2>3, <2>4
<1>7. CASE d.cp # 0
  <2>1. utf8' = utf8 \o Utf8Encode(d.cp) /\ pos' = pos + d.count /\ pc' = pc
    BY <1>7 DEF ToUtf8, d
  <2>2. Utf8Encode(d.cp) \in Seq(Byte) /\ utf8 \in Seq(Byte)
    <3>1. d.cp \in Nat
      BY <1>3
    <3>2. Utf8Encode(d.cp) \in Seq(Byte)
      BY <3>1, Encode8
    <3> QED
      BY <3>2 DEF Kinds
  <2>3. utf8' \in Seq(Byte)
    BY <2>1, <2>2, ConcatProperties
  <2>4. pos + d.count \in Nat \ {0} /\ pos + d.count <= Len(source)
    <3>1. pos # Len(source)
      BY <1>2, <1>3, <1>7 DEF EndsTwice
    <3>2. d.count = 2 => pos + 1 < Len(source)
      BY <1>2, <1>3 DEF EndsTwice
    <3> QED
      BY <1>2, <1>3, <3>1, <3>2
  <2>5. pos + d.count <= End(source) \/ source[End(source) - 1] = 65535
    <3>1. CASE source[End(source) - 1] = 65535
      BY <3>1
    <3>2. CASE source[End(source) - 1] # 65535
      <4>1. pos <= End(source)
        BY <1>1, <3>2 DEF DecodeInv
      <4>2. pos # End(source)
        BY <1>3, <1>4, <1>7
      <4>3. d.count = 2 => pos # End(source) - 1
        BY <1>3, <3>2
      <4> QED
        BY <1>2, <1>3, <1>4, <4>1, <4>2, <4>3
    <3> QED
      BY <3>1, <3>2
  <2>6. Kinds' /\ DecodeInv' /\ CountedInv' /\ EncodeInv' /\ BufferInv'
    BY <1>1, <1>2, <1>5, <2>1, <2>3, <2>4, <2>5
    DEF Kinds, DecodeInv, CountedInv, EncodeInv, BufferInv
  <2> QED
    BY <2>1, <2>2, <2>6
<1> QED
  BY <1>6, <1>7

(* utf16_to_str_with_len.                                                  *)
LEMMA ToUtf8CountedKeeps ==
  ASSUME ConvertInv, ToUtf8Counted, stage' = stage, host' = host
  PROVE  ConvertInv' /\ \E s \in Seq(Byte) : utf8' = utf8 \o s
<1> USE DEF ConvertInv
<1> DEFINE d == Utf16Decode(source, pos)
<1>1. /\ pc = "counted" /\ pc' = pc /\ source' = source /\ asked' = asked
      /\ left > 0 /\ left' = left - 1 /\ cap' = cap /\ out' = out
      /\ pos <= Len(source) /\ utf8' = utf8 \o Utf8Encode(d.cp) /\ pos' = pos + d.count
  BY DEF ToUtf8Counted
<1>2. /\ pos \in 1..Len(source) /\ source \in Seq(U16) /\ Len(source) \in Nat
      /\ asked \in Nat /\ left \in Nat
  BY <1>1, LenProperties DEF Kinds
<1>3. /\ d.cp \in Nat /\ d.count \in 1..2
      /\ d.count = 2 <=> source[pos] = 65535
  BY <1>2, Decode16
<1> HIDE DEF d
<1>4. Utf8Encode(d.cp) \in Seq(Byte) /\ utf8 \in Seq(Byte)
  <2>1. d.cp \in Nat
    BY <1>3
  <2>2. Utf8Encode(d.cp) \in Seq(Byte)
    BY <2>1, Encode8
  <2> QED
    BY <2>2 DEF Kinds
<1>5. utf8' \in Seq(Byte)
  BY <1>1, <1>4, ConcatProperties
<1>6. CountedInv'
  <2>1. asked <= Len(source) /\ left - 1 <= asked /\ left <= asked
    BY <1>1, <1>2 DEF CountedInv
  <2>2. pos + d.count = asked - (left - 1) + 1 \/ \E k \in 1..asked : source[k] = 65535
    <3>1. CASE pos = asked - left + 1 /\ source[pos] # 65535
      BY <1>2, <1>3, <3>1
    <3>2. CASE pos = asked - left + 1 /\ source[pos] = 65535
      <4>1. pos \in 1..asked
        BY <1>1, <1>2, <2>1, <3>2
      <4> QED
        BY <3>2, <4>1
    <3> QED
      BY <1>1, <3>1, <3>2 DEF CountedInv
  <2> QED
    BY <1>1, <2>1, <2>2 DEF CountedInv
<1>7. Kinds' /\ DecodeInv' /\ EncodeInv' /\ BufferInv'
  <2>1. pos' \in Nat \ {0} /\ left' \in Nat
    BY <1>1, <1>2, <1>3
  <2>2. Kinds'
    BY <1>1, <1>5, <2>1 DEF Kinds
  <2>3. DecodeInv' /\ EncodeInv'
    BY <1>1 DEF DecodeInv, EncodeInv
  <2>4. BufferInv'
    BY <1>1 DEF BufferInv, StaysInBuffer, PairAtEnd
  <2> QED
    BY <2>2, <2>3, <2>4
<1> QED
  BY <1>1, <1>4, <1>6, <1>7

LEMMA CountedEndsKeeps ==
  ASSUME ConvertInv, CountedEnds, stage' = stage, host' = host
  PROVE  ConvertInv'
<1> USE DEF ConvertInv
<1>1. /\ pc = "counted" /\ source' = source /\ asked' = asked /\ left' = left
      /\ utf8' = utf8 /\ cap' = cap /\ out' = out
      /\ \/ pc' = "encode" /\ pos' = 1 /\ utf8 # <<>> /\ utf8[Len(utf8)] = 0
         \/ pc' = "done" /\ pos' = pos
  BY DEF CountedEnds
<1>2. utf8 # <<>> => 1 <= Len(utf8)
  BY EmptySeq DEF Kinds
<1>3. Kinds' /\ DecodeInv' /\ CountedInv' /\ EncodeInv'
  BY <1>1, <1>2 DEF Kinds, DecodeInv, CountedInv, EncodeInv
<1>4. BufferInv'
  BY <1>1, EmptySeq DEF Kinds, BufferInv, StaysInBuffer, PairAtEnd
<1> QED
  BY <1>3, <1>4

(* str_to_utf16: what comes after the loop.                                *)
LEMMA ToldRoom ==
  ASSUME Room \in Nat
  PROVE  RoomTold \in Nat /\ RoomTold <= Room /\ (RoomTold >= 1 <=> Room >= 1)
BY DEF RoomTold

LEMMA EncodeEndsKeeps ==
  ASSUME ConvertInv, stage = "convert", stage' = stage, host' = host,
         BufferFull \/ ToUtf16Stops \/ ToUtf16Ends
  PROVE  ConvertInv'
<1> USE DEF ConvertInv
<1>1. /\ pc = "encode" /\ pc' = "done" /\ source' = source /\ asked' = asked
      /\ left' = left /\ pos' = pos /\ utf8' = utf8 /\ cap' = cap
  BY DEF BufferFull, ToUtf16Stops, ToUtf16Ends, Terminate
<1>2. /\ out \in Seq(Units) /\ Len(out) \in Nat /\ cap \in Nat
      /\ Len(out) <= cap /\ (Len(out) = cap => cap = 0 \/ PairAtEnd)
  BY <1>1, LenProperties DEF Kinds, BufferInv
<1>3. out' = Append(out, 0) \/ (out' = out \o Utf16Encode(0, RoomTold) /\ RoomTold \in Nat)
  <2>1. RoomTold \in Nat
    BY <1>2, ToldRoom DEF Room
  <2> QED
    BY <2>1 DEF BufferFull, ToUtf16Stops, ToUtf16Ends, Terminate
<1>4. 0 \in Units
  BY DEF Units
<1>5. \/ out' = Append(out, 0)
      \/ out' = out
  <2>1. CASE out' = out \o Utf16Encode(0, RoomTold) /\ RoomTold \in Nat
    <3>1. Utf16Encode(0, RoomTold) = <<>> \/ Utf16Encode(0, RoomTold) = <<0>>
      BY <2>1, SMT DEF Utf16Encode, Within
    <3> QED
      BY <1>2, <1>4, <2>1, <3>1, ConcatEmptySeq, AppendIsConcat
  <2> QED
    BY <1>3, <2>1
<1>6. /\ out' \in Seq(Units) /\ Len(out') \in Nat
      /\ Len(out') = Len(out) \/ Len(out') = Len(out) + 1
      /\ \A k \in 1..Len(out) : out'[k] = out[k]
  BY <1>2, <1>4, <1>5, AppendProperties
<1>7. StaysInBuffer'
  <2>1. PairAtEnd => PairAtEnd' \/ Len(out) < cap - 1
    <3>1. PairAtEnd /\ Len(out) >= cap - 1 => cap - 1 \in 1..Len(out)
      BY <1>2 DEF PairAtEnd
    <3> QED
      BY <1>1, <1>2, <1>6, <3>1 DEF PairAtEnd
  <2>2. Len(out') <= cap + 1
    BY <1>2, <1>6
  <2>3. Len(out') > cap => Len(out) = cap
    BY <1>2, <1>6
  <2> QED
    BY <1>1, <1>2, <2>1, <2>2, <2>3 DEF StaysInBuffer
<1>8. Kinds' /\ DecodeInv' /\ CountedInv' /\ EncodeInv' /\ BufferInv'
  BY <1>1, <1>6, <1>7 DEF Kinds, DecodeInv, CountedInv, EncodeInv, BufferInv
<1> QED
  BY <1>8

(* A turn of its loop: a pair may take the last two units, a unit does not *)
(* take the last one.                                                      *)
LEMMA ToUtf16Keeps ==
  ASSUME ConvertInv, stage = "convert", stage' = stage, host' = host, ToUtf16
  PROVE  ConvertInv'
<1> USE DEF ConvertInv
<1> DEFINE d == Utf8Decode(utf8, pos)
           units == Utf16Encode(d.cp, RoomTold)
<1>1. /\ pc = "encode" /\ pc' = pc /\ source' = source /\ asked' = asked
      /\ left' = left /\ utf8' = utf8 /\ cap' = cap
      /\ Room # 1 /\ d.cp # 0 /\ units # <<>> /\ out' = out \o units /\ pos' = pos + d.count
  BY DEF ToUtf16, LastUnit
<1>2. /\ out \in Seq(Units) /\ Len(out) \in Nat /\ cap \in Nat /\ Len(out) <= cap
      /\ utf8 \in Seq(Byte) /\ Len(utf8) \in Nat /\ pos \in Nat \ {0}
  BY <1>1, LenProperties DEF Kinds, BufferInv
<1>3. Room \in Nat /\ Room = cap - Len(out)
  BY <1>2 DEF Room
<1>4. d.cp \in Nat /\ d.count \in Nat /\ d.count # 0 /\ (Unit(utf8, pos) = 0 => d.cp = 0)
  BY <1>1, <1>2, Decode8
<1>5. /\ units \in Seq(Units)
      /\ \/ Len(units) = 1 /\ Room >= 1
         \/ Len(units) = 2 /\ Room >= 2 /\ LowHalf(units[1])
  <2>1. d.cp \in Nat /\ RoomTold \in Nat /\ Utf16Encode(d.cp, RoomTold) # <<>>
    BY <1>1, <1>3, <1>4, ToldRoom
  <2> HIDE DEF d
  <2>2. /\ units \in Seq(Units)
        /\ \/ Len(units) = 1 /\ RoomTold >= 1
           \/ Len(units) = 2 /\ RoomTold >= 2 /\ LowHalf(units[1])
    BY <2>1, Encode16, Zenon
  <2>3. RoomTold >= 1 => Room >= 1
    BY <1>3, ToldRoom
  <2>4. RoomTold >= 2 => Room >= 2
    BY <1>3, <2>1, ToldRoom
  <2> QED
    BY <2>2, <2>3, <2>4, Zenon
<1>6. EncodeInv'
  <2>1. pos + d.count <= Len(utf8) \/ CutOff(utf8)
    <3>1. CASE pos <= Len(utf8)
      <4>1. pos # Len(utf8)
        <5>1. DOMAIN utf8 = 1..Len(utf8)
          BY <1>2, LenProperties
        <5>2. utf8[Len(utf8)] = 0
          BY <1>1 DEF EncodeInv
        <5> QED
          BY <1>1, <1>2, <1>4, <3>1, <5>1, <5>2 DEF Unit
      <4>2. pos \in 1..(Len(utf8) - 1)
        BY <1>2, <3>1, <4>1
      <4>3. pos + d.count > Len(utf8) => CutOff(utf8)
        BY <4>2 DEF CutOff
      <4> QED
        BY <1>2, <1>4, <4>3
    <3>2. CASE ~ pos <= Len(utf8)
      BY <1>1, <3>2 DEF EncodeInv
    <3> QED
      BY <3>1, <3>2
  <2> QED
    BY <1>1, <2>1 DEF EncodeInv
<1> HIDE DEF units, d
<1>7. /\ out' \in Seq(Units) /\ Len(out') = Len(out) + Len(units)
      /\ Len(units) = 2 => out'[Len(out) + 1] = units[1]
  <2>1. /\ out' \in Seq(Units) /\ Len(out') = Len(out) + Len(units)
        /\ \A i \in 1..(Len(out) + Len(units)) :
             out'[i] = IF i <= Len(out) THEN out[i] ELSE units[i - Len(out)]
    BY <1>1, <1>2, <1>5, ConcatProperties
  <2>2. Len(units) = 2 =>
           /\ Len(out) + 1 \in 1..(Len(out) + Len(units)) /\ ~ (Len(out) + 1 <= Len(out))
           /\ (Len(out) + 1) - Len(out) = 1
    BY <1>2
  <2> QED
    BY <2>1, <2>2
<1>8. Len(out') <= cap /\ (Len(out') = cap => PairAtEnd')
  <2>1. CASE Len(units) = 1 /\ Room >= 1
    BY <1>1, <1>2, <1>3, <1>7, <2>1
  <2>2. CASE Len(units) = 2 /\ Room >= 2 /\ LowHalf(units[1])
    <3>1. Len(out') <= cap /\ (Len(out') = cap => cap - 1 = Len(out) + 1 /\ cap >= 2)
      BY <1>2, <1>3, <1>7, <2>2
    <3> QED
      BY <1>1, <1>7, <2>2, <3>1 DEF PairAtEnd
  <2> QED
    BY <1>5, <2>1, <2>2
<1>9. BufferInv'
  BY <1>1, <1>2, <1>7, <1>8 DEF BufferInv, StaysInBuffer
<1>10. pos' \in Nat \ {0}
  BY <1>1, <1>2, <1>4
<1>11. Kinds' /\ DecodeInv' /\ CountedInv'
  BY <1>1, <1>7, <1>10 DEF Kinds, DecodeInv, CountedInv
<1> QED
  BY <1>6, <1>9, <1>11
-----------------------------------------------------------------------------
(* The three kinds of behaviours.                                          *)
LEMMA GuestInit == Init => GuestInv
<1> SUFFICES ASSUME Init PROVE GuestInv
  OBVIOUS
<1>0. BareInv
  BY DEF Init, StringIs, BareInv
<1>1. 1 \in Nat \ {0} /\ <<>> \in Seq(U16) /\ <<>> \in Seq(Byte)
      /\ <<>> \in Seq(Units) /\ Len(<<>>) = 0 /\ <<>> \in Seq(1..255)
  BY EmptySeq
<1>2. CASE /\ stage = "convert" /\ UtfInit /\ host = <<>>
           /\ StringIs(SubSeq(utf8, 1, Len(utf8) - 1))
  <2>1. UtfInit /\ out = <<>> /\ pos = 1 /\ left = asked /\ cap \in Nat
    <3>1. out = <<>> /\ pos = 1 /\ left = asked /\ cap \in Caps
      BY <1>2 DEF UtfInit, Unread
    <3>2. \A n \in Caps : n \in Nat
      BY UtfAssumption
    <3> QED
      BY <1>2, <3>1, <3>2
  <2>2. utf8 \in Seq(Byte)
    <3>1. utf8 \in Host \/ utf8 = <<>>
      BY <2>1 DEF UtfInit
    <3>2. \A s \in Host : s \in Seq(Byte)
      BY UtfAssumption
    <3> QED
      BY <1>1, <3>1, <3>2
  <2>3. StringInv
    <3>1. SubSeq(utf8, 1, Len(utf8) - 1) \in Seq(Byte)
      BY <2>2, LenProperties, SubSeqProperties
    <3> QED
      BY <1>2, <3>1, StringIsHolds
  <2>4. BufferInv
    BY <1>1, <2>1 DEF BufferInv, StaysInBuffer
  <2>5. CASE pc = "encode"
    <3>1. source = <<>> /\ asked = 0 /\ utf8 # <<>> /\ utf8[Len(utf8)] = 0 /\ 1 <= Len(utf8)
      <4>1. utf8 \in Host /\ source = <<>> /\ asked = 0
        BY <2>1, <2>5 DEF UtfInit
      <4>2. utf8 # <<>> /\ utf8[Len(utf8)] = 0
        BY <4>1, UtfAssumption
      <4> QED
        BY <2>2, <4>1, <4>2, EmptySeq, LenProperties
    <3> QED
      BY <1>0, <1>1, <1>2, <2>1, <2>2, <2>3, <2>4, <2>5, <3>1
      DEF GuestInv, ConvertInv, Kinds, DecodeInv, CountedInv, EncodeInv
  <2>6. CASE source \in Guest /\ utf8 = <<>> /\ pc \in {"decode", "counted"}
    <3>1. source \in Seq(U16) /\ Len(source) >= 2 /\ source[Len(source)] = 0
          /\ source[Len(source) - 1] = 0 /\ Len(source) \in Nat /\ source # <<>>
      BY <2>6, UtfAssumption, LenProperties, EmptySeq
    <3>2. End(source) \in 1..Len(source)
      BY <3>1, EndOf
    <3>3. EndsTwice(source)
      <4>1. ASSUME NEW k \in 1..Len(source), source[k] = 65535 PROVE k + 1 < Len(source)
        <5>1. k # Len(source) /\ k # Len(source) - 1
          BY <3>1, <4>1
        <5> QED
          BY <3>1, <5>1
      <4> QED
        BY <3>1, <4>1 DEF EndsTwice
    <3>4. asked \in Nat /\ (pc = "counted" => asked <= Len(source))
      <4>1. asked \in {0, End(source)} \/ (asked \in Counts /\ asked <= End(source))
        BY <2>1, <2>6 DEF UtfInit
      <4>2. pc = "counted" /\ asked # 0 => asked <= End(source)
        BY <3>1, <3>2, <4>1
      <4>3. \A n \in Counts : n \in Nat
        BY UtfAssumption
      <4> QED
        BY <3>1, <3>2, <4>1, <4>2, <4>3
    <3>5. Kinds
      BY <1>1, <1>2, <2>1, <2>2, <2>6, <3>1, <3>4 DEF Kinds
    <3>6. DecodeInv /\ CountedInv /\ EncodeInv
      BY <2>1, <2>6, <3>1, <3>2, <3>3, <3>4 DEF DecodeInv, CountedInv, EncodeInv
    <3> QED
      BY <1>0, <2>3, <2>4, <3>5, <3>6 DEF GuestInv, ConvertInv
  <2> QED
    BY <2>1, <2>5, <2>6 DEF UtfInit
<1>3. CASE /\ stage \in {"new", "strings"} /\ UtfIdle /\ cap \in Nat /\ host \in Seq(1..255)
           /\ StringIs(<<>>) \/ StringInit
  <2>1. /\ pc = "done" /\ source = <<>> /\ utf8 = <<>> /\ asked = 0 /\ pos = 1
        /\ out = <<>> /\ left = 0
    BY <1>3 DEF UtfIdle, Unread
  <2>2. StringInv
    BY <1>1, <1>3, StringIsHolds, StringInitHolds
  <2> QED
    BY <1>0, <1>1, <1>3, <2>1, <2>2
    DEF GuestInv, ConvertInv, Kinds, DecodeInv, CountedInv, EncodeInv, BufferInv, StaysInBuffer
<1>4. PathCaps \subseteq Nat /\ \A p \in Path : p \in Seq(1..255)
  BY GuestPathAssumption
<1>5. CASE stage = "new" /\ host \in Path /\ UtfIdle /\ cap \in PathCaps /\ StringIs(<<>>)
  BY <1>3, <1>4, <1>5
<1>6. CASE stage = "strings" /\ host = <<>> /\ UtfIdle /\ cap = 0 /\ StringInit
  BY <1>1, <1>3, <1>6
<1> QED
  BY <1>2, <1>5, <1>6 DEF Init

(* What a conversion appends is what it has written since.                 *)
LEMMA Appended ==
  ASSUME NEW s \in Seq(Byte), NEW t \in Seq(Byte)
  PROVE  SubSeq(s \o t, Len(s) + 1, Len(s \o t)) = t
BY SMT

LEMMA DecodeKeeps == GuestInv /\ Decode => GuestInv'
<1> SUFFICES ASSUME GuestInv, Decode PROVE GuestInv'
  OBVIOUS
<1> USE DEF GuestInv
<1>0. BareInv'
  BY BareKeeps DEF Next
<1>1. stage' = stage /\ host' = host /\ utf8 \in Seq(Byte)
  BY DEF Decode, ConvertInv, Kinds
<1>2. ASSUME NEW s \in Seq(Byte), utf8' = utf8 \o s,
             StringAppend(SubSeq(utf8', Len(utf8) + 1, Len(utf8')))
      PROVE  StringInv'
  BY <1>1, <1>2, Appended, StringAppendKeeps
<1>3. CASE ToUtf8 /\ pc' = "decode" /\ StringAppend(SubSeq(utf8', Len(utf8) + 1, Len(utf8')))
  BY <1>0, <1>1, <1>2, <1>3, ToUtf8Keeps
<1>4. CASE ToUtf8Counted /\ StringAppend(SubSeq(utf8', Len(utf8) + 1, Len(utf8')))
  BY <1>0, <1>1, <1>2, <1>4, ToUtf8CountedKeeps
<1>5. CASE (ToUtf8 \/ CountedEnds) /\ UNCHANGED stringVars
  <2>1. StringInv'
    BY <1>5, StepKeeps
  <2> QED
    BY <1>0, <1>1, <1>5, <2>1, ToUtf8Keeps, CountedEndsKeeps
<1> QED
  BY <1>3, <1>4, <1>5 DEF Decode

LEMMA EncodeKeeps == GuestInv /\ Encode => GuestInv'
<1> SUFFICES ASSUME GuestInv, Encode PROVE GuestInv'
  OBVIOUS
<1>1. stage = "convert" /\ stage' = stage /\ host' = host /\ UNCHANGED stringVars
  BY DEF Encode
<1>2. StringInv'
  BY <1>1, StepKeeps DEF GuestInv
<1>3. ConvertInv'
  BY <1>1, ToUtf16Keeps, EncodeEndsKeeps DEF GuestInv, Encode
<1>4. BareInv'
  BY BareKeeps DEF GuestInv, Next
<1> QED
  BY <1>2, <1>3, <1>4 DEF GuestInv

(* Steps that leave the conversion alone keep what is said of it, unless   *)
(* its stage has changed to one where more is said.                        *)
LEMMA UtfSame ==
  ASSUME ConvertInv, UNCHANGED utfVars, host' = host,
         \/ stage' = stage
         \/ stage \in {"new", "prefix"} /\ stage' \in {"prefix", "backslashes"}
         \/ stage = "back" /\ pc = "encode" /\ stage' = "slashes"
         \/ stage = "slashes" /\ stage' = "opened"
  PROVE  ConvertInv'
<1>1. /\ pc' = pc /\ source' = source /\ asked' = asked /\ left' = left /\ pos' = pos
      /\ utf8' = utf8 /\ cap' = cap /\ out' = out
  BY DEF utfVars
<1>2. Kinds' /\ DecodeInv' /\ CountedInv' /\ EncodeInv'
  BY <1>1 DEF ConvertInv, Kinds, DecodeInv, CountedInv, EncodeInv
<1>3. StaysInBuffer' /\ PairAtEnd' = PairAtEnd
  BY <1>1 DEF ConvertInv, BufferInv, StaysInBuffer, PairAtEnd
<1>4. BufferInv'
  BY <1>1, <1>3 DEF ConvertInv, BufferInv
<1> QED
  BY <1>2, <1>4 DEF ConvertInv

LEMMA DriveIsText == Drive \in Seq(1..255) /\ Drive \in Seq(Byte)
<1>1. Drive \in Seq(1..255)
  BY DEF Drive
<1> QED
  BY <1>1, BytesOfTexts

(* What str_to_utf16 reads of a string with a terminator is its text.      *)
LEMMA HeldEnds ==
  ASSUME StringInv', ~ bare', len' = len
  PROVE  [c \in 1..(len + 1) |-> cells'[c - 1]] = Append([c \in 1..len |-> cells'[c - 1]], Nul)
<1>1. len \in Nat /\ cells'[len] = Nul
  BY DEF StringInv, Fields, HoldsText, Terminated
<1>2. PICK m : m = cells'
  OBVIOUS
<1>3. PICK a : a = [c \in 1..len |-> m[c - 1]]
  OBVIOUS
<1>4. PICK b : b = [c \in 1..(len + 1) |-> m[c - 1]]
  OBVIOUS
<1>5. a \in Seq(Byte) /\ Len(a) = len
  <2>1. Held' \in Seq(Byte) /\ Held' = a
    BY <1>2, <1>3 DEF StringInv, HoldsText, Fields, Held
  <2>2. DOMAIN a = 1..len
    BY <1>3
  <2> QED
    BY <1>1, <2>1, <2>2
<1>6. \A c \in 1..len : b[c] = a[c]
  BY <1>1, <1>3, <1>4
<1>7. b[len + 1] = Nul /\ Nul \in Byte
  BY <1>1, <1>2, <1>4 DEF Nul, Byte
<1>8. b \in Seq(Byte) /\ Len(b) = len + 1
  <2>1. \A c \in 1..(len + 1) : b[c] \in Byte
    BY <1>1, <1>5, <1>6, <1>7
  <2> QED
    BY <1>1, <1>4, <2>1
<1>9. b = Append(a, Nul)
  BY <1>1, <1>5, <1>6, <1>7, <1>8, AppendProperties, SeqEqual
<1> QED
  BY <1>2, <1>3, <1>4, <1>9

LEMMA ReportKeeps ==
  GuestInv /\ (ReportNew \/ ReportPrefix \/ ReportBackslashes) => GuestInv'
<1> SUFFICES ASSUME GuestInv, ReportNew \/ ReportPrefix \/ ReportBackslashes
             PROVE  GuestInv'
  OBVIOUS
<1> USE DEF GuestInv
<1>0. BareInv'
  BY BareKeeps DEF Next
<1>1. CASE ReportNew
  <2>1. host \in Seq(Byte)
    BY BytesOfTexts DEF ConvertInv, Kinds
  <2>2. StringInv'
    BY <1>1, <2>1, NewStringKeeps DEF ReportNew
  <2>3. ConvertInv'
    BY <1>1, UtfSame DEF ReportNew
  <2> QED
    BY <1>0, <2>2, <2>3
<1>2. CASE ReportPrefix
  <2>1. StringInv'
    BY <1>2, DriveIsText, StringPrependKeeps DEF ReportPrefix
  <2>2. ConvertInv'
    BY <1>2, UtfSame DEF ReportPrefix
  <2> QED
    BY <1>0, <2>1, <2>2
<1>3. CASE ReportBackslashes
  <2>1. Slash \in Byte /\ Backslash \in Byte /\ 0 \in Byte /\ Nul = 0
    BY DEF Slash, Backslash, Byte, Nul
  <2>2. StringInv'
    BY <1>3, <2>1, ReplaceAllCKeeps DEF ReportBackslashes
  <2>3. /\ source' = source /\ asked' = asked /\ left' = left /\ pos' = pos /\ cap' = cap
        /\ out' = out /\ host' = host /\ stage = "backslashes" /\ stage' = "convert"
        /\ pc' = "encode" /\ utf8' = Append([c \in 1..len |-> cells'[c - 1]], Nul)
    <3>1. StringInv' /\ ~ bare' /\ len' = len
      BY <1>0, <1>3, <2>2 DEF ReportBackslashes, ReplaceAllC, BareInv
    <3>2. utf8' = [c \in 1..(len + 1) |-> cells'[c - 1]]
      BY <1>3 DEF ReportBackslashes
    <3> QED
      BY <1>3, <3>1, <3>2, HeldEnds DEF ReportBackslashes
  <2>4. pos = 1 /\ out = <<>> /\ Len(out) = 0
    BY <2>3, EmptySeq DEF ConvertInv, Kinds
  <2>5. [c \in 1..len |-> cells'[c - 1]] \in Seq(Byte)
    <3>1. Held' \in Seq(Byte)
      BY <2>2 DEF StringInv, HoldsText, Fields
    <3>2. len' = len
      BY <1>3 DEF ReportBackslashes, ReplaceAllC
    <3> QED
      BY <3>1, <3>2 DEF Held
  <2>6. utf8' \in Seq(Byte) /\ utf8' # <<>> /\ utf8'[Len(utf8')] = 0 /\ 1 <= Len(utf8')
    <3> DEFINE s == [c \in 1..len |-> cells'[c - 1]]
    <3>1. s \in Seq(Byte) /\ utf8' = Append(s, 0) /\ 0 \in Byte
      BY <2>1, <2>3, <2>5
    <3> HIDE DEF s
    <3>2. /\ utf8' \in Seq(Byte) /\ Len(utf8') = Len(s) + 1 /\ utf8' # <<>>
          /\ utf8'[Len(s) + 1] = 0 /\ Len(s) \in Nat
      BY <3>1, AppendProperties, LenProperties
    <3> QED
      BY <3>2
  <2>7. Kinds' /\ DecodeInv' /\ CountedInv' /\ EncodeInv'
    <3>1. pc' = "encode" /\ stage' = "convert" /\ 1 <= Len(utf8') /\ pos' = 1
      BY <2>3, <2>4, <2>6
    <3>2. utf8' \in Seq(Byte) /\ utf8' # <<>> /\ utf8'[Len(utf8')] = 0
      BY <2>6
    <3>3. /\ source' = source /\ asked' = asked /\ left' = left /\ cap' = cap
          /\ out' = out /\ host' = host
      BY <2>3
    <3> QED
      BY <3>1, <3>2, <3>3 DEF ConvertInv, Kinds, DecodeInv, CountedInv, EncodeInv
  <2>8. BufferInv'
    BY <2>3, <2>4 DEF ConvertInv, Kinds, BufferInv, StaysInBuffer
  <2> QED
    BY <1>0, <2>2, <2>7, <2>8 DEF ConvertInv
<1> QED
  BY <1>1, <1>2, <1>3

(* What the guest hands back is what it was told, which has no 0xFFFF.     *)
LEMMA ReuseKeeps == GuestInv /\ Reuse => GuestInv'
<1> SUFFICES ASSUME GuestInv, Reuse PROVE GuestInv'
  OBVIOUS
<1>1. /\ stage = "convert" /\ stage' = "back" /\ pc' = "decode"
      /\ source' = Append(out, 0) /\ pos' = 1 /\ utf8' = <<>> /\ NewString(<<>>)
      /\ asked' = asked /\ left' = left /\ cap' = cap /\ out' = out /\ host' = host
  BY DEF Reuse
<1>2. StringInv'
  BY <1>1, EmptySeq, NewStringKeeps DEF GuestInv
<1>3. /\ out \in Seq(Units) /\ Len(out) \in Nat
      /\ \A k \in 1..Len(out) : out[k] \in Units
  BY ElementOfSeq, LenProperties DEF GuestInv, ConvertInv, Kinds
<1>4. Units \subseteq U16 /\ 65535 \notin Units /\ 0 \in U16 /\ 0 # 65535
  <2>1. \A n \in Units : n \in U16 /\ n # 65535
    BY U16Range DEF Units
  <2>2. 0 \in U16 /\ 0 # 65535
    BY U16Range
  <2> QED
    BY <2>1, <2>2
<1>5. /\ source' \in Seq(U16) /\ Len(source') = Len(out) + 1 /\ source' # <<>>
      /\ source'[Len(source')] = 0 /\ \A k \in 1..Len(out) : source'[k] \in Units
  <2>1. out \in Seq(U16)
    BY <1>3, <1>4, SeqMonotonic
  <2> QED
    BY <1>1, <1>3, <1>4, <2>1, AppendProperties
<1>6. EndsTwice(source')
  <2>1. ASSUME NEW k \in 1..Len(source') PROVE source'[k] # 65535
    <3>1. k \in 1..Len(out) \/ k = Len(source')
      BY <1>3, <1>5
    <3> QED
      BY <1>4, <1>5, <3>1
  <2> QED
    BY <1>5, <2>1 DEF EndsTwice
<1>7. End(source') \in 1..Len(source')
  BY <1>5, EndOf
<1>8. Kinds'
  BY <1>1, <1>3, <1>5, EmptySeq DEF GuestInv, ConvertInv, Kinds
<1>9. DecodeInv' /\ CountedInv' /\ EncodeInv'
  BY <1>1, <1>3, <1>5, <1>6, <1>7 DEF DecodeInv, CountedInv, EncodeInv
<1>10. BufferInv'
  BY <1>1 DEF GuestInv, ConvertInv, BufferInv, StaysInBuffer, PairAtEnd
<1>11. BareInv'
  BY BareKeeps DEF GuestInv, Next
<1> QED
  BY <1>2, <1>8, <1>9, <1>10, <1>11 DEF GuestInv, ConvertInv

LEMMA OpenKeeps == GuestInv /\ (Strip \/ Slashes) => GuestInv'
<1> SUFFICES ASSUME GuestInv, Strip \/ Slashes PROVE GuestInv'
  OBVIOUS
<1> USE DEF GuestInv
<1>0. BareInv'
  BY BareKeeps DEF Next
<1>1. CASE Strip
  <2>1. StringInv'
    BY <1>1, DriveIsText, StripPrefixKeeps, StepKeeps DEF Strip
  <2>2. ConvertInv'
    BY <1>1, UtfSame DEF Strip
  <2> QED
    BY <1>0, <2>1, <2>2
<1>2. CASE Slashes
  <2>1. Slash \in Byte /\ Backslash \in Byte
    BY DEF Slash, Backslash, Byte
  <2>2. StringInv'
    BY <1>2, <2>1, ReplaceAllCKeeps DEF Slashes
  <2>3. ConvertInv'
    BY <1>2, UtfSame DEF Slashes
  <2> QED
    BY <1>0, <2>2, <2>3
<1> QED
  BY <1>1, <1>2

LEMMA GuestStep == GuestInv /\ [Next]_vars => GuestInv'
<1> SUFFICES ASSUME GuestInv, [Next]_vars PROVE GuestInv'
  OBVIOUS
<1>0. BareInv'
  BY BareKeeps DEF GuestInv
<1>1. CASE Strings
  <2>1. StringInv'
    BY <1>1, StepKeeps DEF GuestInv, Strings
  <2>2. ConvertInv'
    BY <1>1, UtfSame DEF GuestInv, Strings
  <2> QED
    BY <1>0, <2>1, <2>2 DEF GuestInv
<1>2. CASE UNCHANGED vars
  <2>1. StringInv' /\ ConvertInv'
    BY <1>2, StepKeeps, UtfSame DEF GuestInv, vars
  <2> QED
    BY <1>0, <2>1 DEF GuestInv
<1> QED
  BY <1>1, <1>2, DecodeKeeps, EncodeKeeps, ReportKeeps, ReuseKeeps, OpenKeeps DEF Next
-----------------------------------------------------------------------------
(* Texts and their spellings.                                              *)

(* b spells the first m characters of s, the i-th from st[i] on; st[m + 1] *)
(* is where the next would start.                                          *)
Spells(b, s, m, st) ==
  /\ st \in [1..(m + 1) -> Nat \ {0}] /\ st[1] = 1
  /\ \A i \in 1..m :
       /\ st[i + 1] = st[i] + Len(Utf8Encode(s[i])) /\ st[i + 1] <= st[m + 1]
       /\ Spelled(b, st[i], s[i])

LEMMA SpellsNone ==
  ASSUME NEW b, NEW s
  PROVE  \E st : Spells(b, s, 0, st) /\ st[1] = 1
<1> DEFINE st == [i \in 1..1 |-> 1]
<1>1. Spells(b, s, 0, st) /\ st[1] = 1
  BY DEF Spells
<1> HIDE DEF st
<1> QED
  BY <1>1

(* One more character can be added to what is spelled.                     *)
Continues(b, b2, s, s2, m, st) ==
  /\ Spells(b, s, m, st)
  /\ \A i \in 1..m : s2[i] = s[i] /\ s[i] \in Units
  /\ \A k \in Nat \ {0} : k < st[m + 1] => Unit(b2, k) = Unit(b, k)
  /\ s2[m + 1] \in Units /\ Spelled(b2, st[m + 1], s2[m + 1])

LEMMA SpellsGrows ==
  ASSUME NEW b, NEW b2, NEW s, NEW s2, NEW m \in Nat, NEW st, Continues(b, b2, s, s2, m, st)
  PROVE  \E t : /\ Spells(b2, s2, m + 1, t)
                /\ t[m + 1] = st[m + 1]
                /\ t[m + 2] = st[m + 1] + Len(Utf8Encode(s2[m + 1]))
<1> DEFINE l(i) == Len(Utf8Encode(s2[i]))
           t == [i \in 1..(m + 2) |-> IF i <= m + 1 THEN st[i] ELSE st[m + 1] + l(m + 1)]
<1>1. \A i \in 1..(m + 1) : st[i] \in Nat \ {0}
  BY DEF Spells, Continues
<1>2. \A i \in 1..(m + 1) : s2[i] \in Units
  <2>1. \A i \in 1..(m + 1) : i \in 1..m \/ i = m + 1
    OBVIOUS
  <2> QED
    BY <2>1 DEF Continues
<1>3. \A i \in 1..(m + 1) : l(i) \in 1..3
  BY <1>2, Spelling
<1> HIDE DEF l
<1>4. m + 1 \in 1..(m + 1) /\ l(m + 1) \in Nat /\ st[m + 1] \in Nat
  BY <1>1, <1>3
<1>5. /\ \A i \in 1..(m + 1) : t[i] = st[i]
      /\ t[m + 2] = st[m + 1] + l(m + 1)
  BY <1>4
<1>6. t \in [1..(m + 2) -> Nat \ {0}] /\ t[1] = 1
  <2>1. \A i \in 1..(m + 2) : t[i] \in Nat \ {0}
    BY <1>1, <1>4, <1>5
  <2>2. st[1] = 1
    BY DEF Spells, Continues
  <2> QED
    BY <1>5, <2>1, <2>2
<1>7. ASSUME NEW i \in 1..(m + 1)
      PROVE  /\ t[i + 1] = t[i] + l(i) /\ t[i + 1] <= t[m + 2]
             /\ Spelled(b2, t[i], s2[i])
  <2>1. CASE i = m + 1
    BY <1>4, <1>5, <2>1 DEF Continues, l
  <2>2. CASE i # m + 1
    <3>1. i \in 1..m /\ i + 1 \in 1..(m + 1)
      BY <2>2
    <3>2. /\ st[i + 1] = st[i] + Len(Utf8Encode(s[i])) /\ st[i + 1] <= st[m + 1]
          /\ Spelled(b, st[i], s[i]) /\ s2[i] = s[i]
      BY <3>1 DEF Spells, Continues
    <3>3. st[i + 1] = st[i] + l(i)
      BY <3>2 DEF l
    <3>4. t[i + 1] = t[i] + l(i) /\ t[i + 1] <= t[m + 2]
      BY <1>1, <1>4, <1>5, <3>1, <3>2, <3>3
    <3>5. ASSUME NEW j \in 1..Len(Utf8Encode(s2[i]))
          PROVE  Unit(b2, st[i] + j - 1) = Utf8Encode(s2[i])[j]
      <4>1. l(i) \in Nat /\ j \in 1..l(i) /\ st[i] \in Nat \ {0}
        BY <1>1, <1>3 DEF l
      <4>2. st[i] + j - 1 \in Nat \ {0} /\ st[i] + j - 1 < st[m + 1]
        <5>1. PICK x \in Nat, y \in Nat : x = l(i) /\ y = st[m + 1]
          BY <1>4, <4>1
        <5>2. st[i] + x <= y /\ j \in 1..x /\ st[i] \in Nat \ {0}
          BY <3>2, <3>3, <4>1, <5>1
        <5>3. \A u \in Nat \ {0} : u + x <= y => u + j - 1 \in Nat \ {0} /\ u + j - 1 < y
          BY <5>2
        <5> QED
          BY <5>1, <5>2, <5>3
      <4>3. Unit(b2, st[i] + j - 1) = Unit(b, st[i] + j - 1)
        BY <4>2 DEF Continues
      <4>4. Unit(b, st[i] + j - 1) = Utf8Encode(s[i])[j]
        BY <3>2 DEF Spelled
      <4> QED
        BY <3>2, <4>3, <4>4
    <3> QED
      BY <1>5, <3>4, <3>5 DEF Spelled
  <2> QED
    BY <2>1, <2>2
<1>8. Spells(b2, s2, m + 1, t)
  <2>1. (m + 1) + 1 = m + 2
    OBVIOUS
  <2> HIDE DEF t
  <2> QED
    BY <1>6, <1>7, <2>1 DEF Spells, l
<1> HIDE DEF t
<1> QED
  BY <1>5, <1>8 DEF l

(* b is the spelling of the first m characters of s and nothing else.      *)
SpelledOut(b, s, m) == \E st : Spells(b, s, m, st) /\ st[m + 1] = Len(b) + 1

LEMMA SpelledNothing ==
  ASSUME NEW s
  PROVE  SpelledOut(<<>>, s, 0)
BY SpellsNone DEF SpelledOut

(* A text grows by the spelling of a character.                            *)
LEMMA SpellsAppended ==
  ASSUME NEW b \in Seq(Byte), NEW s, NEW m \in Nat, SpelledOut(b, s, m),
         \A i \in 1..(m + 1) : s[i] \in Units
  PROVE  SpelledOut(b \o Utf8Encode(s[m + 1]), s, m + 1)
<1>0. PICK st : Spells(b, s, m, st) /\ st[m + 1] = Len(b) + 1
  BY DEF SpelledOut
<1> DEFINE e == Utf8Encode(s[m + 1])
           b2 == b \o e
<1>1. m + 1 \in 1..(m + 1) /\ s[m + 1] \in Units
  OBVIOUS
<1>2. e \in Seq(Byte) /\ Len(e) \in Nat /\ Len(b) \in Nat
  BY <1>1, Spelling, LenProperties
<1> HIDE DEF e
<1>3. /\ b2 \in Seq(Byte) /\ Len(b2) = Len(b) + Len(e)
      /\ \A i \in 1..(Len(b) + Len(e)) : b2[i] = IF i <= Len(b) THEN b[i] ELSE e[i - Len(b)]
  BY <1>2, ConcatProperties
<1>4. DOMAIN b2 = 1..Len(b2) /\ DOMAIN b = 1..Len(b)
  BY <1>3, LenProperties
<1> HIDE DEF b2
<1>5. \A k \in Nat \ {0} : k < st[m + 1] => Unit(b2, k) = Unit(b, k)
  BY <1>0, <1>2, <1>3, <1>4 DEF Unit
<1>6. \A j \in 1..Len(e) : Unit(b2, st[m + 1] + j - 1) = e[j]
  <2>1. ASSUME NEW j \in 1..Len(e)
        PROVE  Unit(b2, st[m + 1] + j - 1) = e[j]
    <3>1. st[m + 1] + j - 1 = Len(b) + j /\ Len(b) + j \in 1..(Len(b) + Len(e))
          /\ ~ (Len(b) + j <= Len(b)) /\ (Len(b) + j) - Len(b) = j
      BY <1>0, <1>2
    <3> QED
      BY <1>3, <1>4, <3>1 DEF Unit
  <2> QED
    BY <2>1
<1>7. Spelled(b2, st[m + 1], s[m + 1])
  BY <1>6 DEF Spelled, e
<1>8. Continues(b, b2, s, s, m, st)
  BY <1>0, <1>1, <1>5, <1>7 DEF Continues
<1>9. \E t : /\ Spells(b2, s, m + 1, t)
             /\ t[m + 1] = st[m + 1]
             /\ t[m + 2] = st[m + 1] + Len(e)
  BY <1>8, SpellsGrows DEF e
<1>10. st[m + 1] + Len(e) = Len(b2) + 1 /\ (m + 1) + 1 = m + 2
  BY <1>0, <1>2, <1>3
<1>11. SpelledOut(b2, s, m + 1)
  BY <1>9, <1>10 DEF SpelledOut
<1> QED
  BY <1>11 DEF e, b2

(* What is read at the start of a character is that character.             *)
LEMMA SpellsRead ==
  ASSUME NEW b \in Seq(Byte), NEW s, NEW m \in Nat, NEW st, Spells(b, s, m, st),
         NEW i \in 1..m, s[i] \in Units
  PROVE  /\ Utf8Decode(b, st[i]) = [cp |-> s[i], count |-> st[i + 1] - st[i]]
         /\ st[i] \in Nat \ {0} /\ st[i + 1] \in Nat \ {0}
<1>1. /\ st[i + 1] = st[i] + Len(Utf8Encode(s[i])) /\ Spelled(b, st[i], s[i])
      /\ st[i] \in Nat \ {0} /\ st[i + 1] \in Nat \ {0}
  <2>1. i \in 1..(m + 1) /\ i + 1 \in 1..(m + 1)
    OBVIOUS
  <2> QED
    BY <2>1 DEF Spells
<1>2. Len(Utf8Encode(s[i])) \in Nat
  BY Spelling
<1>3. Len(Utf8Encode(s[i])) = st[i + 1] - st[i]
  BY <1>1, <1>2
<1> QED
  BY <1>1, <1>3, ReadBack

(* A text of which only the last character is zero, and none is 0xFFFF.    *)
EndsAt(q, n) ==
  /\ n \in Nat \ {0}
  /\ \A i \in 1..n : q[i] \in Units /\ (q[i] = 0 <=> i = n)

(* The terminator is spelled by itself.                                    *)
LEMMA ZeroSpelled == 0 \in Units /\ Utf8Encode(0) = <<0>>
<1>1. 0 \in Units
  BY DEF Units
<1> QED
  BY <1>1, Spelling

(* A unit below 0xFFFF is a character.                                     *)
LEMMA UnitRead ==
  ASSUME NEW s, NEW k, s[k] \in Units
  PROVE  Utf16Decode(s, k) = [cp |-> s[k], count |-> 1]
<1>1. PICK n : n = s[k] /\ n \in Units
  OBVIOUS
<1>2. n < 65535
  BY <1>1 DEF Units
<1> QED
  BY <1>1, <1>2, SMT DEF Utf16Decode

(* What the loop of str_to_utf16 has written when it reads q back.         *)
Telling(q, n) ==
  /\ Len(out) < n /\ \A k \in 1..Len(out) : out[k] = q[k]
  /\ \E st : Spells(utf8, q, n, st) /\ st[Len(out) + 1] = pos

(* Such a character is written where there is room for one unit.           *)
LEMMA UnitWritten ==
  ASSUME NEW cp \in Units, NEW room \in Nat
  PROVE  Utf16Encode(cp, room) = IF room >= 1 THEN <<cp>> ELSE <<>>
<1>1. cp \in Nat /\ cp < 65535
  BY DEF Units
<1> QED
  BY <1>1, Encode16Cases, SMT DEF Within

(* The next unit of q joins those already written.                         *)
LEMMA Follows ==
  ASSUME NEW o \in Seq(Units), NEW q, NEW x \in Units, x = q[Len(o) + 1],
         \A k \in 1..Len(o) : o[k] = q[k]
  PROVE  /\ Len(o \o <<x>>) = Len(o) + 1
         /\ \A k \in 1..(Len(o) + 1) : (o \o <<x>>)[k] = q[k]
OBVIOUS

(* A step of str_to_utf16 writes the next character of q.                  *)
LEMMA TellingStep ==
  ASSUME NEW q, NEW n, EndsAt(q, n), Telling(q, n),
         utf8 \in Seq(Byte), out \in Seq(Units), cap \in Nat, Len(out) <= cap
  PROVE  /\ ToUtf16 =>
              /\ Len(out') < n /\ \A k \in 1..Len(out') : out'[k] = q[k]
              /\ \E st : Spells(utf8', q, n, st) /\ st[Len(out') + 1] = pos'
         /\ ToUtf16Ends =>
              \/ Len(out') = n /\ \A k \in 1..n : out'[k] = q[k]
              \/ Len(out) = cap /\ result' = cap
         /\ ToUtf16Stops => Len(out) = cap /\ result' = cap
<1>0. PICK i : i = Len(out) + 1
  OBVIOUS
<1>1. /\ Len(out) \in Nat /\ i \in 1..n /\ n \in Nat /\ i \in Nat /\ Room = cap - Len(out)
      /\ Room \in Nat
  BY <1>0, LenProperties DEF Telling, EndsAt, Room
<1>2. PICK st : Spells(utf8, q, n, st) /\ st[i] = pos
  BY <1>0 DEF Telling
<1>3. q[i] \in Units /\ (q[i] = 0 <=> i = n)
  BY <1>1 DEF EndsAt
<1>4. /\ Utf8Decode(utf8, pos).cp = q[i] /\ Utf8Decode(utf8, pos).count = st[i + 1] - st[i]
      /\ st[i] \in Nat \ {0} /\ st[i + 1] \in Nat \ {0}
  <2>1. /\ Utf8Decode(utf8, st[i]) = [cp |-> q[i], count |-> st[i + 1] - st[i]]
        /\ st[i] \in Nat \ {0} /\ st[i + 1] \in Nat \ {0}
    BY <1>1, <1>2, <1>3, SpellsRead
  <2> QED
    BY <1>2, <2>1
<1>5. \A room \in Nat : Utf16Encode(q[i], room) = IF room >= 1 THEN <<q[i]>> ELSE <<>>
  BY <1>3, UnitWritten
<1>5a. RoomTold \in Nat /\ (RoomTold >= 1 <=> Room >= 1)
  BY <1>1, ToldRoom
<1>6. \A k \in 1..Len(out) : out[k] = q[k]
  BY DEF Telling
<1>7. /\ Len(out \o <<q[i]>>) = i
      /\ \A k \in 1..i : (out \o <<q[i]>>)[k] = q[k]
  BY <1>0, <1>3, <1>6, Follows
<1>8. ASSUME ToUtf16
      PROVE  /\ Len(out') < n /\ \A k \in 1..Len(out') : out'[k] = q[k]
             /\ \E t : Spells(utf8', q, n, t) /\ t[Len(out') + 1] = pos'
  <2>1. out' = out \o <<q[i]>> /\ q[i] # 0 /\ pos' = pos + (st[i + 1] - st[i]) /\ utf8' = utf8
    <3>1. /\ Utf16Encode(q[i], RoomTold) # <<>> /\ out' = out \o Utf16Encode(q[i], RoomTold)
          /\ q[i] # 0 /\ pos' = pos + (st[i + 1] - st[i]) /\ utf8' = utf8
      BY <1>4, <1>8 DEF ToUtf16
    <3> QED
      BY <1>1, <1>5, <1>5a, <3>1
  <2>2. i < n /\ pos' = st[i + 1]
    BY <1>1, <1>2, <1>3, <1>4, <2>1
  <2> QED
    BY <1>2, <1>7, <2>1, <2>2
<1>9. ASSUME ToUtf16Ends
      PROVE  \/ Len(out') = n /\ \A k \in 1..n : out'[k] = q[k]
             \/ Len(out) = cap /\ result' = cap
  <2>1. q[i] = 0 /\ out' = out \o Utf16Encode(0, RoomTold) /\ result' = Len(out)
    BY <1>4, <1>9 DEF ToUtf16Ends
  <2>2. CASE Room >= 1
    BY <1>1, <1>3, <1>5, <1>7, <1>5a, <2>1, <2>2
  <2>3. CASE ~ Room >= 1
    BY <1>1, <1>3, <1>5, <1>5a, <2>1, <2>3
  <2> QED
    BY <2>2, <2>3
<1>10. ASSUME ToUtf16Stops PROVE Len(out) = cap /\ result' = cap
  <2>1. Utf16Encode(q[i], RoomTold) = <<>> /\ result' = cap
    BY <1>4, <1>10 DEF ToUtf16Stops
  <2>2. ~ Room >= 1
    <3> SUFFICES ASSUME Room >= 1 PROVE FALSE
      OBVIOUS
    <3>1. Utf16Encode(q[i], RoomTold) = <<q[i]>>
      BY <1>1, <1>5, <1>5a
    <3> QED
      BY <2>1, <3>1, <<q[i]>> # <<>>
  <2> QED
    BY <1>1, <2>1, <2>2
<1> QED
  BY <1>8, <1>9, <1>10

(* Which calls a stage makes, and for what.                                *)
StageInv ==
  /\ stage \in {"new", "prefix", "backslashes", "strings"} => source = <<>>
  /\ stage \in {"new", "prefix", "backslashes", "back", "slashes", "opened"} => host # <<>>
  /\ stage = "convert" /\ host # <<>> => source = <<>> /\ pc \in {"encode", "done"}
  /\ stage \in {"back", "slashes", "opened"} => pc \in {"decode", "encode"}
  /\ stage \in {"slashes", "opened"} => pc = "encode"

LEMMA StageInit == Init => StageInv
<1> SUFFICES ASSUME Init PROVE StageInv
  OBVIOUS
<1>1. \A p \in Path : p # <<>>
  BY GuestPathAssumption
<1> QED
  BY <1>1 DEF Init, StageInv, UtfIdle, UtfInit

LEMMA StageStep == StageInv /\ [Next]_vars => StageInv'
<1> SUFFICES ASSUME StageInv, [Next]_vars PROVE StageInv'
  OBVIOUS
<1>1. CASE Decode
  <2>1. /\ stage \in {"convert", "back"} /\ stage' = stage /\ host' = host /\ source' = source
        /\ \/ pc = "decode" /\ pc' \in {"decode", "encode"}
           \/ pc = "counted"
    BY <1>1 DEF Decode, ToUtf8, ToUtf8Counted, CountedEnds
  <2> QED
    BY <2>1 DEF StageInv
<1>2. CASE Encode
  <2>1. /\ stage = "convert" /\ stage' = stage /\ host' = host /\ source' = source
        /\ pc' \in {"encode", "done"}
    BY <1>2 DEF Encode, BufferFull, ToUtf16Ends, ToUtf16, ToUtf16Stops, Terminate
  <2> QED
    BY <2>1 DEF StageInv
<1>3. CASE ReportNew
  BY <1>3 DEF StageInv, ReportNew, utfVars
<1>4. CASE ReportPrefix
  BY <1>4 DEF StageInv, ReportPrefix, utfVars
<1>5. CASE ReportBackslashes
  BY <1>5 DEF StageInv, ReportBackslashes
<1>6. CASE Reuse
  BY <1>6 DEF StageInv, Reuse
<1>7. CASE Strip
  BY <1>7 DEF StageInv, Strip, utfVars
<1>8. CASE Slashes
  BY <1>8 DEF StageInv, Slashes, utfVars
<1>9. CASE Strings \/ UNCHANGED vars
  BY <1>9 DEF StageInv, Strings, vars, utfVars
<1> QED
  BY <1>1, <1>2, <1>3, <1>4, <1>5, <1>6, <1>7, <1>8, <1>9 DEF Next

(* A conversion there and back that RoundTrip speaks of.                   *)
Whole ==
  /\ source # <<>> /\ stage = "convert"
  /\ asked \in {0, End(source)} /\ cap > End(source)
  /\ \A k \in DOMAIN source : source[k] # 65535

TripInv ==
  Whole =>
    /\ EndsAt(source, End(source)) /\ End(source) <= Len(source)
    /\ pc = "decode" => pos <= End(source) /\ SpelledOut(utf8, source, pos - 1)
    /\ pc = "counted" => asked = End(source) /\ SpelledOut(utf8, source, pos - 1)
    /\ pc = "encode" => Telling(source, End(source))
    /\ pc = "done" => Len(out) = End(source) /\ \A k \in 1..End(source) : out[k] = source[k]

LEMMA TripInit == Init => TripInv
<1> SUFFICES ASSUME Init, Whole PROVE TripInv
  BY DEF TripInv
<1>1. UtfInit
  BY DEF Init, Whole
<1>2. /\ source \in Guest /\ utf8 = <<>> /\ pos = 1 /\ pc \in {"decode", "counted"}
      /\ pc = "counted" => asked \in {End(source)} \cup Counts
  BY <1>1 DEF UtfInit, Unread, Whole
<1>3. source \in Seq(U16) /\ source # <<>> /\ source[Len(source)] = 0
  BY <1>2, UtfAssumption DEF Whole
<1>4. /\ End(source) \in 1..Len(source) /\ source[End(source)] = 0
      /\ \A j \in 1..(End(source) - 1) : source[j] # 0
  BY <1>3, EndOf
<1>5. ASSUME NEW i \in 1..End(source)
      PROVE  source[i] \in Units /\ (source[i] = 0 <=> i = End(source))
  <2>1. i \in 1..Len(source) /\ (i # End(source) => i \in 1..(End(source) - 1))
    BY <1>3, <1>4
  <2>2. source[i] \in U16 /\ source[i] # 65535
    BY <1>3, <2>1, ElementOfSeq DEF Whole
  <2>3. \A n \in U16 : n # 65535 => n \in Units
    BY U16Range DEF Units
  <2> QED
    BY <1>4, <2>1, <2>2, <2>3
<1>6. EndsAt(source, End(source))
  BY <1>3, <1>4, <1>5 DEF EndsAt
<1>7. pc = "counted" => asked = End(source)
  <2>1. \A n \in Counts : n # 0
    BY UtfAssumption
  <2> QED
    BY <1>2, <2>1 DEF Whole
<1>8. SpelledOut(utf8, source, pos - 1)
  BY <1>2, SpelledNothing
<1> QED
  BY <1>2, <1>3, <1>4, <1>6, <1>7, <1>8 DEF TripInv

(* A turn of utf16_to_str spells one more character.                       *)
LEMMA SpelledStep ==
  ASSUME NEW b \in Seq(Byte), NEW s, NEW n, NEW p \in Nat \ {0}, EndsAt(s, n), p <= n,
         SpelledOut(b, s, p - 1)
  PROVE  /\ Utf16Decode(s, p).cp = s[p] /\ Utf16Decode(s, p).count = 1
         /\ s[p] = 0 <=> p = n
         /\ SpelledOut(b \o Utf8Encode(s[p]), s, p)
<1>1. p - 1 \in Nat /\ (p - 1) + 1 = p /\ n \in Nat /\ p \in 1..n
  BY DEF EndsAt
<1>2. s[p] \in Units /\ (s[p] = 0 <=> p = n) /\ \A i \in 1..p : s[i] \in Units
  BY <1>1 DEF EndsAt
<1>3. Utf16Decode(s, p) = [cp |-> s[p], count |-> 1]
  BY <1>2, UnitRead
<1>4. PICK m \in Nat : m = p - 1
  BY <1>1
<1>5. m + 1 = p /\ SpelledOut(b, s, m) /\ \A i \in 1..(m + 1) : s[i] \in Units
  BY <1>1, <1>2, <1>4
<1>6. SpelledOut(b \o Utf8Encode(s[m + 1]), s, m + 1)
  BY <1>5, SpellsAppended
<1> QED
  BY <1>2, <1>3, <1>5, <1>6

(* The spelling of a text that is ended ends.                              *)
LEMMA SpelledEnd ==
  ASSUME NEW b \in Seq(Byte), NEW s, NEW n, EndsAt(s, n), SpelledOut(b, s, n)
  PROVE  /\ b # <<>> /\ b[Len(b)] = 0
         /\ \E st : Spells(b, s, n, st) /\ st[1] = 1
<1>1. n \in Nat /\ n \in 1..n /\ s[n] = 0
  BY DEF EndsAt
<1>2. PICK st : Spells(b, s, n, st) /\ st[n + 1] = Len(b) + 1
  BY DEF SpelledOut
<1>3. st[n + 1] = st[n] + 1 /\ Unit(b, st[n] + 1 - 1) = 0 /\ st[n] \in Nat \ {0} /\ st[1] = 1
  <2>1. st[n + 1] = st[n] + Len(Utf8Encode(0)) /\ Spelled(b, st[n], 0)
    BY <1>1, <1>2 DEF Spells
  <2>2. Len(Utf8Encode(0)) = 1 /\ Utf8Encode(0)[1] = 0
    BY ZeroSpelled
  <2>3. Unit(b, st[n] + 1 - 1) = 0
    BY <2>1, <2>2 DEF Spelled
  <2>4. st[n] \in Nat \ {0} /\ st[1] = 1
    BY <1>1, <1>2 DEF Spells
  <2> QED
    BY <2>1, <2>2, <2>3, <2>4
<1>4. st[n] = Len(b) /\ st[n] + 1 - 1 = Len(b) /\ Len(b) \in 1..Len(b) /\ DOMAIN b = 1..Len(b)
  BY <1>2, <1>3, LenProperties
<1>5. b # <<>> /\ b[Len(b)] = 0
  BY <1>3, <1>4, EmptySeq DEF Unit
<1> QED
  BY <1>2, <1>3, <1>5

(* utf16_to_str and utf16_to_str_with_len spell out the source.            *)
LEMMA DecodeTrips == GuestInv /\ TripInv /\ Whole /\ Decode => TripInv'
<1> SUFFICES ASSUME GuestInv, TripInv, Whole, Decode PROVE TripInv'
  OBVIOUS
<1>1. PICK s, n : s = source /\ n = End(source)
  OBVIOUS
<1>2. /\ source' = source /\ asked' = asked /\ cap' = cap /\ out' = out /\ stage' = stage
      /\ pc \in {"decode", "counted"} /\ Whole' = Whole /\ End(source)' = End(source)
      /\ ToUtf8 \/ ToUtf8Counted \/ CountedEnds
  BY DEF Decode, ToUtf8, ToUtf8Counted, CountedEnds, Whole
<1>3. /\ EndsAt(s, n) /\ n <= Len(source) /\ n \in 1..Len(source) /\ Len(source) \in Nat
      /\ SpelledOut(utf8, s, pos - 1) /\ (pc = "decode" => pos <= n)
      /\ (pc = "counted" => asked = n)
  <2>1. EndsAt(s, n) /\ n <= Len(source) /\ SpelledOut(utf8, s, pos - 1)
        /\ (pc = "decode" => pos <= n) /\ (pc = "counted" => asked = n)
    BY <1>1, <1>2 DEF TripInv
  <2>2. Len(source) \in Nat /\ n \in Nat \ {0}
    BY <2>1, LenProperties DEF GuestInv, ConvertInv, Kinds, EndsAt
  <2> QED
    BY <2>1, <2>2
<1>4. /\ utf8 \in Seq(Byte) /\ pos \in Nat \ {0} /\ left \in Nat /\ asked \in Nat /\ out = <<>>
  BY <1>2 DEF GuestInv, ConvertInv, Kinds, Whole
<1>5. pc = "counted" => left <= asked /\ pos = asked - left + 1
  <2> SUFFICES ASSUME pc = "counted" PROVE left <= asked /\ pos = asked - left + 1
    OBVIOUS
  <2>1. /\ asked <= Len(source) /\ left <= asked
        /\ pos = asked - left + 1 \/ \E k \in 1..asked : source[k] = 65535
    BY DEF GuestInv, ConvertInv, CountedInv
  <2>2. \A k \in 1..asked : source[k] # 65535
    <3>1. DOMAIN source = 1..Len(source)
      BY LenProperties DEF GuestInv, ConvertInv, Kinds
    <3>2. \A k \in 1..asked : k \in DOMAIN source
      BY <1>3, <1>4, <2>1, <3>1
    <3> QED
      BY <3>2 DEF Whole
  <2> QED
    BY <2>1, <2>2
<1>6. ASSUME pos <= n
      PROVE  /\ Utf16Decode(s, pos).cp = s[pos] /\ Utf16Decode(s, pos).count = 1
             /\ s[pos] = 0 <=> pos = n
             /\ SpelledOut(utf8 \o Utf8Encode(s[pos]), s, pos)
  BY <1>3, <1>4, <1>6, SpelledStep
<1>7. ASSUME SpelledOut(utf8', s, n), utf8' \in Seq(Byte), pos' = 1
      PROVE  /\ utf8' # <<>> /\ utf8'[Len(utf8')] = 0
             /\ Telling(source, End(source))'
  <2>1. /\ utf8' # <<>> /\ utf8'[Len(utf8')] = 0
        /\ \E st : Spells(utf8', s, n, st) /\ st[1] = 1
    BY <1>3, <1>7, SpelledEnd
  <2>2. Len(out') = 0 /\ source' = s /\ End(source)' = n
    BY <1>1, <1>2, <1>4
  <2> QED
    BY <1>3, <1>7, <2>1, <2>2 DEF Telling
<1>8. \A i \in 1..n : Utf8Encode(s[i]) \in Seq(Byte)
  BY <1>3, Spelling DEF EndsAt
<1>9. CASE ToUtf8
  <2>1. pos <= n /\ pos \in 1..n /\ pc = "decode"
    BY <1>3, <1>4, <1>9 DEF ToUtf8
  <2>2. CASE pos = n
    <3>1. Utf16Decode(source, pos).cp = 0 /\ s[pos] = 0
      BY <1>1, <1>6, <2>1, <2>2
    <3>2. pc' = "encode" /\ utf8' = Append(utf8, 0) /\ pos' = 1
      BY <1>9, <3>1 DEF ToUtf8
    <3>3. utf8' = utf8 \o Utf8Encode(s[pos])
      <4>1. 0 \in Byte /\ utf8 \o <<0>> = Append(utf8, 0)
        BY <1>4, AppendIsConcat DEF Byte
      <4> QED
        BY <3>1, <3>2, <4>1, ZeroSpelled
    <3>4. SpelledOut(utf8', s, n) /\ utf8' \in Seq(Byte)
      BY <1>4, <1>6, <1>8, <2>1, <2>2, <3>3, ConcatProperties
    <3>5. Telling(source, End(source))'
      BY <1>7, <3>2, <3>4
    <3> QED
      BY <1>1, <1>2, <1>3, <3>2, <3>5 DEF TripInv
  <2>3. CASE pos # n
    <3>1. Utf16Decode(source, pos).cp = s[pos] /\ s[pos] # 0 /\ Utf16Decode(source, pos).count = 1
      BY <1>1, <1>6, <2>1, <2>3
    <3>2. pc' = "decode" /\ utf8' = utf8 \o Utf8Encode(s[pos]) /\ pos' = pos + 1
      BY <1>9, <2>1, <3>1 DEF ToUtf8
    <3>3. pos' <= n /\ pos' - 1 = pos
      BY <1>3, <1>4, <2>1, <2>3, <3>2
    <3>4. SpelledOut(utf8', s, pos' - 1)
      BY <1>6, <2>1, <3>2, <3>3
    <3> QED
      BY <1>1, <1>2, <1>3, <3>2, <3>3, <3>4 DEF TripInv
  <2> QED
    BY <2>2, <2>3
<1>10. CASE ToUtf8Counted
  <2>1. pc = "counted" /\ pc' = pc /\ left > 0
    BY <1>10 DEF ToUtf8Counted
  <2>2. pos <= n
    BY <1>3, <1>4, <1>5, <2>1
  <2>3. Utf16Decode(source, pos).cp = s[pos] /\ Utf16Decode(source, pos).count = 1
    BY <1>1, <1>6, <2>2
  <2>4. utf8' = utf8 \o Utf8Encode(s[pos]) /\ pos' = pos + 1
    BY <1>10, <2>3 DEF ToUtf8Counted
  <2>5. pos' - 1 = pos
    BY <1>4, <2>4
  <2>6. SpelledOut(utf8', s, pos' - 1)
    BY <1>6, <2>2, <2>4, <2>5
  <2> QED
    BY <1>1, <1>2, <1>3, <2>1, <2>6 DEF TripInv
<1>11. CASE CountedEnds
  <2>1. /\ pc = "counted"
        /\ left = 0 \/ pos > Len(source)
        /\ utf8' = utf8
        /\ utf8 # <<>> /\ utf8[Len(utf8)] = 0 => pc' = "encode" /\ pos' = 1
    BY <1>11 DEF CountedEnds
  <2>2. pos = n + 1 /\ pos - 1 = n
    BY <1>3, <1>4, <1>5, <2>1
  <2>3. utf8 # <<>> /\ utf8[Len(utf8)] = 0
    BY <1>3, <1>4, <2>2, SpelledEnd
  <2>4. Telling(source, End(source))'
    BY <1>3, <1>4, <1>7, <2>1, <2>2, <2>3
  <2> QED
    BY <1>1, <1>2, <1>3, <2>1, <2>3, <2>4 DEF TripInv
<1> QED
  BY <1>2, <1>9, <1>10, <1>11

(* str_to_utf16 tells what was spelled out.                                *)
LEMMA EncodeTrips == GuestInv /\ TripInv /\ Whole /\ Encode => TripInv'
<1> SUFFICES ASSUME GuestInv, TripInv, Whole, Encode PROVE TripInv'
  OBVIOUS
<1>1. PICK s, n : s = source /\ n = End(source)
  OBVIOUS
<1>2. /\ source' = source /\ asked' = asked /\ cap' = cap /\ stage' = stage
      /\ pc = "encode" /\ Whole' = Whole /\ End(source)' = End(source)
      /\ BufferFull \/ ToUtf16Ends \/ ToUtf16 \/ ToUtf16Stops
  BY DEF Encode, BufferFull, ToUtf16Ends, ToUtf16, ToUtf16Stops, Terminate, Whole
<1>3. /\ EndsAt(s, n) /\ n <= Len(source) /\ Telling(s, n) /\ Len(out) < n /\ cap > n /\ n \in Nat
  <2>1. EndsAt(s, n) /\ n <= Len(source) /\ Telling(s, n)
    BY <1>1, <1>2 DEF TripInv
  <2> QED
    BY <1>1, <2>1 DEF Whole, Telling, EndsAt
<1>4. utf8 \in Seq(Byte) /\ out \in Seq(Units) /\ cap \in Nat /\ Len(out) \in Nat
  BY LenProperties DEF GuestInv, ConvertInv, Kinds
<1>5. Len(out) <= cap /\ Len(out) # cap /\ Room # 1
  BY <1>3, <1>4 DEF Room
<1>6. /\ ToUtf16 =>
           /\ Len(out') < n /\ \A k \in 1..Len(out') : out'[k] = s[k]
           /\ \E st : Spells(utf8', s, n, st) /\ st[Len(out') + 1] = pos'
      /\ ToUtf16Ends =>
           \/ Len(out') = n /\ \A k \in 1..n : out'[k] = s[k]
           \/ Len(out) = cap /\ result' = cap
      /\ ToUtf16Stops => Len(out) = cap /\ result' = cap
  BY <1>3, <1>4, <1>5, TellingStep
<1>7. CASE ToUtf16
  <2>1. pc' = "encode" /\ source' = s /\ End(source)' = n
    BY <1>1, <1>2, <1>7 DEF ToUtf16
  <2>2. Telling(source, End(source))'
    BY <1>6, <1>7, <2>1 DEF Telling
  <2> QED
    BY <1>1, <1>2, <1>3, <2>1, <2>2 DEF TripInv
<1>8. CASE ToUtf16Ends
  <2>1. pc' = "done"
    BY <1>8 DEF ToUtf16Ends
  <2>2. Len(out') = n /\ \A k \in 1..n : out'[k] = s[k]
    BY <1>5, <1>6, <1>8
  <2> QED
    BY <1>1, <1>2, <1>3, <2>1, <2>2 DEF TripInv
<1>9. ~ BufferFull /\ ~ ToUtf16Stops
  BY <1>5, <1>6 DEF BufferFull, LastUnit
<1> QED
  BY <1>2, <1>7, <1>8, <1>9

(* The trip from a guest's text and back is kept by every step.            *)
LEMMA TripStep == GuestInv /\ StageInv /\ TripInv /\ [Next]_vars => TripInv'
<1> SUFFICES ASSUME GuestInv, StageInv, TripInv, [Next]_vars, Whole' PROVE TripInv'
  BY DEF TripInv
<1>1. CASE Decode
  <2>1. Whole
    BY <1>1 DEF Decode, ToUtf8, ToUtf8Counted, CountedEnds, Whole
  <2> QED
    BY <1>1, <2>1, DecodeTrips
<1>2. CASE Encode
  <2>1. Whole
    BY <1>2 DEF Encode, BufferFull, ToUtf16Ends, ToUtf16, ToUtf16Stops, Terminate, Whole
  <2> QED
    BY <1>2, <2>1, EncodeTrips
<1>3. CASE UNCHANGED vars
  BY <1>3 DEF vars, utfVars, TripInv, Whole, Telling
<1>4. CASE ReportNew \/ ReportPrefix \/ ReportBackslashes \/ Reuse \/ Strip \/ Slashes \/ Strings
  <2>1. source' = <<>> \/ stage' # "convert"
    BY <1>4 DEF StageInv, ReportNew, ReportPrefix, ReportBackslashes, Reuse, Strip, Slashes,
      Strings, utfVars
  <2> QED
    BY <2>1 DEF Whole
<1> QED
  BY <1>1, <1>2, <1>3, <1>4 DEF Next

(* At the end of the trip the text is what it was.                         *)
LEMMA TripHolds == GuestInv /\ StageInv /\ TripInv => RoundTrip
<1> SUFFICES ASSUME GuestInv, StageInv, TripInv, pc = "done", source # <<>>,
                    asked \in {0, End(source)}, cap > End(source),
                    \A k \in DOMAIN source : source[k] # 65535
             PROVE  out = Text(source)
  BY DEF RoundTrip
<1>1. stage = "convert"
  BY DEF StageInv, GuestInv, ConvertInv, Kinds
<1>2. /\ End(source) \in Nat /\ End(source) <= Len(source)
      /\ Len(out) = End(source) /\ \A k \in 1..End(source) : out[k] = source[k]
  BY <1>1 DEF TripInv, Whole, EndsAt
<1>3. out \in Seq(Units) /\ source \in Seq(U16) /\ Len(source) \in Nat
  BY LenProperties DEF GuestInv, ConvertInv, Kinds
<1> QED
  BY <1>2, <1>3 DEF Text
-----------------------------------------------------------------------------
(* Where the characters of a text start is said by a recursion, which      *)
(* exists.                                                                 *)
NextStart(f, s, n) == IF n = 1 THEN 1 ELSE f[n - 1] + Utf8Decode(s, f[n - 1]).count

IsStart(f, s, l) == f = [n \in 1..l |-> NextStart(f, s, n)]

LEMMA StartExists ==
  ASSUME NEW s, NEW l \in Nat
  PROVE  \E f : IsStart(f, s, l)
<1> DEFINE S == {k \in Nat : \E f : IsStart(f, s, k)}
<1>1. 0 \in S
  <2> DEFINE f == [n \in 1..0 |-> 1]
  <2>1. IsStart(f, s, 0)
    BY DEF IsStart
  <2> HIDE DEF f
  <2> QED
    BY <2>1
<1>2. ASSUME NEW k \in Nat, k \in S
      PROVE  k + 1 \in S
  <2>1. PICK f : IsStart(f, s, k)
    BY <1>2
  <2> DEFINE g == [n \in 1..(k + 1) |-> IF n = k + 1 THEN NextStart(f, s, n) ELSE f[n]]
  <2>2. \A n \in 1..k : f[n] = NextStart(f, s, n)
    BY <2>1 DEF IsStart
  <2>3. \A n \in 1..(k + 1) : n # 1 => g[n - 1] = f[n - 1]
    OBVIOUS
  <2>4. \A n \in 1..(k + 1) : NextStart(g, s, n) = NextStart(f, s, n)
    BY <2>3 DEF NextStart
  <2>5. ASSUME NEW n \in 1..(k + 1)
        PROVE  g[n] = NextStart(g, s, n)
    <3>1. n # k + 1 => n \in 1..k
      OBVIOUS
    <3>2. g[n] = NextStart(f, s, n)
      BY <2>2, <3>1
    <3> QED
      BY <2>4, <3>2
  <2>6. g = [n \in 1..(k + 1) |-> g[n]]
    OBVIOUS
  <2>7. IsStart(g, s, k + 1)
    <3> HIDE DEF g
    <3> QED
      BY <2>5, <2>6 DEF IsStart
  <2> HIDE DEF g
  <2> QED
    BY <2>7
<1>3. Nat \subseteq S
  <2> HIDE DEF S
  <2> QED
    BY <1>1, <1>2, Induction
<1> QED
  BY <1>3

LEMMA StartUnfolds ==
  ASSUME NEW s \in Seq(Byte), s # <<>>
  PROVE  /\ Start(s)[1] = 1
         /\ \A n \in 2..Len(s) :
              Start(s)[n] = Start(s)[n - 1] + Utf8Decode(s, Start(s)[n - 1]).count
<1>1. Len(s) \in Nat /\ Len(s) >= 1
  BY EmptySeq, LenProperties
<1> DEFINE u == CHOOSE f : IsStart(f, s, Len(s))
<1>2. Start(s) = u
  BY DEF Start, IsStart, NextStart
<1>3. IsStart(u, s, Len(s))
  BY <1>1, StartExists
<1> HIDE DEF u
<1>4. \A n \in 1..Len(s) : u[n] = NextStart(u, s, n)
  BY <1>3 DEF IsStart
<1> QED
  BY <1>1, <1>2, <1>4 DEF NextStart

(* A sound path: its characters can be told and read back.                 *)
Plain(cp) == cp \in Units /\ cp # 0 /\ cp # Backslash

LEMMA PlainBytes ==
  ASSUME NEW cp, Plain(cp)
  PROVE  /\ Utf8Encode(cp) \in Seq(Byte) /\ Len(Utf8Encode(cp)) \in 1..3
         /\ \A j \in 1..Len(Utf8Encode(cp)) :
              Utf8Encode(cp)[j] # 0 /\ Utf8Encode(cp)[j] # Backslash
<1>1. cp \in Units /\ cp # 0 /\ cp # 92 /\ Backslash = 92
  BY DEF Plain, Backslash
<1>2. PICK u : u = Utf8Encode(cp)
  OBVIOUS
<1>3. /\ u \in Seq(Byte) /\ Len(u) \in 1..3
      /\ u = <<cp>> \/ \A j \in 1..Len(u) : u[j] >= 128
  BY <1>1, <1>2, Spelling
<1>4. ASSUME NEW j \in 1..Len(u) PROVE u[j] # 0 /\ u[j] # 92
  <2>1. CASE u = <<cp>>
    BY <1>1, <2>1
  <2>2. CASE \A i \in 1..Len(u) : u[i] >= 128
    BY <2>2
  <2> QED
    BY <1>3, <2>1, <2>2
<1> QED
  BY <1>1, <1>2, <1>3, <1>4

(* The first n characters of a sound text.                                 *)
Begins(s, p, n, st) ==
  /\ p \in Seq(Units) /\ Len(p) = n /\ \A i \in 1..n : Plain(p[i])
  /\ Spells(s, p, n, st)
  /\ \A k \in 1..Len(s) : k < st[n + 1] => s[k] # Backslash

LEMMA PointsPlain ==
  ASSUME NEW s, Sound(s), NEW k \in Starts(s)
  PROVE  /\ Plain(Utf8Decode(s, k).cp)
         /\ Utf8Decode(s, k).count = Len(Utf8Encode(Utf8Decode(s, k).cp))
         /\ Spelled(s, k, Utf8Decode(s, k).cp)
<1>1. Utf8Decode(s, k).cp \in Tellable
  BY DEF Sound, Points
<1>2. \A n \in Tellable : n \in Units /\ n # 0 /\ n # Backslash
  <2>1. PICK b : b = 2^16 - 2
    OBVIOUS
  <2>2. b = 65534
    BY <2>1
  <2>3. b \in Nat /\ b < 65535
    BY <2>2
  <2>4. \A n \in 1..b : n \in Nat /\ n < 65535 /\ n # 0
    BY <2>3
  <2>5. Tellable = (1..b) \ {Backslash}
    BY <2>1 DEF Tellable
  <2> QED
    BY <2>4, <2>5 DEF Units
<1>3. Plain(Utf8Decode(s, k).cp)
  BY <1>1, <1>2 DEF Plain
<1>4. DOMAIN Utf8Encode(Utf8Decode(s, k).cp) = 1..Len(Utf8Encode(Utf8Decode(s, k).cp))
  BY <1>3, PlainBytes, LenProperties
<1>5. /\ Len(Utf8Encode(Utf8Decode(s, k).cp)) = Utf8Decode(s, k).count
      /\ \A j \in DOMAIN Utf8Encode(Utf8Decode(s, k).cp) :
           Unit(s, k + j - 1) = Utf8Encode(Utf8Decode(s, k).cp)[j]
  BY Zenon DEF Sound, SpelledWell
<1> QED
  BY <1>3, <1>4, <1>5 DEF Spelled

(* The character at the end of the first n makes them n + 1.               *)
LEMMA BeginsMore ==
  ASSUME NEW s \in Seq(Byte), Sound(s), NEW n \in Nat, NEW p, NEW st, Begins(s, p, n, st),
         NEW k, k = st[n + 1], k \in Starts(s)
  PROVE  \E p2, t : /\ Begins(s, p2, n + 1, t)
                    /\ t[n + 2] = k + Utf8Decode(s, k).count
                    /\ k < t[n + 2] /\ t[n + 2] <= Len(s) + 1
<1>1. PICK cp, c : cp = Utf8Decode(s, k).cp /\ c = Utf8Decode(s, k).count
  OBVIOUS
<1>2. Plain(cp) /\ c = Len(Utf8Encode(cp)) /\ Spelled(s, k, cp) /\ cp \in Units
  BY <1>1, PointsPlain DEF Plain
<1>3. /\ Utf8Encode(cp) \in Seq(Byte) /\ c \in 1..3
      /\ \A j \in 1..c : Utf8Encode(cp)[j] # 0 /\ Utf8Encode(cp)[j] # Backslash
  BY <1>2, PlainBytes
<1>4. k \in 1..Len(s) /\ DOMAIN s = 1..Len(s) /\ Len(s) \in Nat
  BY LenProperties DEF Starts
<1> DEFINE p2 == Append(p, cp)
<1>5. /\ p2 \in Seq(Units) /\ Len(p2) = n + 1 /\ p2[n + 1] = cp /\ \A i \in 1..n : p2[i] = p[i]
  BY <1>2, AppendProperties DEF Begins
<1> HIDE DEF p2
<1>6. Continues(s, s, p, p2, n, st)
  <2>1. \A i \in 1..n : p[i] \in Units
    BY ElementOfSeq DEF Begins
  <2> QED
    BY <1>2, <1>5, <2>1 DEF Begins, Continues
<1>7. PICK t : /\ Spells(s, p2, n + 1, t)
               /\ t[n + 1] = st[n + 1]
               /\ t[n + 2] = st[n + 1] + Len(Utf8Encode(p2[n + 1]))
  BY <1>6, SpellsGrows
<1>8. t[n + 2] = k + c /\ (n + 1) + 1 = n + 2
  BY <1>2, <1>5, <1>7
<1>9. ASSUME NEW j \in 1..c PROVE Unit(s, k + j - 1) = Utf8Encode(cp)[j]
  BY <1>2 DEF Spelled
<1>10. k + c <= Len(s) + 1
  <2>1. Unit(s, k + c - 1) # 0
    <3>1. c \in 1..c
      BY <1>3
    <3>2. Unit(s, k + c - 1) = Utf8Encode(cp)[c] /\ Utf8Encode(cp)[c] # 0
      BY <1>3, <1>9, <3>1
    <3> QED
      BY <3>2
  <2>2. k + c - 1 \in 1..Len(s)
    BY <1>4, <2>1 DEF Unit
  <2> QED
    BY <1>3, <1>4, <2>2
<1>11. ASSUME NEW i \in 1..Len(s), i < t[n + 2] PROVE s[i] # Backslash
  <2>1. CASE i < k
    BY <2>1 DEF Begins
  <2>2. CASE ~ i < k
    <3>1. PICK j \in 1..c : i = k + j - 1
      <4>1. i - k + 1 \in 1..c /\ i = k + (i - k + 1) - 1
        BY <1>3, <1>4, <1>8, <1>11, <2>2
      <4> QED
        BY <4>1
    <3>2. Unit(s, i) = Utf8Encode(cp)[j]
      BY <1>9, <3>1
    <3> QED
      BY <1>3, <1>4, <3>2 DEF Unit
  <2> QED
    BY <1>4, <2>1, <2>2
<1>12. \A i \in 1..(n + 1) : Plain(p2[i])
  <2>1. \A i \in 1..(n + 1) : i = n + 1 \/ i \in 1..n
    OBVIOUS
  <2> QED
    BY <1>2, <1>5, <2>1 DEF Begins
<1>13. Begins(s, p2, n + 1, t)
  BY <1>5, <1>7, <1>8, <1>11, <1>12 DEF Begins
<1>14. t[n + 2] = k + Utf8Decode(s, k).count /\ k < t[n + 2] /\ t[n + 2] <= Len(s) + 1
  BY <1>1, <1>3, <1>4, <1>8, <1>10
<1> QED
  BY <1>13, <1>14

(* s is the spelling of the plain characters p.                            *)
Comprises(s, p) ==
  \E st : Begins(s, p, Len(p), st) /\ st[Len(p) + 1] = Len(s) + 1

(* A sound text is the spelling of its characters.                         *)
LEMMA Characters ==
  ASSUME NEW s \in Seq(Byte), s # <<>>, Sound(s)
  PROVE  \E p : Comprises(s, p)
<1> DEFINE At(n, p, st) == /\ Begins(s, p, n, st) /\ st[n + 1] = Start(s)[n + 1]
                           /\ n + 1 <= st[n + 1] /\ st[n + 1] <= Len(s)
           S == {n \in Nat : (\E p, st : At(n, p, st)) \/ \E p : Comprises(s, p)}
<1>1. Len(s) \in Nat /\ Len(s) >= 1 /\ DOMAIN s = 1..Len(s) /\ Start(s)[1] = 1
  BY EmptySeq, LenProperties, StartUnfolds
<1>2. 0 \in S
  <2>1. PICK st : Spells(s, <<>>, 0, st) /\ st[1] = 1
    BY SpellsNone
  <2>2. Begins(s, <<>>, 0, st)
    BY <2>1, EmptySeq DEF Begins
  <2>3. At(0, <<>>, st)
    BY <1>1, <2>1, <2>2
  <2> QED
    BY <2>3
<1>3. ASSUME NEW n \in Nat, n \in S PROVE n + 1 \in S
  <2> SUFFICES ASSUME NEW p, NEW st, At(n, p, st) PROVE n + 1 \in S
    BY <1>3
  <2>1. PICK k : k = st[n + 1]
    OBVIOUS
  <2>2. k \in Nat \ {0} /\ k = Start(s)[n + 1] /\ n + 1 <= k /\ k <= Len(s)
    <3>1. st[n + 1] \in Nat \ {0}
      BY DEF Begins, Spells
    <3> QED
      BY <2>1, <3>1
  <2>3. k \in Starts(s)
    BY <1>1, <2>2 DEF Starts
  <2>4. PICK p2, t : /\ Begins(s, p2, n + 1, t)
                     /\ t[n + 2] = k + Utf8Decode(s, k).count
                     /\ k < t[n + 2] /\ t[n + 2] <= Len(s) + 1
    BY <2>1, <2>3, BeginsMore
  <2>5. (n + 1) + 1 = n + 2 /\ t[n + 2] \in Nat
    BY <2>4 DEF Begins, Spells
  <2>6. CASE t[n + 2] = Len(s) + 1
    <3>1. Len(p2) = n + 1
      BY <2>4 DEF Begins
    <3>2. Comprises(s, p2)
      BY <2>4, <2>5, <2>6, <3>1 DEF Comprises
    <3> QED
      BY <3>2
  <2>7. CASE t[n + 2] # Len(s) + 1
    <3>1. n + 2 <= t[n + 2] /\ t[n + 2] <= Len(s) /\ n + 2 \in 2..Len(s)
      BY <1>1, <2>2, <2>4, <2>5, <2>7
    <3>2. Start(s)[n + 2] = Start(s)[n + 1] + Utf8Decode(s, Start(s)[n + 1]).count
      <4>1. (n + 2) - 1 = n + 1
        OBVIOUS
      <4> QED
        BY <1>1, <3>1, <4>1, StartUnfolds
    <3>3. At(n + 1, p2, t)
      BY <2>2, <2>4, <2>5, <3>1, <3>2
    <3> HIDE DEF At
    <3> QED
      BY <3>3
  <2> QED
    BY <2>6, <2>7
<1>4. Nat \subseteq S
  <2> HIDE DEF S
  <2> QED
    BY <1>2, <1>3, Induction
<1>5. ASSUME NEW p, NEW st, At(Len(s), p, st) PROVE FALSE
  <2>1. st[Len(s) + 1] \in Nat
    <3>1. Spells(s, p, Len(s), st) /\ Len(s) + 1 \in 1..(Len(s) + 1)
      BY <1>1, <1>5 DEF Begins
    <3> HIDE DEF At
    <3> QED
      BY <1>1, <3>1 DEF Spells
  <2> QED
    BY <1>1, <1>5, <2>1
<1> HIDE DEF At
<1> QED
  BY <1>1, <1>4, <1>5

(* What is spelled out depends on the characters alone.                    *)
LEMMA SpelledSame ==
  ASSUME NEW b, NEW s, NEW s2, NEW m \in Nat, SpelledOut(b, s, m), \A i \in 1..m : s2[i] = s[i]
  PROVE  SpelledOut(b, s2, m)
BY DEF SpelledOut, Spells

(* A text has one spelling.                                                *)
LEMMA OneSpelling ==
  ASSUME NEW a \in Seq(Byte), NEW b \in Seq(Byte), NEW s, NEW m \in Nat,
         \A i \in 1..m : s[i] \in Units, SpelledOut(a, s, m), SpelledOut(b, s, m)
  PROVE  a = b
<1>1. PICK st : Spells(a, s, m, st) /\ st[m + 1] = Len(a) + 1
  BY DEF SpelledOut
<1>2. PICK t : Spells(b, s, m, t) /\ t[m + 1] = Len(b) + 1
  BY DEF SpelledOut
<1> DEFINE S == {n \in Nat : n <= m => /\ st[n + 1] = t[n + 1]
                                       /\ \A k \in Nat \ {0} : k < st[n + 1] => Unit(a, k) = Unit(b, k)}
<1>3. 0 \in S
  BY <1>1, <1>2 DEF Spells
<1>4. ASSUME NEW n \in Nat, n \in S PROVE n + 1 \in S
  <2> SUFFICES ASSUME n + 1 <= m
               PROVE  /\ st[(n + 1) + 1] = t[(n + 1) + 1]
                      /\ \A k \in Nat \ {0} : k < st[(n + 1) + 1] => Unit(a, k) = Unit(b, k)
    OBVIOUS
  <2>1. /\ st[n + 1] = t[n + 1]
        /\ \A k \in Nat \ {0} : k < st[n + 1] => Unit(a, k) = Unit(b, k)
    BY <1>4
  <2>2. PICK i \in 1..m : i = n + 1
    OBVIOUS
  <2>3. PICK l : l = Len(Utf8Encode(s[i]))
    OBVIOUS
  <2>4. l \in 1..3 /\ st[i] \in Nat \ {0}
    <3>1. s[i] \in Units /\ i \in 1..(m + 1)
      OBVIOUS
    <3> QED
      BY <1>1, <2>3, <3>1, Spelling DEF Spells
  <2>5. st[i + 1] = st[i] + l /\ t[i + 1] = t[i] + l /\ Spelled(a, st[i], s[i]) /\ Spelled(b, t[i], s[i])
    BY <1>1, <1>2, <2>3 DEF Spells
  <2>6. ASSUME NEW k \in Nat \ {0}, k < st[i + 1] PROVE Unit(a, k) = Unit(b, k)
    <3>1. CASE k < st[i]
      BY <2>1, <2>2, <3>1
    <3>2. CASE ~ k < st[i]
      <4>1. PICK j \in 1..l : k = st[i] + j - 1
        <5>1. k - st[i] + 1 \in 1..l /\ k = st[i] + (k - st[i] + 1) - 1
          BY <2>4, <2>5, <2>6, <3>2
        <5> QED
          BY <5>1
      <4>2. Unit(a, k) = Utf8Encode(s[i])[j] /\ Unit(b, k) = Utf8Encode(s[i])[j]
        BY <2>1, <2>2, <2>3, <2>5, <4>1 DEF Spelled
      <4> QED
        BY <4>2
    <3> QED
      BY <3>1, <3>2
  <2> QED
    BY <2>1, <2>2, <2>5, <2>6
<1>5. Nat \subseteq S
  <2> HIDE DEF S
  <2> QED
    BY <1>3, <1>4, Induction
<1>6. /\ st[m + 1] = t[m + 1]
      /\ \A k \in Nat \ {0} : k < st[m + 1] => Unit(a, k) = Unit(b, k)
  BY <1>5
<1>7. Len(a) = Len(b) /\ Len(a) \in Nat /\ DOMAIN a = 1..Len(a) /\ DOMAIN b = 1..Len(b)
  BY <1>1, <1>2, <1>6, LenProperties
<1>8. ASSUME NEW k \in 1..Len(a) PROVE a[k] = b[k]
  BY <1>1, <1>6, <1>7 DEF Unit
<1> QED
  BY <1>7, <1>8, SeqEqual

LEMMA AsciiSpelled ==
  ASSUME NEW s \in Seq(Units), \A i \in 1..Len(s) : s[i] <= 127
  PROVE  SpelledOut(s, s, Len(s))
<1> DEFINE st == [i \in 1..(Len(s) + 1) |-> i]
<1>1. Len(s) \in Nat /\ DOMAIN s = 1..Len(s) /\ \A i \in 1..Len(s) : s[i] \in Units
  BY LenProperties, ElementOfSeq
<1>2. ASSUME NEW i \in 1..Len(s) PROVE Utf8Encode(s[i]) = <<s[i]>>
  <2>1. s[i] \in Units /\ s[i] <= 127
    BY <1>1
  <2>2. \A n \in Units : n \in Nat
    BY DEF Units
  <2> QED
    BY <2>1, <2>2, Spelling
<1>3. ASSUME NEW i \in 1..Len(s)
      PROVE  /\ st[i + 1] = st[i] + Len(Utf8Encode(s[i])) /\ st[i + 1] <= st[Len(s) + 1]
             /\ Spelled(s, st[i], s[i])
  <2>1. Utf8Encode(s[i]) = <<s[i]>> /\ Len(<<s[i]>>) = 1 /\ st[i] = i /\ st[i + 1] = i + 1
        /\ st[Len(s) + 1] = Len(s) + 1
    BY <1>1, <1>2
  <2>2. Unit(s, i + 1 - 1) = s[i]
    BY <1>1 DEF Unit
  <2> HIDE DEF st
  <2> QED
    BY <1>1, <2>1, <2>2 DEF Spelled
<1>4. st \in [1..(Len(s) + 1) -> Nat \ {0}] /\ st[1] = 1 /\ st[Len(s) + 1] = Len(s) + 1
  BY <1>1
<1> HIDE DEF st
<1>5. Spells(s, s, Len(s), st)
  BY <1>3, <1>4 DEF Spells
<1> QED
  BY <1>4, <1>5 DEF SpelledOut

(* Texts are joined as their spellings are.                                *)
LEMMA JoinedSpelled ==
  ASSUME NEW a \in Seq(Byte), NEW b \in Seq(Byte), NEW p \in Seq(Units), NEW q \in Seq(Units),
         SpelledOut(a, p, Len(p)), SpelledOut(b, q, Len(q))
  PROVE  SpelledOut(a \o b, p \o q, Len(p \o q))
<1>1. PICK m, n : m = Len(p) /\ n = Len(q) /\ m \in Nat /\ n \in Nat
  BY LenProperties
<1>2. PICK la, lb : la = Len(a) /\ lb = Len(b) /\ la \in Nat /\ lb \in Nat
  BY LenProperties
<1>3. PICK u : Spells(a, p, m, u) /\ u[m + 1] = la + 1
  BY <1>1, <1>2 DEF SpelledOut
<1>4. PICK v : Spells(b, q, n, v) /\ v[n + 1] = lb + 1
  BY <1>1, <1>2 DEF SpelledOut
<1>5. PICK c, r : /\ c = a \o b /\ r = p \o q /\ Len(c) = la + lb /\ Len(r) = m + n
                  /\ DOMAIN c = 1..(la + lb) /\ DOMAIN a = 1..la /\ DOMAIN b = 1..lb
                  /\ \A i \in 1..(la + lb) : c[i] = IF i <= la THEN a[i] ELSE b[i - la]
                  /\ \A i \in 1..(m + n) : r[i] = IF i <= m THEN p[i] ELSE q[i - m]
  <2> DEFINE c == a \o b
             r == p \o q
  <2>1. Len(c) = la + lb /\ \A i \in 1..(la + lb) : c[i] = IF i <= la THEN a[i] ELSE b[i - la]
    BY <1>2, ConcatProperties
  <2>2. Len(r) = m + n /\ \A i \in 1..(m + n) : r[i] = IF i <= m THEN p[i] ELSE q[i - m]
    BY <1>1, ConcatProperties
  <2>3. DOMAIN c = 1..(la + lb) /\ DOMAIN a = 1..la /\ DOMAIN b = 1..lb
    BY <1>2, <2>1, ConcatProperties, LenProperties
  <2> HIDE DEF c, r
  <2>4. c = a \o b /\ r = p \o q
    BY DEF c, r
  <2> QED
    BY <2>1, <2>2, <2>3, <2>4
<1> DEFINE st == [i \in 1..(m + n + 1) |-> IF i <= m THEN u[i] ELSE la + v[i - m]]
<1>6. /\ \A i \in 1..(m + 1) : u[i] \in Nat \ {0}
      /\ \A i \in 1..(n + 1) : v[i] \in Nat \ {0}
      /\ u[1] = 1 /\ v[1] = 1
  BY <1>3, <1>4 DEF Spells
<1>7. /\ \A i \in 1..(m + 1) : st[i] = u[i]
      /\ \A i \in 1..(n + 1) : st[m + i] = la + v[i]
  <2>1. ASSUME NEW i \in 1..(m + 1) PROVE st[i] = u[i]
    BY <1>1, <1>2, <1>3, <1>6
  <2>2. ASSUME NEW i \in 1..(n + 1) PROVE st[m + i] = la + v[i]
    <3>1. m + i \in 1..(m + n + 1) /\ ~ m + i <= m /\ (m + i) - m = i
      BY <1>1
    <3> QED
      BY <3>1
  <2> QED
    BY <2>1, <2>2
<1>8. st \in [1..(m + n + 1) -> Nat \ {0}] /\ st[1] = 1 /\ st[m + n + 1] = la + lb + 1
  <2>1. ASSUME NEW i \in 1..(m + n + 1)
        PROVE  (IF i <= m THEN u[i] ELSE la + v[i - m]) \in Nat \ {0}
    <3>1. CASE i <= m
      BY <1>1, <1>6, <3>1
    <3>2. CASE ~ i <= m
      <4>1. i - m \in 1..(n + 1)
        BY <1>1, <3>2
      <4>2. v[i - m] \in Nat \ {0}
        BY <1>6, <4>1
      <4> QED
        BY <1>2, <3>2, <4>2
    <3> QED
      BY <3>1, <3>2
  <2>2. st[1] = u[1] /\ st[m + (n + 1)] = la + v[n + 1]
    <3>1. 1 \in 1..(m + 1) /\ n + 1 \in 1..(n + 1)
      BY <1>1
    <3> QED
      BY <1>7, <3>1
  <2> QED
    BY <1>1, <1>2, <1>4, <1>6, <2>1, <2>2
<1> HIDE DEF st
<1>9. ASSUME NEW i \in 1..(m + n)
      PROVE  /\ st[i + 1] = st[i] + Len(Utf8Encode(r[i])) /\ st[i + 1] <= st[m + n + 1]
             /\ Spelled(c, st[i], r[i])
  <2>1. CASE i <= m
    <3>1. i \in 1..m /\ i \in 1..(m + 1) /\ i + 1 \in 1..(m + 1) /\ r[i] = p[i]
      BY <1>1, <1>5, <2>1
    <3>2. /\ u[i + 1] = u[i] + Len(Utf8Encode(p[i])) /\ u[i + 1] <= la + 1
          /\ Spelled(a, u[i], p[i])
      BY <1>3, <3>1 DEF Spells
    <3>3. st[i] = u[i] /\ st[i + 1] = u[i + 1] /\ u[i] \in Nat \ {0} /\ u[i + 1] \in Nat \ {0}
      BY <1>6, <1>7, <3>1
    <3>4. ASSUME NEW j \in 1..Len(Utf8Encode(p[i]))
          PROVE  Unit(c, u[i] + j - 1) = Utf8Encode(p[i])[j]
      <4>1. PICK k : k = u[i] + j - 1
        OBVIOUS
      <4>2. p[i] \in Units
        BY <1>1, <3>1, ElementOfSeq
      <4>3. PICK l \in Nat : l = Len(Utf8Encode(p[i]))
        BY <4>2, Spelling
      <4>4. k \in 1..la
        <5>1. u[i + 1] = u[i] + l /\ j \in 1..l /\ u[i + 1] <= la + 1
          BY <3>2, <4>3
        <5>2. u[i] \in Nat \ {0} /\ j \in Nat \ {0} /\ j <= l
          BY <3>3, <5>1
        <5>3. \A x \in Nat \ {0} : x + l <= la + 1 => x + j - 1 \in 1..la
          BY <1>2, <5>2
        <5> QED
          BY <3>3, <4>1, <5>1, <5>2, <5>3
      <4>5. Unit(c, k) = Unit(a, k)
        BY <1>2, <1>5, <4>4 DEF Unit
      <4> QED
        BY <3>2, <4>1, <4>5 DEF Spelled
    <3> QED
      BY <1>2, <1>8, <3>1, <3>2, <3>3, <3>4 DEF Spelled
  <2>2. CASE ~ i <= m
    <3>1. PICK h \in 1..n : i = m + h
      <4>1. i - m \in 1..n /\ i = m + (i - m)
        BY <1>1, <2>2
      <4> QED
        BY <4>1
    <3>2. r[i] = q[h] /\ h \in 1..(n + 1) /\ h + 1 \in 1..(n + 1) /\ i + 1 = m + (h + 1)
      <4>1. (m + h) - m = h
        BY <1>1
      <4> QED
        BY <1>1, <1>5, <2>2, <3>1, <4>1
    <3>3. /\ v[h + 1] = v[h] + Len(Utf8Encode(q[h])) /\ v[h + 1] <= lb + 1
          /\ Spelled(b, v[h], q[h])
      BY <1>4, <3>1 DEF Spells
    <3>4. st[i] = la + v[h] /\ st[i + 1] = la + v[h + 1] /\ v[h] \in Nat \ {0} /\ v[h + 1] \in Nat \ {0}
      BY <1>6, <1>7, <3>1, <3>2
    <3>5. Len(Utf8Encode(q[h])) \in 1..3
      <4>1. q[h] \in Units
        BY <1>1, <3>1, ElementOfSeq
      <4> QED
        BY <4>1, Spelling
    <3>6. ASSUME NEW j \in 1..Len(Utf8Encode(q[h]))
          PROVE  Unit(c, la + v[h] + j - 1) = Utf8Encode(q[h])[j]
      <4>1. PICK k : k = v[h] + j - 1
        OBVIOUS
      <4>2. k \in 1..lb /\ la + v[h] + j - 1 = la + k
        <5>1. PICK l \in Nat : l = Len(Utf8Encode(q[h]))
          <6>1. Len(Utf8Encode(q[h])) \in Nat
            BY <3>5
          <6> QED
            BY <6>1
        <5>2. v[h + 1] = v[h] + l /\ j \in 1..l /\ v[h + 1] <= lb + 1
          BY <3>3, <5>1
        <5>3. v[h] \in Nat \ {0} /\ j \in Nat \ {0} /\ j <= l
          BY <3>4, <5>2
        <5>4. \A x \in Nat \ {0} : /\ x + l <= lb + 1 => x + j - 1 \in 1..lb
                                  /\ la + x + j - 1 = la + (x + j - 1)
          BY <1>2, <5>3
        <5> QED
          BY <3>4, <4>1, <5>2, <5>3, <5>4
      <4>3. la + k \in 1..(la + lb) /\ ~ la + k <= la /\ (la + k) - la = k
        BY <1>2, <4>2
      <4>4. Unit(c, la + k) = Unit(b, k)
        BY <1>5, <4>2, <4>3 DEF Unit
      <4> QED
        BY <3>3, <4>1, <4>2, <4>4 DEF Spelled
    <3>7. Spelled(c, st[i], r[i])
      BY <3>2, <3>4, <3>6 DEF Spelled
    <3>8. PICK l \in Nat : l = Len(Utf8Encode(q[h]))
      <4>1. Len(Utf8Encode(q[h])) \in Nat
        BY <3>5
      <4> QED
        BY <4>1
    <3>9. la + (v[h] + l) = (la + v[h]) + l /\ la + v[h + 1] <= la + lb + 1
      BY <1>2, <3>3, <3>4, <3>8
    <3>10. st[i + 1] = st[i] + l /\ st[i + 1] <= st[m + n + 1]
      BY <1>2, <1>8, <3>3, <3>4, <3>8, <3>9
    <3> QED
      BY <3>2, <3>7, <3>8, <3>10
  <2> QED
    BY <2>1, <2>2
<1>10. Spells(c, r, m + n, st)
  BY <1>1, <1>8, <1>9 DEF Spells
<1>11. SpelledOut(c, r, m + n)
  BY <1>2, <1>5, <1>8, <1>10 DEF SpelledOut
<1> QED
  BY <1>5, <1>11

(* Slashes become backslashes, in a text as in its spelling.               *)
Slashed(s) == [i \in 1..Len(s) |-> IF s[i] = Slash THEN Backslash ELSE s[i]]

LEMMA SlashedSpelled ==
  ASSUME NEW b \in Seq(Byte), NEW p \in Seq(Units), SpelledOut(b, p, Len(p))
  PROVE  /\ Slashed(b) \in Seq(Byte) /\ Len(Slashed(b)) = Len(b)
         /\ Slashed(p) \in Seq(Units) /\ Len(Slashed(p)) = Len(p)
         /\ SpelledOut(Slashed(b), Slashed(p), Len(p))
<1>1. Slash = 47 /\ Backslash = 92
  BY DEF Slash, Backslash
<1>2. 47 \in Units /\ 92 \in Units /\ 92 \in Byte /\ \A n \in Units : n \in Nat
  <2>1. 47 \in Units
    BY DEF Units
  <2>2. 92 \in Units
    BY DEF Units
  <2>3. 92 \in Byte
    BY SMT DEF Byte
  <2>4. \A n \in Units : n \in Nat
    BY DEF Units
  <2> QED
    BY <2>1, <2>2, <2>3, <2>4
<1>3. /\ Slashed(b) \in Seq(Byte) /\ Len(Slashed(b)) = Len(b) /\ DOMAIN b = 1..Len(b)
      /\ DOMAIN Slashed(b) = 1..Len(b)
  BY <1>1, <1>2, LenProperties DEF Slashed
<1>4. Slashed(p) \in Seq(Units) /\ Len(Slashed(p)) = Len(p)
  BY <1>1, <1>2, LenProperties DEF Slashed
<1>5. PICK st : Spells(b, p, Len(p), st) /\ st[Len(p) + 1] = Len(b) + 1
  BY DEF SpelledOut
<1>6. \A k : Unit(Slashed(b), k) = IF Unit(b, k) = Slash THEN Backslash ELSE Unit(b, k)
  BY <1>1, <1>3 DEF Unit, Slashed
<1>7. ASSUME NEW i \in 1..Len(p)
      PROVE  /\ Len(Utf8Encode(Slashed(p)[i])) = Len(Utf8Encode(p[i]))
             /\ Spelled(Slashed(b), st[i], Slashed(p)[i])
  <2>1. Spelled(b, st[i], p[i]) /\ p[i] \in Units
    BY <1>5, ElementOfSeq DEF Spells
  <2>2. Slashed(p)[i] = IF p[i] = Slash THEN Backslash ELSE p[i]
    BY DEF Slashed
  <2>3. CASE p[i] = Slash
    <3>1. Utf8Encode(p[i]) = <<47>> /\ Utf8Encode(Slashed(p)[i]) = <<92>>
      BY <1>1, <1>2, <2>2, <2>3, Spelling
    <3>2. Unit(b, st[i] + 1 - 1) = 47
      <4>1. 1 \in 1..Len(<<47>>) /\ <<47>>[1] = 47
        OBVIOUS
      <4> QED
        BY <2>1, <3>1, <4>1 DEF Spelled
    <3>3. Unit(Slashed(b), st[i] + 1 - 1) = 92
      BY <1>1, <1>6, <3>2
    <3>4. \A j \in 1..Len(<<92>>) : j = 1 /\ <<92>>[j] = 92
      OBVIOUS
    <3> QED
      BY <3>1, <3>3, <3>4 DEF Spelled
  <2>4. CASE p[i] # Slash
    <3>1. Slashed(p)[i] = p[i]
      BY <2>2, <2>4
    <3>2. \A j \in 1..Len(Utf8Encode(p[i])) : Utf8Encode(p[i])[j] # Slash
      <4>1. PICK u : u = Utf8Encode(p[i])
        OBVIOUS
      <4>2. u = <<p[i]>> \/ \A j \in 1..Len(u) : u[j] >= 128
        BY <2>1, <4>1, Spelling
      <4>3. \A j \in 1..Len(u) : u[j] # Slash
        <5>1. CASE u = <<p[i]>>
          BY <2>4, <5>1
        <5>2. CASE \A j \in 1..Len(u) : u[j] >= 128
          BY <1>1, <5>2
        <5> QED
          BY <4>2, <5>1, <5>2
      <4> QED
        BY <4>1, <4>3
    <3> QED
      BY <1>6, <2>1, <3>1, <3>2 DEF Spelled
  <2> QED
    BY <2>3, <2>4
<1>8. Spells(Slashed(b), Slashed(p), Len(p), st)
  BY <1>5, <1>7 DEF Spells
<1> QED
  BY <1>3, <1>4, <1>5, <1>8 DEF SpelledOut

(* The bytes and characters of the path a guest is told, and their end.    *)
CharsOf(s) == CHOOSE p : Comprises(s, p)
Reported == IF isC THEN Drive \o Slashed(host) ELSE Slashed(host)
Named == IF isC THEN Drive \o Slashed(CharsOf(host)) ELSE Slashed(CharsOf(host))
Told == Append(Named, 0)

(* The characters of a sound text spell it.                                *)
LEMMA CharsOfSound ==
  ASSUME NEW s \in Seq(Byte), s # <<>>, Sound(s)
  PROVE  /\ CharsOf(s) \in Seq(Units) /\ SpelledOut(s, CharsOf(s), Len(CharsOf(s)))
         /\ \A i \in 1..Len(CharsOf(s)) : Plain(CharsOf(s)[i])
         /\ \A k \in 1..Len(s) : s[k] # Backslash
<1>1. PICK p : p = CharsOf(s) /\ Comprises(s, p)
  BY Characters DEF CharsOf
<1>2. PICK st : Begins(s, p, Len(p), st) /\ st[Len(p) + 1] = Len(s) + 1
  BY <1>1 DEF Comprises
<1>3. \A k \in 1..Len(s) : k < Len(s) + 1
  BY LenProperties
<1> QED
  BY <1>1, <1>2, <1>3 DEF Begins, SpelledOut

(* A plain character never becomes the terminator.                         *)
LEMMA SlashedPlain ==
  ASSUME NEW p \in Seq(Units), \A i \in 1..Len(p) : Plain(p[i])
  PROVE  \A i \in 1..Len(p) : Slashed(p)[i] # 0
BY DEF Slashed, Plain, Slash, Backslash

(* The drive is spelled by itself.                                         *)
LEMMA DriveSpelled ==
  /\ Drive \in Seq(Units) /\ Drive \in Seq(Byte) /\ Len(Drive) = 3
  /\ \A i \in 1..3 : Drive[i] # 0 /\ Drive[i] # Slash
  /\ SpelledOut(Drive, Drive, Len(Drive))
<1>1. Drive = <<67, 58, 92>> /\ Slash = 47
  BY DEF Drive, Backslash, Slash
<1>2. Len(Drive) = 3 /\ \A i \in 1..3 : Drive[i] # 0 /\ Drive[i] # Slash /\ Drive[i] <= 127
  BY <1>1
<1>3. Drive \in Seq(Units)
  <2>1. 67 \in Units
    BY DEF Units
  <2>2. 58 \in Units
    BY DEF Units
  <2>3. 92 \in Units
    BY DEF Units
  <2> QED
    BY <1>1, <2>1, <2>2, <2>3
<1>4. SpelledOut(Drive, Drive, Len(Drive))
  BY <1>2, <1>3, AsciiSpelled
<1> QED
  BY <1>2, <1>3, <1>4, DriveIsText

(* What a scan reports of a sound name spells what it tells its guest.     *)
LEMMA ReportSpelled ==
  ASSUME host \in Seq(Byte), host # <<>>, Sound(host)
  PROVE  /\ Reported \in Seq(Byte) /\ Named \in Seq(Units)
         /\ SpelledOut(Reported, Named, Len(Named))
         /\ \A i \in 1..Len(Named) : Named[i] # 0
<1>1. PICK h, p, b, q : /\ h = host /\ p = CharsOf(host)
                        /\ b = Slashed(h) /\ q = Slashed(p)
  OBVIOUS
<1>2. /\ h \in Seq(Byte) /\ p \in Seq(Units) /\ SpelledOut(h, p, Len(p))
      /\ \A i \in 1..Len(p) : Plain(p[i])
  BY <1>1, CharsOfSound
<1>3. /\ b \in Seq(Byte) /\ q \in Seq(Units) /\ Len(q) = Len(p) /\ SpelledOut(b, q, Len(q))
  BY <1>1, <1>2, SlashedSpelled
<1>4. \A i \in 1..Len(q) : q[i] # 0
  BY <1>1, <1>2, <1>3, SlashedPlain
<1>5. CASE isC
  <2>1. Reported = Drive \o b /\ Named = Drive \o q
    BY <1>1, <1>5 DEF Reported, Named
  <2>2. Drive \o b \in Seq(Byte) /\ Drive \o q \in Seq(Units)
    BY <1>3, DriveSpelled, ConcatProperties
  <2>3. SpelledOut(Drive \o b, Drive \o q, Len(Drive \o q))
    BY <1>3, DriveSpelled, JoinedSpelled
  <2>4. \A i \in 1..Len(Drive \o q) : (Drive \o q)[i] # 0
    <3>1. PICK d : d = Drive
      OBVIOUS
    <3>2. d \in Seq(Units) /\ Len(d) = 3 /\ Len(q) \in Nat /\ \A i \in 1..3 : d[i] # 0
      BY <1>3, <3>1, DriveSpelled, LenProperties
    <3>3. ASSUME NEW i \in 1..Len(d \o q) PROVE (d \o q)[i] # 0
      <4>1. /\ Len(d \o q) = 3 + Len(q)
            /\ \A k \in 1..(3 + Len(q)) : (d \o q)[k] = IF k <= 3 THEN d[k] ELSE q[k - 3]
        <5>1. /\ Len(d \o q) = Len(d) + Len(q)
              /\ \A k \in 1..(Len(d) + Len(q)) :
                   (d \o q)[k] = IF k <= Len(d) THEN d[k] ELSE q[k - Len(d)]
          <6>1. d \in Seq(Units) /\ q \in Seq(Units)
            BY <1>3, <3>2
          <6> QED
            BY <6>1, ConcatProperties
        <5> QED
          BY <3>2, <5>1
      <4>2. i \in 1..3 \/ (~ i <= 3 /\ i - 3 \in 1..Len(q))
        BY <3>2, <4>1
      <4> QED
        BY <1>4, <3>2, <4>1, <4>2
    <3> QED
      BY <3>1, <3>3
  <2> QED
    BY <2>1, <2>2, <2>3, <2>4
<1>6. CASE ~ isC
  BY <1>1, <1>3, <1>4, <1>6 DEF Reported, Named
<1> QED
  BY <1>5, <1>6

(* With the terminator they are what str_to_utf16 reads.                   *)
LEMMA ToldSpelled ==
  ASSUME host \in Seq(Byte), host # <<>>, Sound(host)
  PROVE  /\ Told \in Seq(Units) /\ EndsAt(Told, Len(Told)) /\ Len(Told) = Len(Named) + 1
         /\ Len(Named) \in Nat /\ \A i \in 1..Len(Named) : Told[i] = Named[i]
         /\ \E st : Spells(Append(Reported, 0), Told, Len(Told), st) /\ st[1] = 1
<1>1. PICK r, q, z : r = Reported /\ q = Named /\ z = <<0>>
  OBVIOUS
<1>2. /\ r \in Seq(Byte) /\ q \in Seq(Units) /\ SpelledOut(r, q, Len(q))
      /\ \A i \in 1..Len(q) : q[i] # 0
  BY <1>1, ReportSpelled
<1>3. 0 \in Byte /\ 0 \in Units
  BY ZeroSpelled DEF Byte
<1>4. z \in Seq(Byte) /\ z \in Seq(Units) /\ Len(z) = 1 /\ \A i \in 1..Len(z) : z[i] <= 127
  BY <1>1, <1>3
<1>5. SpelledOut(z, z, Len(z))
  BY <1>4, AsciiSpelled
<1>6. SpelledOut(r \o z, q \o z, Len(q \o z))
  BY <1>2, <1>4, <1>5, JoinedSpelled
<1>7. r \o z = Append(Reported, 0) /\ q \o z = Told
  BY <1>1, <1>2, <1>3, AppendIsConcat DEF Told
<1>8. /\ Told \in Seq(Units) /\ Len(Told) = Len(q) + 1 /\ Told[Len(q) + 1] = 0
      /\ Len(q) \in Nat /\ \A i \in 1..Len(q) : Told[i] = q[i]
  BY <1>1, <1>2, <1>3, AppendProperties, LenProperties DEF Told
<1>9. EndsAt(Told, Len(Told))
  <2>1. ASSUME NEW i \in 1..Len(Told)
        PROVE  Told[i] \in Units /\ (Told[i] = 0 <=> i = Len(Told))
    <3>1. i = Len(q) + 1 \/ (i \in 1..Len(q) /\ i # Len(Told))
      BY <1>8
    <3> QED
      BY <1>2, <1>8, <3>1, ElementOfSeq
  <2> QED
    BY <1>8, <2>1 DEF EndsAt
<1>10. \E st : Spells(Append(Reported, 0), Told, Len(Told), st) /\ st[1] = 1
  BY <1>6, <1>7 DEF SpelledOut, Spells
<1> QED
  BY <1>1, <1>8, <1>9, <1>10

(* What is known of a name that is told and read back.                     *)
Given == host # <<>> /\ Sound(host)

PathInv ==
  Given =>
    /\ stage = "prefix" => isC /\ text = host
    /\ stage = "backslashes" => text = IF isC THEN Drive \o host ELSE host
    /\ stage = "convert" /\ pc = "encode" => Telling(Told, Len(Told))
    /\ stage = "convert" /\ pc = "done" /\ result < cap => out = Told
    /\ stage = "back" /\ result < cap =>
         /\ \A i \in 1..Len(Told) : source[i] = Told[i]
         /\ pc = "decode" => pos <= Len(Told) /\ text = utf8 /\ SpelledOut(utf8, Told, pos - 1)
         /\ pc = "encode" => text = Reported
    /\ stage = "slashes" /\ result < cap /\ ~ LooksLikeC => text = Slashed(host)
    /\ stage = "opened" /\ result < cap /\ ~ LooksLikeC => text = host

(* No path has been reported at first.                                     *)
LEMMA PathInit == Init => PathInv
BY DEF Init, PathInv, Given

(* A path that is opened is the one that was reported.                     *)
LEMMA PathHolds == GuestInv /\ StageInv /\ PathInv => PathKept
<1> SUFFICES ASSUME GuestInv, StageInv, PathInv, stage = "opened", result < cap,
                    Sound(host), ~ LooksLikeC
             PROVE  Held = host /\ Terminated
  BY DEF PathKept
<1> QED
  BY DEF PathInv, Given, StageInv, GuestInv, BareInv, StringInv, HoldsText

(* A given name is a text of bytes.                                        *)
LEMMA GivenName ==
  ASSUME GuestInv, Given
  PROVE  host \in Seq(Byte) /\ host # <<>> /\ Sound(host) /\ Len(host) \in Nat /\ host \in Seq(1..255)
BY BytesOfTexts, LenProperties DEF Given, GuestInv, ConvertInv, Kinds

(* What is said of a name does not change.                                 *)
LEMMA NameStays ==
  ASSUME host' = host, isC' = isC
  PROVE  /\ Given' = Given /\ Told' = Told /\ Reported' = Reported /\ LooksLikeC' = LooksLikeC
         /\ Slashed(host)' = Slashed(host) /\ Named' = Named
BY DEF Given, Told, Named, Reported, LooksLikeC

(* Slashing keeps the length and leaves bytes.                             *)
LEMMA SlashedBytes ==
  ASSUME NEW s \in Seq(Byte)
  PROVE  Slashed(s) \in Seq(Byte) /\ Len(Slashed(s)) = Len(s)
<1>1. Slash = 47 /\ Backslash = 92 /\ 92 \in Byte
  BY DEF Slash, Backslash, Byte
<1> QED
  BY <1>1, LenProperties DEF Slashed

(* Slashing what follows the drive is slashing the whole.                  *)
LEMMA SlashedJoined ==
  ASSUME NEW d \in Seq(Byte), NEW h \in Seq(Byte), \A i \in 1..Len(d) : d[i] # Slash
  PROVE  Slashed(d \o h) = d \o Slashed(h)
<1>1. PICK c, r, m, n : c = d \o h /\ r = Slashed(h) /\ m = Len(d) /\ n = Len(h)
  OBVIOUS
<1>2. /\ r \in Seq(Byte) /\ Len(r) = n /\ m \in Nat /\ n \in Nat
      /\ \A i \in 1..n : r[i] = IF h[i] = Slash THEN Backslash ELSE h[i]
  BY <1>1, SlashedBytes, LenProperties DEF Slashed
<1>3. /\ c \in Seq(Byte) /\ Len(c) = Len(d) + Len(h)
      /\ \A i \in 1..(Len(d) + Len(h)) : c[i] = IF i <= Len(d) THEN d[i] ELSE h[i - Len(d)]
  BY <1>1, ConcatProperties
<1>4. /\ d \o r \in Seq(Byte) /\ Len(d \o r) = Len(d) + Len(r)
      /\ \A i \in 1..(Len(d) + Len(r)) : (d \o r)[i] = IF i <= Len(d) THEN d[i] ELSE r[i - Len(d)]
  BY <1>2, ConcatProperties
<1>5. PICK e : e = d \o r
  OBVIOUS
<1>6. /\ Slashed(c) \in Seq(Byte) /\ Len(Slashed(c)) = m + n
      /\ \A i \in 1..(m + n) : Slashed(c)[i] = IF c[i] = Slash THEN Backslash ELSE c[i]
  BY <1>1, <1>3, SlashedBytes DEF Slashed
<1>7. ASSUME NEW i \in 1..(m + n) PROVE Slashed(c)[i] = e[i]
  <2>1. CASE i <= m
    BY <1>1, <1>2, <1>3, <1>4, <1>5, <1>6, <2>1
  <2>2. CASE ~ i <= m
    <3>1. i - m \in 1..n
      BY <1>2, <2>2
    <3>2. c[i] = h[i - m] /\ e[i] = r[i - m]
      BY <1>1, <1>2, <1>3, <1>4, <1>5, <2>2
    <3> QED
      BY <1>2, <1>6, <3>1, <3>2
  <2> QED
    BY <2>1, <2>2
<1>8. Slashed(c) = e
  <2>1. e \in Seq(Byte) /\ Len(e) = m + n
    BY <1>1, <1>2, <1>4, <1>5
  <2>2. Len(Slashed(c)) = Len(e) /\ \A i \in 1..Len(Slashed(c)) : Slashed(c)[i] = e[i]
    BY <1>6, <1>7, <2>1
  <2> QED
    BY <1>6, <2>1, <2>2, SeqEqual
<1> QED
  BY <1>1, <1>5, <1>8

(* The name is reported with the drive before it, then slashed.            *)
LEMMA PathReported ==
  GuestInv /\ StageInv /\ PathInv /\ (ReportNew \/ ReportPrefix \/ ReportBackslashes) => PathInv'
<1> SUFFICES ASSUME GuestInv, StageInv, PathInv, Given,
                    ReportNew \/ ReportPrefix \/ ReportBackslashes
             PROVE  PathInv'
  BY NameStays DEF PathInv, ReportNew, ReportPrefix, ReportBackslashes
<1>1. CASE ReportNew
  <2>1. text' = host /\ stage' = (IF isC THEN "prefix" ELSE "backslashes") /\ host' = host /\ isC' = isC
    BY <1>1 DEF ReportNew, NewString
  <2> QED
    BY <2>1, NameStays DEF PathInv
<1>2. CASE ReportPrefix
  <2>1. stage = "prefix" /\ text' = Drive \o text /\ stage' = "backslashes" /\ host' = host /\ isC' = isC
    BY <1>2 DEF ReportPrefix, StringPrepend
  <2>2. text = host /\ isC
    BY <2>1 DEF PathInv
  <2> QED
    BY <2>1, <2>2, NameStays DEF PathInv
<1>3. CASE ReportBackslashes
  <2>1. /\ stage = "backslashes" /\ stage' = "convert" /\ host' = host /\ isC' = isC
        /\ pc' = "encode" /\ utf8' = Append([c \in 1..len |-> cells'[c - 1]], 0)
        /\ pos' = pos /\ out' = out /\ len' = len /\ text' = Slashed(text)
    <3>1. StringInv' /\ ~ bare' /\ len' = len
      BY <1>3, GuestStep DEF GuestInv, BareInv, Next, ReportBackslashes, ReplaceAllC
    <3>2. utf8' = Append([c \in 1..len |-> cells'[c - 1]], 0)
      BY <1>3, <3>1, HeldEnds DEF ReportBackslashes, Nul
    <3> QED
      BY <1>3, <3>2 DEF ReportBackslashes, ReplaceAllC, Slashed
  <2>2. pos = 1 /\ out = <<>> /\ Len(out) = 0
    BY <2>1, EmptySeq DEF GuestInv, ConvertInv, Kinds
  <2>3. text = IF isC THEN Drive \o host ELSE host
    BY <2>1 DEF PathInv
  <2>4. Slashed(text) = Reported
    <3>1. CASE isC
      <4>1. PICK d, h : d = Drive /\ h = host
        OBVIOUS
      <4>2. /\ d \in Seq(Byte) /\ h \in Seq(Byte) /\ Len(d) = 3 /\ Len(h) \in Nat
            /\ \A i \in 1..3 : d[i] # Slash
        BY <4>1, DriveSpelled, GivenName
      <4>3. Slashed(d \o h) = d \o Slashed(h)
        BY <4>2, SlashedJoined
      <4> QED
        BY <2>3, <3>1, <4>1, <4>3 DEF Reported
    <3> QED
      BY <2>3, <3>1 DEF Reported
  <2>5. utf8' = Append(Reported, 0)
    <3>1. StringInv'
      BY <1>3, GuestStep DEF GuestInv, Next
    <3> QED
      BY <2>1, <2>4, <3>1 DEF StringInv, HoldsText, Held
  <2>6. Telling(Told, Len(Told))'
    <3>1. /\ \E st : Spells(utf8', Told, Len(Told), st) /\ st[1] = 1
          /\ Len(Told) \in Nat \ {0}
      BY <2>5, ToldSpelled, GivenName DEF EndsAt
    <3>2. Told' = Told
      BY <2>1, NameStays
    <3>3. Len(out') = 0 /\ Len(out') + 1 = 1 /\ pos' = 1 /\ \A k \in 1..Len(out') : FALSE
      BY <2>1, <2>2
    <3>4. Len(Told) > 0
      BY <3>1
    <3> QED
      BY <3>1, <3>2, <3>3, <3>4 DEF Telling
  <2> QED
    BY <2>1, <2>6, NameStays DEF PathInv
<1> QED
  BY <1>1, <1>2, <1>3

(* The guest is told the characters.                                       *)
LEMMA PathEncoded == GuestInv /\ PathInv /\ Encode => PathInv'
<1> SUFFICES ASSUME GuestInv, PathInv, Encode, Given PROVE PathInv'
  BY NameStays DEF PathInv, Encode
<1>1. PICK q, n : q = Told /\ n = Len(Told)
  OBVIOUS
<1>2. /\ stage = "convert" /\ stage' = stage /\ host' = host /\ isC' = isC /\ pc = "encode"
      /\ cap' = cap /\ q = Told' /\ n = Len(Told)'
      /\ BufferFull \/ ToUtf16Ends \/ ToUtf16 \/ ToUtf16Stops
  BY <1>1, NameStays DEF Encode, BufferFull, ToUtf16Ends, ToUtf16, ToUtf16Stops, Terminate
<1>3. EndsAt(q, n) /\ Telling(q, n) /\ q \in Seq(Units) /\ n = Len(q)
  BY <1>1, <1>2, ToldSpelled, GivenName DEF PathInv
<1>4. /\ utf8 \in Seq(Byte) /\ out \in Seq(Units) /\ cap \in Nat /\ Len(out) <= cap
      /\ Len(out) \in Nat
  BY <1>2, LenProperties DEF GuestInv, ConvertInv, Kinds, BufferInv
<1>5. /\ ToUtf16 =>
           /\ Len(out') < n /\ \A k \in 1..Len(out') : out'[k] = q[k]
           /\ \E st : Spells(utf8', q, n, st) /\ st[Len(out') + 1] = pos'
      /\ ToUtf16Ends =>
           \/ Len(out') = n /\ \A k \in 1..n : out'[k] = q[k]
           \/ Len(out) = cap /\ result' = cap
      /\ ToUtf16Stops => Len(out) = cap /\ result' = cap
  BY <1>3, <1>4, TellingStep
<1>6. out' \in Seq(Units)
  BY <1>2, GuestStep DEF GuestInv, ConvertInv, Kinds, Next
<1>7. CASE ToUtf16
  <2>1. pc' = "encode"
    BY <1>2, <1>7 DEF ToUtf16
  <2>2. Telling(Told, Len(Told))'
    BY <1>2, <1>5, <1>7 DEF Telling
  <2> QED
    BY <1>2, <2>1, <2>2 DEF PathInv
<1>8. CASE ToUtf16Ends
  <2>1. pc' = "done"
    BY <1>8 DEF ToUtf16Ends
  <2>2. result' < cap' => out' = q
    <3>1. Len(out') = n /\ (\A k \in 1..n : out'[k] = q[k]) => out' = q
      BY <1>3, <1>6, SeqEqual
    <3> QED
      BY <1>2, <1>4, <1>5, <1>8, <3>1
  <2> QED
    BY <1>2, <2>1, <2>2 DEF PathInv
<1>9. CASE BufferFull \/ ToUtf16Stops
  <2>1. pc' = "done" /\ result' = cap'
    BY <1>2, <1>9 DEF BufferFull, ToUtf16Stops, Terminate
  <2>2. ~ result' < cap'
    BY <1>2, <1>4, <2>1
  <2> QED
    BY <1>2, <2>1, <2>2 DEF PathInv
<1> QED
  BY <1>2, <1>7, <1>8, <1>9
(* The guest hands back what it was told.                                  *)
LEMMA PathReused == GuestInv /\ StageInv /\ PathInv /\ Reuse => PathInv'
<1> SUFFICES ASSUME GuestInv, PathInv, Reuse, Given PROVE PathInv'
  BY NameStays DEF PathInv, Reuse
<1>1. /\ stage = "convert" /\ pc = "done" /\ stage' = "back" /\ pc' = "decode"
      /\ source' = Append(out, 0) /\ pos' = 1 /\ utf8' = <<>> /\ text' = <<>>
      /\ cap' = cap /\ result' = result /\ host' = host /\ isC' = isC /\ Told' = Told
  BY NameStays DEF Reuse, NewString
<1>2. Told \in Seq(Units) /\ Len(Told) \in Nat \ {0}
  BY ToldSpelled, GivenName DEF EndsAt
<1>3. ASSUME result < cap
      PROVE  \A i \in 1..Len(Told) : source'[i] = Told[i]
  <2>1. out = Told /\ out \in Seq(Units) /\ 0 \in Units
    BY <1>1, <1>2, <1>3, ZeroSpelled DEF PathInv
  <2> QED
    BY <1>1, <2>1, AppendProperties
<1>4. SpelledOut(utf8', Told, 0) /\ pos' - 1 = 0 /\ pos' <= Len(Told)
  BY <1>1, <1>2, SpelledNothing
<1> QED
  BY <1>1, <1>3, <1>4 DEF PathInv

(* What the guest hands back is read back.                                 *)
LEMMA PathDecoded == GuestInv /\ StageInv /\ PathInv /\ Decode => PathInv'
<1> SUFFICES ASSUME GuestInv, StageInv, PathInv, Decode, Given PROVE PathInv'
  BY NameStays DEF PathInv, Decode
<1>1. PICK q, n : q = Told /\ n = Len(Told)
  OBVIOUS
<1>2. /\ stage = "back" /\ stage' = stage /\ host' = host /\ isC' = isC /\ pc = "decode"
      /\ Told' = Told /\ Reported' = Reported
      /\ \/ /\ ToUtf8 /\ pc' = "decode"
            /\ StringAppend(SubSeq(utf8', Len(utf8) + 1, Len(utf8')))
         \/ ToUtf8 /\ pc' # "decode" /\ UNCHANGED stringVars
  <2>1. stage \in {"convert", "back"} /\ stage' = stage /\ host' = host /\ isC' = isC
    BY DEF Decode
  <2>2. pc \in {"decode", "counted"}
    BY DEF Decode, ToUtf8, ToUtf8Counted, CountedEnds
  <2>3. stage = "back" /\ pc = "decode"
    BY <2>1, <2>2 DEF StageInv, Given
  <2>4. ~ ToUtf8Counted /\ ~ CountedEnds
    BY <2>3 DEF ToUtf8Counted, CountedEnds
  <2> QED
    BY <2>1, <2>3, <2>4, NameStays DEF Decode
<1>3. ToUtf8 /\ cap' = cap /\ result' = result /\ source' = source
  BY <1>2 DEF ToUtf8
<1> SUFFICES ASSUME result < cap PROVE PathInv'
  BY <1>2, <1>3 DEF PathInv
<1>4. /\ EndsAt(q, n) /\ q \in Seq(Units) /\ n = Len(q) /\ n = Len(Named) + 1 /\ Len(Named) \in Nat
      /\ \A i \in 1..Len(Named) : q[i] = Named[i]
  BY <1>1, ToldSpelled, GivenName
<1>5. /\ \A i \in 1..n : source[i] = q[i]
      /\ pos <= n /\ text = utf8 /\ SpelledOut(utf8, q, pos - 1)
  BY <1>1, <1>2 DEF PathInv
<1>6. utf8 \in Seq(Byte) /\ pos \in Nat \ {0} /\ pos \in 1..n
  BY <1>4, <1>5 DEF GuestInv, ConvertInv, Kinds
<1>7. /\ Utf16Decode(q, pos).cp = q[pos] /\ Utf16Decode(q, pos).count = 1
      /\ q[pos] = 0 <=> pos = n
      /\ SpelledOut(utf8 \o Utf8Encode(q[pos]), q, pos)
  BY <1>4, <1>5, <1>6, SpelledStep
<1>8. Utf16Decode(source, pos) = Utf16Decode(q, pos)
  <2>1. source[pos] = q[pos] /\ q[pos] \in Units /\ source[pos] \in Units
    BY <1>4, <1>5, <1>6 DEF EndsAt
  <2>2. Utf16Decode(source, pos) = [cp |-> source[pos], count |-> 1]
    BY <2>1, UnitRead
  <2>3. Utf16Decode(q, pos) = [cp |-> q[pos], count |-> 1]
    BY <2>1, UnitRead
  <2> QED
    BY <2>1, <2>2, <2>3
<1>9. CASE pos = n
  <2>1. pc' = "encode"
    BY <1>3, <1>7, <1>8, <1>9 DEF ToUtf8
  <2>2. text' = text
    BY <1>2, <2>1 DEF stringVars
  <2>3. text = Reported
    <3>1. pos - 1 = Len(Named)
      BY <1>4, <1>9
    <3>2. SpelledOut(utf8, Named, Len(Named))
      <4>1. SpelledOut(utf8, q, Len(Named)) /\ \A i \in 1..Len(Named) : Named[i] = q[i]
        BY <1>4, <1>5, <3>1
      <4> QED
        BY <1>4, <4>1, SpelledSame
    <3>3. /\ Reported \in Seq(Byte) /\ Named \in Seq(Units)
          /\ SpelledOut(Reported, Named, Len(Named))
      BY ReportSpelled, GivenName
    <3>4. \A i \in 1..Len(Named) : Named[i] \in Units
      BY <3>3, ElementOfSeq
    <3>5. utf8 = Reported
      BY <1>4, <1>6, <3>2, <3>3, <3>4, OneSpelling
    <3> QED
      BY <1>5, <3>5
  <2> QED
    BY <1>1, <1>2, <1>3, <1>5, <2>1, <2>2, <2>3 DEF PathInv
<1>10. CASE pos # n
  <2>1. pc' = "decode" /\ utf8' = utf8 \o Utf8Encode(q[pos]) /\ pos' = pos + 1
    BY <1>2, <1>3, <1>7, <1>8, <1>10 DEF ToUtf8
  <2>2. text' = text \o SubSeq(utf8', Len(utf8) + 1, Len(utf8'))
    BY <1>2, <2>1 DEF StringAppend
  <2>3. Utf8Encode(q[pos]) \in Seq(Byte)
    BY <1>4, <1>6, Spelling DEF EndsAt
  <2>4. text' = utf8'
    BY <1>5, <1>6, <2>1, <2>2, <2>3, Appended
  <2>5. pos' <= n /\ pos' - 1 = pos
    BY <1>4, <1>6, <1>10, <2>1
  <2>6. SpelledOut(utf8', q, pos' - 1)
    BY <1>7, <2>1, <2>5
  <2> QED
    BY <1>1, <1>2, <1>3, <1>5, <2>1, <2>4, <2>5, <2>6 DEF PathInv
<1> QED
  BY <1>9, <1>10

(* The prefix is taken off just where the scan has put it.                 *)
LEMMA PathStripped == GuestInv /\ PathInv /\ Strip => PathInv'
<1> SUFFICES ASSUME GuestInv, PathInv, Strip, Given PROVE PathInv'
  BY NameStays DEF PathInv, Strip
<1>1. /\ stage = "back" /\ pc = "encode" /\ stage' = "slashes" /\ host' = host /\ isC' = isC
      /\ cap' = cap /\ result' = result /\ LooksLikeC' = LooksLikeC
      /\ IF StartsWith(Drive) THEN StripPrefix(Drive) ELSE text' = text
  BY NameStays DEF Strip, utfVars, stringVars
<1> SUFFICES ASSUME result < cap, ~ LooksLikeC PROVE text' = Slashed(host)
  BY <1>1 DEF PathInv
<1>2. text = Reported
  BY <1>1 DEF PathInv
<1>3. /\ text \in Seq(Byte) /\ len \in Nat /\ len < size /\ size \in Nat /\ Len(text) = len
      /\ \A c \in 1..len : cells[c - 1] = text[c]
  <2>1. Held = text /\ text \in Seq(Byte) /\ len \in Nat /\ len < size /\ size \in Nat
    BY DEF GuestInv, StringInv, Fields, StaysInside, HoldsText
  <2>2. Len(text) = len
    BY HeldIsText DEF GuestInv
  <2> QED
    BY <2>1, <2>2 DEF Held
<1>4. PICK d, h, r : d = Drive /\ h = host /\ r = Slashed(host)
  OBVIOUS
<1>5. /\ h \in Seq(Byte) /\ r \in Seq(Byte) /\ Len(r) = Len(h) /\ Len(h) \in Nat
      /\ \A i \in 1..Len(h) : r[i] = IF h[i] = Slash THEN Backslash ELSE h[i]
      /\ \A i \in 1..Len(h) : h[i] # Backslash
  BY <1>4, GivenName, SlashedBytes, CharsOfSound DEF Slashed
<1>6. d = <<67, 58, 92>> /\ d \in Seq(Byte) /\ Len(d) = 3
  BY <1>4, DriveSpelled DEF Drive, Backslash
<1>7. CASE isC
  <2>1. text = d \o r
    BY <1>2, <1>4, <1>7 DEF Reported
  <2>2. /\ Len(d \o r) = Len(d) + Len(r)
        /\ \A i \in 1..(Len(d) + Len(r)) : (d \o r)[i] = IF i <= Len(d) THEN d[i] ELSE r[i - Len(d)]
    <3>1. d \in Seq(Byte) /\ r \in Seq(Byte)
      BY <1>5, <1>6
    <3> QED
      BY <3>1, ConcatProperties
  <2>3. len = 3 + Len(r) /\ \A i \in 1..3 : text[i] = d[i]
    BY <1>3, <1>5, <1>6, <2>1, <2>2
  <2>4. StartsWith(Drive)
    <3>1. ASSUME NEW c \in 1..3 PROVE c <= size /\ cells[c - 1] = d[c]
      BY <1>3, <1>5, <2>3
    <3> QED
      BY <1>4, <1>6, <3>1 DEF StartsWith
  <2>5. text' = SubSeq(text, 4, Len(text))
    BY <1>1, <1>4, <1>6, <2>4 DEF StripPrefix
  <2>6. SubSeq(d \o r, 4, Len(d \o r)) = r
    BY <1>5, <1>6
  <2> QED
    BY <1>4, <2>1, <2>5, <2>6
<1>8. CASE ~ isC
  <2>1. text = r
    BY <1>2, <1>4, <1>8 DEF Reported
  <2>2. ~ StartsWith(Drive)
    <3> SUFFICES ASSUME StartsWith(Drive) PROVE FALSE
      OBVIOUS
    <3>1. Terminated
      BY <1>1 DEF GuestInv, BareInv, StringInv, HoldsText
    <3>2. 3 <= len
      BY <1>4, <1>6, <3>1, DriveIsText, PrefixFits DEF GuestInv
    <3>3. ASSUME NEW i \in 1..3 PROVE r[i] = d[i]
      <4>1. cells[i - 1] = d[i]
        BY <1>4, <1>6 DEF StartsWith
      <4> QED
        BY <1>3, <2>1, <3>2, <4>1
    <3>4. r[1] = 67 /\ r[2] = 58 /\ r[3] = 92
      BY <1>6, <3>3
    <3>5. Len(h) >= 3 /\ h[1] = 67 /\ h[2] = 58 /\ h[3] = Slash
      BY <1>3, <1>5, <2>1, <3>2, <3>4 DEF Backslash
    <3>6. SubSeq(h, 1, 3) = <<67, 58, Slash>>
      <4>1. /\ SubSeq(h, 1, 3) \in Seq(Byte) /\ Len(SubSeq(h, 1, 3)) = 3
            /\ \A i \in 1..3 : SubSeq(h, 1, 3)[i] = h[i]
        BY <1>5, <3>5
      <4>2. PICK u : u = SubSeq(h, 1, 3)
        OBVIOUS
      <4>3. u \in Seq(Byte) /\ Len(u) = 3 /\ u[1] = 67 /\ u[2] = 58 /\ u[3] = Slash
        BY <3>5, <4>1, <4>2
      <4>4. u = <<67, 58, Slash>>
        BY <4>3
      <4> QED
        BY <4>2, <4>4
    <3> QED
      BY <1>4, <1>8, <3>5, <3>6 DEF LooksLikeC
  <2> QED
    BY <1>1, <1>4, <2>1, <2>2
<1> QED
  BY <1>7, <1>8

(* The backslashes become slashes again.                                   *)
LEMMA PathSlashed == GuestInv /\ PathInv /\ Slashes => PathInv'
<1> SUFFICES ASSUME GuestInv, PathInv, Slashes, Given PROVE PathInv'
  BY NameStays DEF PathInv, Slashes
<1>1. /\ stage = "slashes" /\ stage' = "opened" /\ host' = host /\ isC' = isC
      /\ cap' = cap /\ result' = result /\ LooksLikeC' = LooksLikeC
      /\ text' = [c \in 1..Len(text) |-> IF text[c] = Backslash THEN Slash ELSE text[c]]
  BY NameStays DEF Slashes, utfVars, ReplaceAllC
<1> SUFFICES ASSUME result < cap, ~ LooksLikeC PROVE text' = host
  BY <1>1 DEF PathInv
<1>2. text = Slashed(host)
  BY <1>1 DEF PathInv
<1>3. /\ host \in Seq(Byte) /\ Len(Slashed(host)) = Len(host) /\ Len(host) \in Nat
      /\ \A i \in 1..Len(host) : Slashed(host)[i] = IF host[i] = Slash THEN Backslash ELSE host[i]
      /\ \A i \in 1..Len(host) : host[i] # Backslash
  BY GivenName, SlashedBytes, CharsOfSound DEF Slashed
<1>4. \A i \in 1..Len(host) : text'[i] = host[i]
  BY <1>1, <1>2, <1>3
<1>5. text' \in Seq(Byte) /\ Len(text') = Len(host)
  <2>1. text' \in Seq(Byte)
    BY GuestStep DEF GuestInv, StringInv, Fields, Next
  <2> QED
    BY <1>1, <1>2, <1>3, <2>1
<1> QED
  BY <1>3, <1>4, <1>5, SeqEqual

(* Every step keeps what is known of a name.                               *)
LEMMA PathStep == GuestInv /\ StageInv /\ PathInv /\ [Next]_vars => PathInv'
<1> SUFFICES ASSUME GuestInv, StageInv, PathInv, [Next]_vars PROVE PathInv'
  OBVIOUS
<1>1. CASE Strings
  BY <1>1, NameStays DEF PathInv, Strings
<1>2. CASE UNCHANGED vars
  BY <1>2, NameStays DEF PathInv, vars, utfVars, stringVars, Telling
<1> QED
  BY <1>1, <1>2, PathReported, PathEncoded, PathReused, PathDecoded, PathStripped, PathSlashed
  DEF Next
-----------------------------------------------------------------------------
(* No conversion reads memory behind a text, for any text: of the guest's, *)
(* unless 0xFFFF stands before the terminator; of the host's, unless it    *)
(* ends within a character.                                                *)
THEOREM TextReadsInside == Spec => []ReadsInside
<1>1. GuestInv => ReadsInside
  BY ReadInv DEF GuestInv
<1> QED
  BY <1>1, GuestInit, GuestStep, PTL DEF Spec

(* A buffer of any size is overrun by one unit at most, and only if it has *)
(* none or a pair has taken the last two.                                  *)
THEOREM TextStaysInBuffer == Spec => []StaysInBuffer
<1>1. GuestInv => StaysInBuffer
  BY DEF GuestInv, ConvertInv, BufferInv
<1> QED
  BY <1>1, GuestInit, GuestStep, PTL DEF Spec

(* Whatever is done with strings, the conversions' own use of them         *)
(* included, no operation writes outside the allocation.                   *)
THEOREM StringStaysInside == Spec => []StaysInside
<1>1. GuestInv => StaysInside
  BY DEF GuestInv, StringInv
<1> QED
  BY <1>1, GuestInit, GuestStep, PTL DEF Spec

(* A string holds what the operations called on it say it should, whenever *)
(* it has grown, shrunk or moved, and ends in a terminator, except where   *)
(* string_new_with_size or string_clear has just left none; the next       *)
(* operation that writes makes up for it.                                  *)
THEOREM StringHoldsText == Spec => []HoldsText
<1>1. GuestInv => HoldsText
  BY DEF GuestInv, StringInv
<1> QED
  BY <1>1, GuestInit, GuestStep, PTL DEF Spec

(* The texts a guest converts there and back come back, and the paths it   *)
(* is told of lead it to the files they name; for any texts, paths and     *)
(* buffers, and characters of any number of bytes.                         *)
THEOREM TextRoundTrips == Spec => []RoundTrips
<1> DEFINE Inv == GuestInv /\ StageInv /\ TripInv /\ PathInv
<1>1. Init => Inv
  BY GuestInit, StageInit, TripInit, PathInit
<1>2. Inv /\ [Next]_vars => Inv'
  BY GuestStep, StageStep, TripStep, PathStep
<1>3. Inv => RoundTrips
  BY TripHolds, PathHolds DEF RoundTrips
<1> QED
  BY <1>1, <1>2, <1>3, PTL DEF Spec
=============================================================================
