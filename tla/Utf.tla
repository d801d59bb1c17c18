-------------------------------- MODULE Utf --------------------------------
(***************************************************************************)
(* Conversion between the guest's UTF-16 and the host's UTF-8: the codecs  *)
(* of include/utf.h, utf16_to_str, utf16_to_str_with_len and str_to_utf16  *)
(* of include/lib/utils.h; and of kernel32 GetModuleFileNameW, which has   *)
(* the loop of str_to_utf16 and returns a length, and WideCharToMultiByte. *)
(*                                                                         *)
(* A text is a sequence of code units, ended by a zero.  One action is one *)
(* turn of a loop.                                                         *)
(***************************************************************************)
EXTENDS Integers, Sequences

CONSTANTS
  Guest,   \* UTF-16 texts of the guest
  Host,    \* UTF-8 texts of the host
  Caps,    \* sizes of the guest's buffers
  Counts   \* the lengths WideCharToMultiByte is given, besides -1

U16 == 0..(2^16 - 1)
Byte == 0..(2^8 - 1)

(* What follows the terminator of a text is memory too: here, one more     *)
(* zero of a guest's, and nothing but zeros of the host's (Unit).          *)
ASSUME UtfAssumption ==
  /\ \A s \in Guest : s \in Seq(U16) /\ Len(s) >= 2 /\ s[Len(s)] = 0 /\ s[Len(s) - 1] = 0
  /\ \A s \in Host : s \in Seq(Byte) /\ s # <<>> /\ s[Len(s)] = 0
  /\ Caps \subseteq Nat /\ Counts \subseteq Nat \ {0}

VARIABLES
  pc,      \* "decode", "counted", "encode", "done"
  source,  \* the guest's text; <<>> when the text comes from the host
  asked,   \* units WideCharToMultiByte is to convert; 0 in the other cases
  left,    \* turns left: `len` of utf16_to_str_with_len
  pos,     \* the next unit or byte to read
  utf8,    \* the host's text; without terminator while "decode"
  cap,     \* `len` of str_to_utf16: units of the buffer
  out,     \* the units written to it, the terminator included
  ended,   \* whether the loop has written a terminator
  result   \* what GetModuleFileNameW returns

utfVars == <<pc, source, asked, left, pos, utf8, cap, out, ended, result>>
-----------------------------------------------------------------------------
(* The codecs: a code point and how many units it took, or the units.      *)
Within(n, low, high) == low <= n /\ n <= high
Bits(n, low, width) == (n \div 2^low) % 2^width

(* Only 0xFFFF is taken for half of a pair; surrogates pass as themselves. *)
Utf16Decode_Pairs(s, k) ==
  IF s[k] \notin 55296..56319 THEN [cp |-> s[k], count |-> 1]
  ELSE [cp |-> (s[k] - 55296) * 1024 + (s[k + 1] - 56320) + 65536, count |-> 2]

Utf16Decode(s, k) ==
  IF s[k] < 65535 THEN [cp |-> s[k], count |-> 1]
  ELSE [cp |-> (65535 - 55296) * 1024 + (65535 - 56320) + 65536, count |-> 2]

Utf8Encode_OffByOne(cp) ==
  CASE cp <= 127 -> <<cp>>
    [] Within(cp, 128, 2048) -> <<192 + Bits(cp, 6, 5), 128 + Bits(cp, 0, 6)>>
    [] Within(cp, 2049, 65535) ->
         <<224 + Bits(cp, 12, 4), 128 + Bits(cp, 6, 6), 128 + Bits(cp, 0, 6)>>
    [] OTHER -> <<>>

Utf8Encode(cp) ==
  CASE cp <= 127 -> <<cp>>
    [] Within(cp, 128, 2047) -> <<192 + Bits(cp, 6, 5), 128 + Bits(cp, 0, 6)>>
    [] Within(cp, 2048, 65535) ->
         <<224 + Bits(cp, 12, 4), 128 + Bits(cp, 6, 6), 128 + Bits(cp, 0, 6)>>
    [] Within(cp, 65536, 1114111) ->
         <<240 + Bits(cp, 18, 3), 128 + Bits(cp, 12, 6), 128 + Bits(cp, 6, 6),
           128 + Bits(cp, 0, 6)>>
    [] OTHER -> <<>>

Unit(s, k) == IF k \in DOMAIN s THEN s[k] ELSE 0
Rest(byte) == byte % 64

(* The first byte tells the length; the rest are taken as they come.       *)
Utf8Decode(s, k) ==
  LET first == Unit(s, k)
      rest(n) == Rest(Unit(s, k + n))
  IN CASE first < 128 -> [cp |-> first, count |-> 1]
       [] Within(first, 192, 223) -> [cp |-> (first % 32) * 2^6 + rest(1), count |-> 2]
       [] Within(first, 224, 239) ->
            [cp |-> (first % 16) * 2^12 + rest(1) * 2^6 + rest(2), count |-> 3]
       [] Within(first, 240, 247) ->
            [cp |-> (first % 8) * 2^18 + rest(1) * 2^12 + rest(2) * 2^6 + rest(3),
             count |-> 4]
       [] OTHER -> [cp |-> 0, count |-> 0]

(* Pairs come out with the low surrogate first.                            *)
Utf16Encode(cp, room) ==
  CASE cp < 65535 -> IF room < 1 THEN <<>> ELSE <<cp>>
    [] Within(cp, 65535, 1114111) ->
         IF room < 2 THEN <<>>
         ELSE <<56320 + ((cp - 65536) % 2^10),
                (55296 + (cp - 65536) \div 2^10) % 2^16>>
    [] OTHER -> <<>>
-----------------------------------------------------------------------------
(* utf16_to_str.                                                           *)
ToUtf8 ==
  /\ pc = "decode"
  /\ LET d == Utf16Decode(source, pos)
     IN IF d.cp = 0
        THEN pc' = "encode" /\ utf8' = Append(utf8, 0) /\ pos' = 1
        ELSE /\ utf8' = utf8 \o Utf8Encode(d.cp)
             /\ pos' = pos + d.count
             /\ UNCHANGED pc
  /\ UNCHANGED <<source, asked, left, cap, out, ended, result>>

(* utf16_to_str_with_len: a code point for each of `len` units.  The model *)
(* ends where the memory it has of the guest does.  A guest may convert    *)
(* a result that is terminated back.                                       *)
ToUtf8Counted ==
  /\ pc = "counted" /\ left > 0 /\ pos <= Len(source)
  /\ LET d == Utf16Decode(source, pos)
     IN /\ utf8' = utf8 \o Utf8Encode(d.cp)
        /\ pos' = pos + d.count
  /\ left' = left - 1
  /\ UNCHANGED <<pc, source, asked, cap, out, ended, result>>

CountedEnds ==
  /\ pc = "counted" /\ (left = 0 \/ pos > Len(source))
  /\ IF utf8 # <<>> /\ utf8[Len(utf8)] = 0
     THEN pc' = "encode" /\ pos' = 1
     ELSE pc' = "done" /\ UNCHANGED pos
  /\ UNCHANGED <<source, asked, left, utf8, cap, out, ended, result>>

(* str_to_utf16: one unit is kept for the terminator, if the loop gets to  *)
(* see that only one is left.  GetModuleFileNameW returns the size of the  *)
(* buffer when it stops early, else the units before the terminator.       *)
Room == cap - Len(out)
RoomTold == IF Room > 255 THEN 255 ELSE Room   \* utf16_encode takes a u8
LastUnit_Past == Room = 0
LastUnit == Room = 1

Terminate ==
  /\ out' = Append(out, 0) /\ ended' = TRUE
  /\ pc' = "done"

BufferFull ==
  /\ pc = "encode" /\ LastUnit
  /\ Terminate /\ result' = cap
  /\ UNCHANGED <<source, asked, left, pos, utf8, cap>>

(* The end of the text, or a byte that starts no character.                *)
ToUtf16Ends ==
  /\ pc = "encode" /\ ~ LastUnit
  /\ Utf8Decode(utf8, pos).cp = 0
  /\ out' = out \o Utf16Encode(0, RoomTold)
  /\ ended' = (Room > 0)
  /\ result' = Len(out) /\ pc' = "done"
  /\ UNCHANGED <<source, asked, left, pos, utf8, cap>>

ToUtf16 ==
  /\ pc = "encode" /\ ~ LastUnit
  /\ LET d == Utf8Decode(utf8, pos)
         units == Utf16Encode(d.cp, RoomTold)
     IN /\ d.cp # 0 /\ units # <<>>
        /\ out' = out \o units
        /\ pos' = pos + d.count
  /\ UNCHANGED <<pc, source, asked, left, utf8, cap, ended, result>>

(* Nothing was written, for want of room or because there is no such code  *)
(* point: the terminator follows all the same.                             *)
ToUtf16Stops ==
  /\ pc = "encode" /\ ~ LastUnit
  /\ LET d == Utf8Decode(utf8, pos)
     IN d.cp # 0 /\ Utf16Encode(d.cp, RoomTold) = <<>>
  /\ Terminate /\ result' = cap
  /\ UNCHANGED <<source, asked, left, pos, utf8, cap>>
-----------------------------------------------------------------------------
(* The end of a text: the first terminator.  WideCharToMultiByte counts it *)
(* in when it is given -1.                                                 *)
End(s) == CHOOSE k \in DOMAIN s : s[k] = 0 /\ \A j \in 1..(k - 1) : s[j] # 0

Unread ==
  /\ pos = 1 /\ out = <<>> /\ ended = FALSE /\ result = 0 /\ left = asked

UtfIdle == pc = "done" /\ source = <<>> /\ utf8 = <<>> /\ asked = 0 /\ Unread

UtfInit ==
  /\ cap \in Caps
  /\ \/ pc = "decode" /\ source \in Guest /\ utf8 = <<>> /\ asked = 0
     \/ /\ pc = "counted" /\ source \in Guest /\ utf8 = <<>>
        /\ asked \in {End(source)} \cup {n \in Counts : n <= End(source)}
     \/ pc = "encode" /\ source = <<>> /\ utf8 \in Host /\ asked = 0
  /\ Unread

UtfNext ==
  \/ ToUtf8 \/ ToUtf8Counted \/ CountedEnds
  \/ BufferFull \/ ToUtf16Ends \/ ToUtf16 \/ ToUtf16Stops

-----------------------------------------------------------------------------
UtfTypeOK ==
  /\ pc \in {"decode", "counted", "encode", "done"}
  /\ source \in Guest \cup {<<>>} /\ utf8 \in Seq(Byte)
  /\ asked \in Nat /\ left \in 0..asked
  /\ pos \in Nat \ {0} /\ cap \in Caps /\ ended \in BOOLEAN
  /\ out \in Seq(U16) /\ result \in 0..cap

Text(s) == SubSeq(s, 1, End(s))

(* Any text of the guest without 0xFFFF, surrogates included, comes back   *)
(* unchanged when the buffer is one unit longer than the text and its      *)
(* terminator.                                                             *)
RoundTrip ==
  pc = "done" /\ source # <<>> /\ asked \in {0, End(source)} /\ cap > End(source)
    /\ (\A k \in DOMAIN source : source[k] # 65535)
    => out = Text(source)

(* Of the memory behind a text nothing is read, unless 0xFFFF stands right *)
(* before the terminator and takes it for its other half.  A text of which *)
(* the length is given is not read beyond that, unless 0xFFFF is in it.    *)
(* Behind a text of the host nothing is read unless it has the terminator  *)
(* within a sequence.                                                      *)
CutOff(s) == \E k \in 1..(Len(s) - 1) : k + Utf8Decode(s, k).count > Len(s)
ReadsInside ==
  /\ pc = "decode" => pos <= End(source) \/ source[End(source) - 1] = 65535
  /\ pc = "counted" /\ left > 0 =>
       pos <= asked \/ \E k \in 1..asked : source[k] = 65535
  /\ pc = "encode" => pos <= Len(utf8) \/ CutOff(utf8)

(* At most one unit is written past the buffer, and only when it has none  *)
(* at all or a pair has taken its last two units.                          *)
LowHalf(unit) == Within(unit, 56320, 57343)
PairAtEnd == cap >= 2 /\ LowHalf(out[cap - 1])
StaysInBuffer ==
  /\ Len(out) <= cap + 1
  /\ Len(out) > cap => cap = 0 \/ PairAtEnd
=============================================================================
