----------------------------- MODULE GuestPath -----------------------------
(***************************************************************************)
(* The names of files between guest and host: the conversions of Utf done  *)
(* on the strings of StringBuffer, as kernel32 does them.                  *)
(*                                                                         *)
(* A scan (FindFirstFileW, FindNextFileW) reports what the host calls a    *)
(* file, with "C:\" before it if the guest's pattern had that, and with    *)
(* backslashes; the guest hands the name to CreateFileW, DeleteFileW or    *)
(* any other call that takes a path, which turns it back.                  *)
(***************************************************************************)
EXTENDS Utf, StringBuffer

CONSTANTS
  Path,      \* paths of the host, in UTF-8, without terminator
  PathCaps   \* sizes of the buffer for a path; 260 in the code

ASSUME GuestPathAssumption ==
  Path \subseteq Seq(1..255) \ {<<>>} /\ PathCaps \subseteq Nat \ {0, 1}

VARIABLES
  stage,     \* the next call: see Convert, Report and Reuse; or "strings"
  host,      \* what the host calls the file; <<>> when no scan is modelled
  isC        \* is_c of the scan

vars == <<utfVars, stringVars, stage, host, isC>>

Drive == <<67, 58, 92>>   \* C:\
Slash == 47
Backslash == 92
-----------------------------------------------------------------------------
(* utf16_to_str and utf16_to_str_with_len append each character they       *)
(* decode to a string that starts empty.                                   *)
Decode ==
  /\ stage \in {"convert", "back"}
  /\ \/ /\ ToUtf8 /\ pc' = "decode"
        /\ StringAppend(SubSeq(utf8', Len(utf8) + 1, Len(utf8')))
     \/ ToUtf8 /\ pc' # "decode" /\ UNCHANGED stringVars
     \/ /\ ToUtf8Counted
        /\ StringAppend(SubSeq(utf8', Len(utf8) + 1, Len(utf8')))
     \/ CountedEnds /\ UNCHANGED stringVars
  /\ UNCHANGED <<stage, host, isC>>

Encode ==
  /\ stage = "convert"
  /\ BufferFull \/ ToUtf16Ends \/ ToUtf16 \/ ToUtf16Stops
  /\ UNCHANGED <<stringVars, stage, host, isC>>
-----------------------------------------------------------------------------
(* What a scan reports of a file.                                          *)
ReportNew ==
  /\ stage = "new"
  /\ NewString(host)
  /\ stage' = IF isC THEN "prefix" ELSE "backslashes"
  /\ UNCHANGED <<utfVars, host, isC>>

ReportPrefix ==
  /\ stage = "prefix" /\ stage' = "backslashes"
  /\ StringPrepend(Drive)
  /\ UNCHANGED <<utfVars, host, isC>>

(* str_to_utf16 reads the characters up to their terminator.               *)
ReportBackslashes ==
  /\ stage = "backslashes" /\ stage' = "convert"
  /\ ReplaceAllC(Slash, Backslash)
  /\ pc' = "encode" /\ utf8' = [c \in 1..(len + 1) |-> cells'[c - 1]]
  /\ UNCHANGED <<source, asked, left, pos, cap, out, ended, result, host, isC>>
-----------------------------------------------------------------------------
(* The guest opens what it was told of.                                    *)
Reuse ==
  /\ stage = "convert" /\ host # <<>> /\ pc = "done"
  /\ stage' = "back" /\ pc' = "decode"
  /\ source' = Append(out, 0) /\ pos' = 1 /\ utf8' = <<>>
  /\ NewString(<<>>)
  /\ UNCHANGED <<asked, left, cap, out, ended, result, host, isC>>

Strip ==
  /\ stage = "back" /\ pc = "encode" /\ stage' = "slashes"
  /\ IF StartsWith(Drive) THEN StripPrefix(Drive) ELSE UNCHANGED stringVars
  /\ UNCHANGED <<utfVars, host, isC>>

Slashes ==
  /\ stage = "slashes" /\ stage' = "opened"
  /\ ReplaceAllC(Backslash, Slash)
  /\ UNCHANGED <<utfVars, host, isC>>
-----------------------------------------------------------------------------
(* Three kinds of behaviours: a text of the guest or the host is           *)
(* converted; a path is reported and used; or the operations on a string   *)
(* are called in any order.                                                *)
Init ==
  \/ /\ stage = "convert" /\ UtfInit
     /\ StringIs(SubSeq(utf8, 1, Len(utf8) - 1))
     /\ host = <<>> /\ isC = FALSE
  \/ /\ stage = "new" /\ host \in Path /\ isC \in BOOLEAN
     /\ UtfIdle /\ cap \in PathCaps
     /\ StringIs(<<>>)
  \/ /\ stage = "strings" /\ host = <<>> /\ isC = FALSE
     /\ UtfIdle /\ cap = 0
     /\ StringInit

Strings == stage = "strings" /\ StringNext /\ UNCHANGED <<utfVars, stage, host, isC>>

Ended == stage = "opened" \/ (stage = "convert" /\ host = <<>> /\ pc = "done")

Next ==
  \/ Decode \/ Encode
  \/ ReportNew \/ ReportPrefix \/ ReportBackslashes
  \/ Reuse \/ Strip \/ Slashes
  \/ Strings
  \/ Ended /\ UNCHANGED vars

Spec == Init /\ [][Next]_vars
-----------------------------------------------------------------------------
TypeOK ==
  /\ stage \in {"convert", "new", "prefix", "backslashes", "back", "slashes", "opened", "strings"}
  /\ host \in Path \cup {<<>>} /\ isC \in BOOLEAN
  /\ StringTypeOK

(* Where the characters of s start; their code points, 0 for a byte that   *)
(* starts none; and whether each is spelled as it should be.               *)
Start(s) ==
  LET start[n \in 1..Len(s)] ==
        IF n = 1 THEN 1 ELSE start[n - 1] + Utf8Decode(s, start[n - 1]).count
  IN start
Starts(s) == {Start(s)[n] : n \in DOMAIN s} \cap DOMAIN s
Points(s) == {Utf8Decode(s, k).cp : k \in Starts(s)}
SpelledWell(s) ==
  \A k \in Starts(s) :
    LET d == Utf8Decode(s, k)
        spelled == Utf8Encode(d.cp)
    IN Len(spelled) = d.count /\ \A j \in DOMAIN spelled : Unit(s, k + j - 1) = spelled[j]

Tellable == (1..(2^16 - 2)) \ {Backslash}
Sound(s) == SpelledWell(s) /\ Points(s) \subseteq Tellable

LooksLikeC == ~ isC /\ Len(host) >= 3 /\ SubSeq(host, 1, 3) = <<67, 58, Slash>>

(* A path that a scan reports leads its guest back to the same file,       *)
(* unless it did not fit; is not sound UTF-8; has a backslash or a         *)
(* character from U+FFFF on, which is written as a pair with the low half  *)
(* first and read back as two characters, or swallows its neighbour; or    *)
(* begins like a path of drive C where none was asked for.                 *)
PathKept ==
  stage = "opened" /\ result < cap /\ Sound(host) /\ ~ LooksLikeC
    => Held = host /\ Terminated

(* Text survives the way there and back, from either side.                 *)
RoundTrips == RoundTrip /\ PathKept
=============================================================================
