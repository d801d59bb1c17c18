------------------------------ MODULE Wsprintf ------------------------------
(***************************************************************************)
(* wsprintfW of user32 (src/src/user32/main.c), one action a turn of its   *)
(* loop: the text up to a percent sign, the doubled signs behind it, and   *)
(* one specifier.                                                          *)
(*                                                                         *)
(* Characters are their code points.  A format ends with 0; nothing is     *)
(* known of the memory after that, nor of arguments that were not passed.  *)
(* The test for flags shifts by a negative number when a character below # *)
(* stands behind a sign, which C leaves undefined: LowFlags are those that *)
(* a build takes for flags.  The x86 shifts by the number modulo 32, and   *)
(* takes 3, 13 and 16 for #, - and 0.                                      *)
(***************************************************************************)
EXTENDS Integers, Sequences, FiniteSets

CONSTANTS
  Formats,   \* formats, the terminator included
  LowFlags,  \* characters below # that pass for flags
  ArgLists   \* what is passed: integers, and strings of WCHAR and of char

Percent == 37
FlagChars == {35, 45, 48}       \* # - 0
Flags == FlagChars \cup LowFlags
IntSpec == {100, 105}           \* d i

Argument == [kind : {"int"}, int : Int] \cup [kind : {"wide", "narrow"}, text : Seq(1..(2^16 - 1))]

ASSUME WsprintfAssumption ==
  /\ \A f \in Formats :
       f \in Seq(0..(2^16 - 1)) /\ f # <<>> /\ \A k \in DOMAIN f : f[k] = 0 <=> k = Len(f)
  /\ LowFlags \subseteq 1..34
  /\ ArgLists \subseteq Seq(Argument)

VARIABLES
  fmt,      \* the format
  args,     \* the arguments passed
  start,    \* the next character of the format
  taken,    \* arguments taken
  str,      \* what was written; its length is what the call returns
  ended     \* "no", "yes", "past" the end of the format, or "lost" in the arguments

wsVars == <<fmt, args, start, taken, str, ended>>

Places(chars) == {k \in DOMAIN fmt : fmt[k] \in chars}
Elsewhere(chars) == DOMAIN fmt \ Places(chars)
First(from, places) ==
  CHOOSE k \in places : k >= from /\ \A j \in places : j >= from => k <= j

(* Digits as C computes them: of a negative number each remainder is 0 or  *)
(* negative, and no sign is written.                                       *)
Abs(n) == IF n < 0 THEN -n ELSE n
Decimal(n) ==
  LET digits[m \in 0..Abs(n)] ==
        (IF m < 10 THEN <<>> ELSE digits[m \div 10])
          \o <<IF n < 0 THEN 48 - (m % 10) ELSE 48 + (m % 10)>>
  IN digits[Abs(n)]

(* A char is signed.                                                       *)
Widened(text) == [k \in DOMAIN text |-> IF text[k] < 128 THEN text[k] ELSE text[k] + 65280]

Converted(spec, arg) ==
  CASE spec = 115 -> arg.text
    [] spec = 83 -> Widened(arg.text)
    [] spec \in IntSpec -> Decimal(arg.int)

(* Whether the guest passed an argument that the specifier can take.       *)
Kind(spec) ==
  CASE spec = 115 -> "wide" [] spec = 83 -> "narrow" [] spec \in IntSpec -> "int" [] OTHER -> "none"
Passed(spec) == taken < Len(args) /\ args[taken + 1].kind = Kind(spec)

TextEnd == First(start, Places({Percent, 0}))
Doubled_Once(from) == IF fmt[from] = Percent /\ fmt[from + 1] = Percent THEN 1 ELSE 0
Doubled(from) == (First(from, Elsewhere({Percent})) - from) \div 2

(* After the doubled signs the next character is taken for the sign of a   *)
(* specifier, whatever it is.                                              *)
Turn ==
  /\ ended = "no"
  /\ LET pairs == Doubled(TextEnd)
         text == SubSeq(fmt, start, TextEnd + pairs - 1)
         sign == TextEnd + 2 * pairs
         spec == First(sign + 1, Elsewhere(Flags))
     IN IF fmt[sign] = 0
        THEN str' = str \o text /\ ended' = "yes" /\ UNCHANGED <<start, taken>>
        ELSE /\ start' = spec + 1
             /\ IF Kind(fmt[spec]) = "none"
                THEN /\ str' = str \o text
                     /\ ended' = IF fmt[spec] = 0 THEN "past" ELSE "no"
                     /\ UNCHANGED taken
                ELSE IF Passed(fmt[spec])
                THEN /\ str' = str \o text \o Converted(fmt[spec], args[taken + 1])
                     /\ taken' = taken + 1 /\ UNCHANGED ended
                ELSE ended' = "lost" /\ str' = str \o text /\ UNCHANGED taken
  /\ UNCHANGED <<fmt, args>>

WsInit ==
  /\ fmt \in Formats /\ args \in ArgLists
  /\ start = 1 /\ taken = 0 /\ str = <<>> /\ ended = "no"

WsSpec == WsInit /\ [][Turn]_wsVars
-----------------------------------------------------------------------------
(* The reference.  A specifier starts at the last of an odd number of      *)
(* signs, goes over its flags, and takes the next argument.                *)
Signs ==
  {k \in DOMAIN fmt :
     /\ fmt[k] = Percent /\ fmt[k + 1] # Percent
     /\ \E j \in 1..k :
          /\ (k - j) % 2 = 0
          /\ j > 1 => fmt[j - 1] # Percent
          /\ \A i \in j..k : fmt[i] = Percent}
SpecAt(k) == First(k + 1, Elsewhere(FlagChars))
Nth(k) == Cardinality({j \in Signs : j <= k})

(* What should be written: text, doubled signs and specifiers from left to *)
(* right.                                                                  *)
Sign(n) == IF n < 0 THEN <<45>> ELSE <<>>
Shown(arg) == IF arg.kind = "int" THEN Sign(arg.int) \o Decimal(Abs(arg.int)) ELSE arg.text

Wanted ==
  LET rest[k \in 1..(Len(fmt) + 1)] ==
        IF k > Len(fmt) \/ fmt[k] = 0 THEN <<>>
        ELSE IF fmt[k] # Percent THEN <<fmt[k]>> \o rest[k + 1]
        ELSE IF fmt[k + 1] = Percent THEN <<Percent>> \o rest[k + 2]
        ELSE Shown(args[Nth(k)]) \o rest[SpecAt(k) + 1]
  IN rest[1]

(* A call the function is made for: it knows the specifiers, and what was  *)
(* passed fits them.                                                       *)
Fits ==
  /\ Cardinality(Signs) = Len(args)
  /\ \A k \in Signs : Kind(fmt[SpecAt(k)]) = args[Nth(k)].kind

(* A doubled sign is followed by another sign, or by the end.              *)
PairsStand ==
  \A k \in DOMAIN fmt :
    fmt[k] = Percent /\ k \notin Signs /\ fmt[k + 1] # Percent => fmt[k + 1] = 0

PlainArgs ==
  \A n \in DOMAIN args :
    IF args[n].kind = "int" THEN args[n].int >= 0
    ELSE args[n].kind = "narrow" => \A k \in DOMAIN args[n].text : args[n].text[k] < 128

(* Such a call writes what it should and takes every argument, if no       *)
(* number is negative, no char is beyond ASCII and no doubled sign stands  *)
(* before text: that loses the next character and may take the one after   *)
(* it for a specifier, the arguments for another's, or the end for text.   *)
WsprintfExact ==
  Fits /\ PairsStand /\ PlainArgs =>
    /\ ended \notin {"past", "lost"}
    /\ ended = "yes" => str = Wanted /\ taken = Len(args)
=============================================================================
