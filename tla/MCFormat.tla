------------------------------ MODULE MCFormat ------------------------------
(***************************************************************************)
(* Formats of printf with up to two directives out of some sixty, with     *)
(* text before, between and after them, ints of 256 values and arguments   *)
(* from both sides of every boundary; and formats of wsprintfW of up to    *)
(* MaxFormat characters.  A behaviour is a call of one of the two.         *)
(***************************************************************************)
EXTENDS Wsprintf, Printf

CONSTANT MaxFormat   \* bound of the length of a format of wsprintfW

No == [from |-> "none"]
N(k) == [from |-> "digits", n |-> k]
Arg(p) == [from |-> "arg", pos |-> p]
D(p, fl, w, pr, l, c) == [pos |-> p, flags |-> fl, width |-> w, prec |-> pr, length |-> l, conv |-> c]

Lengths == {<<>>, <<"l">>, <<"l", "l">>, <<"h">>, <<"h", "h">>, <<"L">>, <<"z">>, <<"j">>, <<"l", "h">>}
Plain ==
  {D(InOrder, {}, No, No, l, c) : l \in Lengths, c \in {"d", "u", "n"}}
    \cup {D(InOrder, {}, No, No, <<>>, c) : c \in {"i", "o", "x", "X", "p", "c", "s", "?"}}
Shaped ==
  {D(InOrder, fl, w, pr, <<>>, "d") :
     fl \in {{}, {"-"}, {"0"}, {"0", "-"}, {"+"}, {" ", "+"}}, w \in {No, N(5), Arg(InOrder)},
     pr \in {No, N(0), N(3), Arg(InOrder)}}
    \cup {D(InOrder, fl, N(7), pr, <<>>, c) :
            fl \in {{"#"}, {"#", "0"}, {"0"}, {"-"}}, pr \in {No, N(4)}, c \in {"o", "x", "X", "p", "c", "s"}}
    \cup {D(InOrder, {"#"}, No, pr, <<>>, "o") : pr \in {N(0), N(3)}}
Wide ==
  {D(InOrder, {}, N(w), No, <<>>, c) : w \in {100, 127, 128}, c \in {"d", "s"}}
    \cup {D(InOrder, {}, No, N(p), <<>>, c) : p \in {126, 127, 128}, c \in {"d", "s"}}
AtPos ==
  {D(p, {}, No, No, <<>>, c) : p \in 0..3, c \in {"d", "s", "n"}}
    \cup {D(p, {}, w, pr, <<"h">>, "d") : p \in {InOrder, 1, 2}, w \in {No, Arg(1), Arg(3), Arg(InOrder)},
                                  pr \in {No, Arg(2), Arg(InOrder)}}
    \cup {D(1, {}, No, No, <<"l", "l">>, "d")}

Text == [text |-> <<120>>]
Alone == Plain \cup Shaped \cup Wide \cup AtPos
Some1 == Plain \cup Wide \cup AtPos
MCForms ==
  {<<d>> : d \in Alone} \cup {<<Text, d, Text>> : d \in Alone}
    \cup {<<a, b>> : a, b \in Some1}
    \cup {<<Text>>, <<[text |-> Times(120, 128)]>>, <<[text |-> Times(120, 120)], D(InOrder, {}, N(8), No, <<>>, "d")>>}
    \cup {<<a, b, c>> : a, b, c \in AtPos \cap {D(p, {}, No, No, <<>>, k) : p \in 1..3, k \in {"d", "s"}}}
MCSlots == {<<1, 2, 5>>, <<2, 3, 1>>, <<251, 4, 65535, 1>>, <<0, 255, 200>>, <<32768, 128, 0>>, <<7>>}
MCStrings == [p \in {1, 2} |-> IF p = 1 THEN <<97, 98>> ELSE <<97, 98, 97, 98, 97>>]

WsChars == {13, 32, 97, 37, 115, 83, 100, 45, 53}
MCFormats == {f \o <<0>> : f \in UNION {[1..n -> WsChars] : n \in 0..MaxFormat}}
Text1 == [kind |-> "wide", text |-> <<98, 1000>>]
Text2 == [kind |-> "narrow", text |-> <<98>>]
Text3 == [kind |-> "narrow", text |-> <<200>>]
Num(n) == [kind |-> "int", int |-> n]
MCArgLists ==
  {<<>>, <<Text1>>, <<Text2>>, <<Text3>>, <<Num(0)>>, <<Num(123)>>, <<Num(-12)>>,
   <<Num(10), Text1>>, <<Text2, Text1>>}

NoPrintf ==
  /\ form = <<>> /\ slots = <<>> /\ pass = "none" /\ item = 1 /\ l10n = FALSE
  /\ nlType = <<>> /\ nlArg = <<>> /\ used = 0 /\ cnt = 0 /\ out = <<>> /\ stores = <<>> /\ ret = 0
NoWsprintf == fmt = <<0>> /\ args = <<>> /\ start = 1 /\ taken = 0 /\ str = <<>> /\ ended = "none"

Init == (WsInit /\ NoPrintf) \/ (PrintfInit /\ NoWsprintf)
Returned ==
  /\ ended # "no" /\ pass \notin {"types", "print"}
  /\ UNCHANGED <<wsVars, printfVars>>
Next ==
  \/ Turn /\ UNCHANGED printfVars
  \/ PrintfNext /\ UNCHANGED wsVars
  \/ Returned

MCSpec == Init /\ [][Next]_<<wsVars, printfVars>>
=============================================================================
