---------------------------- MODULE MCGuestPath ----------------------------
(***************************************************************************)
(* Texts of up to three characters from both sides of every boundary of    *)
(* the two encodings, buffers from none to one larger than any text; paths *)
(* of up to three characters, and longer ones that begin with a drive; and *)
(* strings of up to MaxText bytes from a smallest allocation of two.       *)
(***************************************************************************)
EXTENDS GuestPath

CONSTANT MaxText   \* bound of the length of a string

Units16 == {65, 127, 128, 2047, 2048, 55357, 56832, 65534, 65535}
Chars8 ==
  {<<65>>, <<194, 128>>, <<224, 160, 128>>, <<239, 191, 191>>, <<240, 159, 152, 128>>,
   <<244, 143, 191, 191>>, <<247, 128, 128, 128>>, <<128>>, <<192, 129>>, <<194, 65>>,
   <<240>>}
PathChars == {<<Slash>>, <<Backslash>>} \cup (Chars8 \ {<<224, 160, 128>>, <<244, 143, 191, 191>>})

MCGuest ==
  {<<0, 0>>} \cup {<<a, 0, 0>> : a \in Units16}
    \cup {<<a, b, 0, 0>> : a, b \in Units16}
    \cup {<<a, b, c, 0, 0>> : a, b, c \in Units16}
MCHost ==
  {<<0>>} \cup {a \o <<0>> : a \in Chars8} \cup {a \o b \o <<0>> : a, b \in Chars8}
    \cup {a \o b \o c \o <<0>> : a, b, c \in Chars8}
Short == PathChars \cup {a \o b : a, b \in PathChars} \cup {a \o b \o c : a, b, c \in PathChars}
MCPath == Short \cup {<<67, 58>> \o s : s \in Short}
MCTexts == {<<>>, <<97>>, <<98>>, <<97, 98>>, <<98, 97, 97>>}

MCNext == Next /\ (stage = "strings" => Len(text') <= MaxText)

MCSpec == Init /\ [][MCNext]_vars
=============================================================================
