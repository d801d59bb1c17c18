------------------------------ MODULE MCLoader ------------------------------
(***************************************************************************)
(* The worlds Loader is checked on.                                        *)
(***************************************************************************)
EXTENDS Loader, TLC

CONSTANT MaxInsts   \* bound of the instance numbers the table may hold

N(sym) == [ord |-> FALSE, sym |-> sym]
O(sym) == [ord |-> TRUE, sym |-> sym]
From(stem, reqs) == [lib |-> Dll(stem), reqs |-> reqs]
FromBare(stem, reqs) == [lib |-> [stem |-> stem, ext |-> "bare"], reqs |-> reqs]
PE(imports) ==
  [verdict |-> "SUCCESS", imports |-> imports, exports |-> {N("f"), O("1")},
   tls |-> NoTls, entry |-> TRUE]
Tls(n, image) == [image EXCEPT !.tls = n]
Bad(verdict, image) == [image EXCEPT !.verdict = verdict]

Natives == [kernel32 |-> {N("k")}, msvcrt |-> {N("m"), O("1")}]
World(img) == [img |-> img, nat |-> Natives, traps |-> {}]
Trapping(traps, w) == [w EXCEPT !.traps = traps]
WithNative(stem, exports, w) == [w EXCEPT !.nat = (stem :> exports) @@ @]
-----------------------------------------------------------------------------
K == From("kernel32", <<N("k")>>)
M == From("msvcrt", <<N("m"), O("1")>>)

(* Programs that should run: a plain one, one that shares a DLL between    *)
(* two others, a chain with TLS, and the exe's own TLS callbacks.          *)
Plain == World([exe |-> PE(<<K, M>>)])
Diamond ==
  World([exe |-> PE(<<K, From("a", <<N("f")>>), From("b", <<N("f"), O("1")>>)>>),
         a |-> PE(<<From("c", <<N("f")>>)>>), b |-> PE(<<From("c", <<N("f")>>), M>>),
         c |-> PE(<<>>)])
Chain ==
  World([exe |-> Tls(2, PE(<<From("a", <<N("f"), O("1")>>), K>>)),
         a |-> Tls(0, PE(<<From("b", <<N("f")>>), K>>)), b |-> Tls(0, PE(<<>>))])

(* Four TLS slots for three files: c is mapped for a and again for b.      *)
Slots ==
  World([exe |-> PE(<<From("a", <<N("f")>>), From("b", <<N("f")>>)>>),
         a |-> Tls(0, PE(<<From("c", <<N("f")>>)>>)),
         b |-> Tls(0, PE(<<From("c", <<N("f")>>)>>)), c |-> Tls(0, PE(<<>>))])
GoodWorlds == {Plain, Diamond, Chain, Slots}
-----------------------------------------------------------------------------
(* Programs with one thing wrong each.                                     *)
Cycle ==
  World([exe |-> PE(<<From("a", <<N("f")>>)>>), a |-> PE(<<From("b", <<N("f")>>)>>),
         b |-> PE(<<From("a", <<N("f")>>)>>)])
BareKernel ==
  World([exe |-> PE(<<FromBare("kernel32", <<N("k")>>), From("kernel32", <<N("k")>>)>>)])
BareOther ==
  WithNative("b", {N("f")},
    World([exe |-> PE(<<FromBare("b", <<N("f")>>), From("b", <<N("f")>>)>>)]))
(* a.dll lacks a symbol of b.dll, and there is a native a as well: names   *)
(* of a come from the PE, ordinals from the native library.                *)
Mixed ==
  WithNative("a", {N("f"), O("2")},
    World([exe |-> PE(<<From("a", <<N("f"), O("2")>>), From("a", <<O("3"), N("f")>>)>>),
           a |-> PE(<<From("b", <<N("g"), O("9")>>)>>), b |-> PE(<<>>)]))
PeKernel == World([exe |-> PE(<<K>>), kernel32 |-> PE(<<>>)])
PeMsvcrt == World([exe |-> PE(<<M>>), msvcrt |-> PE(<<>>)])
Missing1 == World([exe |-> PE(<<From("a", <<N("f")>>), From("c", <<>>)>>),
                   a |-> PE(<<From("c", <<N("f")>>)>>)])
NoOrdinal == World([exe |-> PE(<<From("a", <<O("7")>>)>>), a |-> PE(<<>>)])
Callbacks ==
  World([exe |-> PE(<<From("a", <<N("f")>>)>>), a |-> Tls(1, PE(<<K>>))])
NullCallbacks == World([exe |-> Tls(NoCallbacks, PE(<<>>))])
NoEntry == World([exe |-> PE(<<From("a", <<N("f")>>)>>),
                  a |-> [PE(<<>>) EXCEPT !.entry = FALSE]])
NoExe == World([a |-> PE(<<>>)])
DllRefused(v) == World([exe |-> PE(<<K>>), a |-> Bad(v, PE(<<>>))])
ExeRefused(v) == World([exe |-> Bad(v, PE(<<K>>))])
Verdicts == {"BAD_FORMAT", "BAD_ARCH", "NO_MEM", "BASE_TAKEN"}

BadWorlds ==
  {Cycle, BareKernel, BareOther, Mixed, PeKernel, PeMsvcrt, Missing1, NoOrdinal,
   Callbacks, NullCallbacks, NoEntry, NoExe,
   Trapping({"mapper"}, DllRefused("BASE_TAKEN")),
   Trapping({"mapper"}, ExeRefused("BASE_TAKEN")),
   Trapping({"execute", "mapper"}, Plain)}
  \cup {DllRefused(v) : v \in Verdicts} \cup {ExeRefused(v) : v \in Verdicts}
AllWorlds == GoodWorlds \cup BadWorlds

(* The two builds on an ordinary host, given each other's executables.     *)
OtherArchWorlds == {Trapping({"execute", "mapper"}, ExeRefused("BAD_ARCH"))}
-----------------------------------------------------------------------------
(* The table of libraries, of a size that TLC can enumerate.               *)
Table ==
  INSTANCE LibTable WITH Name <- ModName, Handle <- 0..MaxInsts, held <- Held

(* The loader uses the table of libraries by its operations only, and      *)
(* every pointer it holds was handed out by them.                          *)
UsesTable == Table!TableSpec
=============================================================================
