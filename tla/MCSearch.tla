------------------------------ MODULE MCSearch ------------------------------
(***************************************************************************)
(* Two import paths, five files the two cases of which matter, and native  *)
(* libraries as the build names them and as it does not.                   *)
(***************************************************************************)
EXTENDS Search

Lib(stem, ext) == [dir |-> <<>>, stem |-> stem, ext |-> ext]
In(dir, n) == [n EXCEPT !.dir = <<dir>>]

MCAsked ==
  {Lib("lower", <<>>), Lib("Title", <<"lower">>), Lib("upper", <<"upper">>),
   In("lower", Lib("lower", <<"lower">>))}
MCLooked == {Lib("lower", <<"upper", "lower">>), Lib("Title", <<"lower", "lower">>)}
MCImported ==
  {Lib("lower", <<"lower">>), Lib("upper", <<"lower">>), Lib("upper", <<"upper">>)}
MCFiles ==
  {<<1, Lib("upper", <<"lower">>)>>, <<1, Lib("Title", <<"lower">>)>>,
   <<2, Lib("lower", <<"lower">>)>>, <<2, Lib("lower", <<"upper">>)>>,
   <<1, In("lower", Lib("lower", <<"lower">>))>>}
MCNatives == {<<2, Lib("lower", <<>>)>>, <<1, Lib("lower", <<"lower">>)>>}
=============================================================================
