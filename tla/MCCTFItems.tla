----------------------------- MODULE MCCTFItems -----------------------------
(* Two players and three items.  The first two are of one class, the first *)
(* of them for one team only, so that a handler can take the wrong one;    *)
(* the third is the only one of its class.                                 *)
EXTENDS CTFItems

TwinClasses   == <<"longjump", "longjump", "backpack">>
FirstForTeam1 == <<1, 0, 0>>
=============================================================================
