---- MODULE MCCTFTeams ----
(* Two players are enough for one to change the balance behind the other's *)
(* back, and for one to be there before the other.                         *)
EXTENDS CTFTeams
====
