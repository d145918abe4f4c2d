----------------------------- MODULE MCCTFMatch -----------------------------
(* Six slots and slices of three players: the statistics of a full server  *)
(* take two slices, and the second ends one short of the last slot.        *)
EXTENDS CTFMatch
=============================================================================
