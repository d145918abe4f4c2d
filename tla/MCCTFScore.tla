------------------------------ MODULE MCCTFScore ------------------------------
(* Instances of CTFScore for TLC. *)
EXTENDS CTFScore, TLC

(* The slots are interchangeable. *)
Slots == Permutations(Players)

=============================================================================
