------------------------------- MODULE MCSquads -------------------------------
(* Instances of Squads for TLC. *)
EXTENDS Squads, TLC

(* The monsters are interchangeable. *)
Recruitable == Permutations(Monsters)

=============================================================================
