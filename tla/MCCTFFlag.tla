------------------------------ MODULE MCCTFFlag ------------------------------
(* The instance of CTFFlag for TLC.  Its client slots are interchangeable, *)
(* but symmetry is no use to the liveness properties.                      *)
EXTENDS CTFFlag
=============================================================================
