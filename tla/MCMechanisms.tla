----------------------------- MODULE MCMechanisms -----------------------------
(* A button and a hatch that players touch have to be in together for the  *)
(* gate to open, which has two wings.  Two toggle buttons unlock the second*)
(* wing: a plate to step on, and a valve to use or shoot, which works with *)
(* a delay and only while the gate is asked to be open.                    *)
EXTENDS Mechanisms

MCName   == [d \in Doors |-> IF d = "hatch" THEN None ELSE "gate"]
MCTarget == [m \in Movers |-> CASE m \in {"push", "hatch"} -> "both"
                               [] m \in {"plate", "valve"} -> "either"
                               [] OTHER -> None]
MCOpens  == [s \in Sources |-> IF s = "both" THEN "gate" ELSE None]
MCMaster == [m \in Movers |-> CASE m = "valve" -> "both"
                               [] m = "wing" -> "either"
                               [] OTHER -> None]
MCInputs == [s \in Sources |-> IF s = "both" THEN {"push", "hatch"} ELSE {"plate", "valve"}]
MCLast   == [s \in Sources |-> IF s = "both" THEN "push" ELSE "plate"]
=============================================================================
