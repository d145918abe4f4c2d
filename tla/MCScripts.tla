----------------------------- MODULE MCScripts -----------------------------
(* Two scripts of one name walk a talker and a guard into place; a third    *)
(* takes the guard out of any state.  The talker follows the player, and a  *)
(* barnacle is in its way; the guard has enemies.                           *)
EXTENDS Scripts

MCName == [s \in Scripts |-> IF s = "ambush" THEN "ambush" ELSE "meeting"]
MCMove == [s \in Scripts |-> IF s = "ambush" THEN "instant" ELSE "walk"]
MCCast == [s \in Scripts |-> IF s = "speak" THEN {"talker"} ELSE {"guard"}]
=============================================================================
