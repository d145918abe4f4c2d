---------------------------- MODULE FlagPossession ----------------------------
(***************************************************************************)
(* What the flags of a CTF match promise, with no entity, no callback and  *)
(* no item bit in sight: a flag is at its base, on the ground, or held by  *)
(* one player who is in the match; a player holds one flag at most; a held *)
(* flag scores only while the other one is at its base; and a flag on the  *)
(* ground does not stay there.  CTFFlag implements it.                     *)
(***************************************************************************)
EXTENDS Integers, FiniteSets

CONSTANTS Players, Flags, Base, Ground

VARIABLES
  over,     \* the match is over, and with it most of the promises
  inMatch,  \* the players in a team
  holder    \* where each flag is: a player, Base or Ground

vars == <<over, inMatch, holder>>

HeldBy(p) == {f \in Flags : holder[f] = p}
Held      == {f \in Flags : holder[f] \in Players}

Init ==
  /\ over    = FALSE
  /\ inMatch = {}
  /\ holder  = [f \in Flags |-> Base]

Enter(p) ==
  /\ inMatch' = inMatch \cup {p}
  /\ UNCHANGED <<over, holder>>

(* A player who leaves the match leaves its flag behind. *)
Leave(p) ==
  /\ inMatch' = inMatch \ {p}
  /\ holder'  = [f \in Flags |-> IF f \in HeldBy(p) THEN Ground ELSE holder[f]]
  /\ UNCHANGED over

Take(f, p) ==
  /\ p \in inMatch /\ HeldBy(p) = {}
  /\ holder[f] \in {Base, Ground}
  /\ holder' = [holder EXCEPT ![f] = p]
  /\ UNCHANGED <<over, inMatch>>

Drop(f) ==
  /\ f \in Held
  /\ holder' = [holder EXCEPT ![f] = Ground]
  /\ UNCHANGED <<over, inMatch>>

Return(f) ==
  /\ holder[f] = Ground
  /\ holder' = [holder EXCEPT ![f] = Base]
  /\ UNCHANGED <<over, inMatch>>

Capture(f) ==
  /\ f \in Held
  /\ \A g \in Flags \ {f} : holder[g] = Base
  /\ holder' = [holder EXCEPT ![f] = Base]
  /\ UNCHANGED <<over, inMatch>>

(* With at most one player left the match starts over. *)
StartOver ==
  /\ Cardinality(inMatch) <= 1
  /\ holder' = [f \in Flags |-> IF f \in Held THEN Base ELSE holder[f]]
  /\ UNCHANGED <<over, inMatch>>

End == over' = TRUE /\ UNCHANGED <<inMatch, holder>>

(* After the end the players may do as they like, and a flag may be taken  *)
(* from or sent home from whoever has it.                                  *)
Aftermath ==
  /\ over /\ UNCHANGED over
  /\ inMatch' \in SUBSET Players
  /\ holder'  \in [Flags -> Players \cup {Base, Ground}]

Next ==
  \/ \E p \in Players : Enter(p) \/ Leave(p) \/ \E f \in Flags : Take(f, p)
  \/ \E f \in Flags : Drop(f) \/ Return(f) \/ Capture(f)
  \/ StartOver \/ End \/ Aftermath

Spec ==
  /\ Init /\ [][Next]_vars
  /\ \A f \in Flags : WF_vars(Return(f))

=============================================================================
