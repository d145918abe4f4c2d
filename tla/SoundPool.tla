------------------------------ MODULE SoundPool ------------------------------
(***************************************************************************)
(* What the pool of sounds promises, with no list and no link in sight: a  *)
(* sound takes a slot that nobody uses, keeps it until its time has passed *)
(* and gives it back; the slots of the clients are never given to a sound, *)
(* never expire and never come free.  They are all that can be lost.       *)
(* SoundList implements it.                                                *)
(***************************************************************************)

CONSTANT Slots

VARIABLES
  reserved,   \* the slots of the clients
  free,       \* those a new sound may take
  active,     \* those that monsters hear
  over        \* the active ones whose time has passed

vars == <<reserved, free, active, over>>

Init ==
  /\ reserved \in SUBSET Slots
  /\ active = reserved
  /\ free = Slots \ reserved
  /\ over = {}

Insert(s) ==
  /\ UNCHANGED <<over, reserved>>
  /\ free' = free \ {s} /\ active' = active \cup {s}

Expire(s) ==
  /\ s \notin over /\ over' = over \cup {s}
  /\ UNCHANGED <<reserved, free, active>>

Release(s) ==
  /\ s \in over /\ over' = over \ {s}
  /\ free' = free \cup {s} /\ active' = active \ {s}
  /\ UNCHANGED reserved

Lose(S) ==
  /\ UNCHANGED <<over, reserved, free>>
  /\ active' = active \ S

Restart ==
  /\ over' = {}
  /\ active' = reserved /\ free' = Slots \ reserved
  /\ UNCHANGED reserved

Next ==
  \/ \E s \in free : Insert(s)
  \/ \E s \in active \ reserved : Expire(s) \/ Release(s)
  \/ \E S \in SUBSET reserved : Lose(S)
  \/ Restart

Spec == Init /\ [][Next]_vars
=============================================================================
