--------------------------- MODULE Mechanisms_proofs ---------------------------
(***************************************************************************)
(* Theorems about Mechanisms, for any buttons, doors and multisources and  *)
(* any wiring of them: the inputs of a multisource tell where its movers   *)
(* are, and a door that needs all of them leaves its place only when all   *)
(* are in.                                                                 *)
(*                                                                         *)
(* A multisource only ever flips an input, so the first needs that movers  *)
(* arrive at each end in turn: each pending think fits the state the mover *)
(* is in (ThinksFit), a door that may be touched is not on its way         *)
(* (TouchFits), and nothing but a mover with a delay leaves uses pending   *)
(* (PendingFits).  Conversely the state of a mover that has a way to go    *)
(* has the think that takes it there (NothingIsStranded).                  *)
(***************************************************************************)
EXTENDS Mechanisms, TLAPS

States == {"BOTTOM", "UP", "TOP", "DOWN"}
ButtonThinks == {"none", "TriggerAndWait", "ButtonReturn", "ButtonBackHome"}
DoorThinks == {"none", "DoorHitTop", "DoorGoDown", "DoorHitBottom"}

Fits(m, t, th) ==
  /\ m \in Buttons => th \in ButtonThinks
  /\ m \in Doors => th \in DoorThinks
  /\ th \in {"TriggerAndWait", "DoorHitTop"} => t = "UP"
  /\ th \in {"ButtonReturn", "DoorGoDown"} => t = "TOP"
  /\ th = "DoorGoDown" => m \notin Toggle
  /\ th \in {"ButtonBackHome", "DoorHitBottom"} => t = "DOWN"
ThinksFit == \A m \in Movers : Fits(m, toggle[m], think[m])
TouchFits ==
  \A d \in Doors : d \in touch =>
    /\ d \notin UseOnly
    /\ Name[d] = None => toggle[d] = "BOTTOM" \/ (toggle[d] = "TOP" /\ d \in Toggle)
PendingFits == \A m \in Movers : pending[m] > 0 => m \in Delayed
IInv == TypeOK /\ ThinksFit /\ TouchFits /\ PendingFits /\ InputsTellMovers

(* The states in which a mover counts as in.                               *)
InState(t) == t \in {"TOP", "DOWN"}

-----------------------------------------------------------------------------
(* Doors that are used are in as much as before, and think what fits.      *)
LEMMA ActivateFacts ==
  ASSUME NEW S \in SUBSET Doors, NEW st \in [Movers -> States],
         NEW th \in [Movers -> ButtonThinks \cup DoorThinks],
         \A x \in S : st[x] = "BOTTOM" \/ (st[x] = "TOP" /\ x \in Toggle),
         \A x \in Movers : Fits(x, st[x], th[x]),
         DoorActivate(S, st, th)
  PROVE  /\ toggle' \in [Movers -> States]
         /\ think' \in [Movers -> ButtonThinks \cup DoorThinks]
         /\ ThinksFit'
         /\ \A x \in Movers : InState(toggle'[x]) <=> InState(st[x])
         /\ \A x \in Movers : x \notin S => toggle'[x] = st[x]
<1>0. S \subseteq Movers /\ Buttons \cap Doors = {}
  BY MechanismsAssumption DEF Movers
<1>1. \A x \in Movers : toggle'[x] = IF x \notin S THEN st[x]
                                     ELSE IF st[x] = "BOTTOM" THEN "UP" ELSE "DOWN"
  BY DEF DoorActivate
<1>2. \A x \in Movers : think'[x] = IF x \notin S THEN th[x]
                                    ELSE IF st[x] = "BOTTOM" THEN "DoorHitTop" ELSE "DoorHitBottom"
  BY DEF DoorActivate
<1>3. toggle' \in [Movers -> States]
  BY DEF DoorActivate, States
<1>4. think' \in [Movers -> ButtonThinks \cup DoorThinks]
  BY DEF DoorActivate, DoorThinks
<1>5. ThinksFit'
  <2>1. ASSUME NEW x \in Movers PROVE Fits(x, toggle'[x], think'[x])
    BY <1>0, <1>1, <1>2, <2>1 DEF Fits, DoorThinks
  <2> QED BY <2>1 DEF ThinksFit
<1>6. \A x \in Movers : InState(toggle'[x]) <=> InState(st[x])
  BY <1>1 DEF InState
<1> QED BY <1>1, <1>3, <1>4, <1>5, <1>6

(* What Started returns can be started.                                    *)
LEMMA StartedFacts ==
  ASSUME NEW D \in SUBSET Doors, NEW st, NEW ins, NEW firing
  PROVE  /\ Started(D, st, ins, firing) \subseteq D
         /\ Started(D, st, ins, firing) \in SUBSET Doors
         /\ \A x \in Started(D, st, ins, firing) :
              st[x] = "BOTTOM" \/ (st[x] = "TOP" /\ x \in Toggle)
BY DEF Started

LEMMA UsedFacts ==
  ASSUME NEW m, NEW caller, NEW n
  PROVE  /\ DoorsUsed(m, caller, n) \in SUBSET Doors
         /\ \A d \in DoorsUsed(m, caller, n) : Name[d] # None
BY DEF DoorsUsed, Named

(* The one input that a use flips.                                         *)
LEMMA InputsFacts ==
  ASSUME TypeOK, NEW m \in Movers, NEW caller, NEW n
  PROVE  /\ InputsAfter(m, caller, n) \in [Sources -> SUBSET Movers]
         /\ \A s \in Sources : s # Target[m] => InputsAfter(m, caller, n)[s] = on[s]
         /\ Target[m] \in Sources /\ caller \in Inputs[Target[m]] /\ n = 1 =>
              \A x : x \in InputsAfter(m, caller, n)[Target[m]] <=>
                       IF x = caller THEN x \notin on[Target[m]] ELSE x \in on[Target[m]]
         /\ Target[m] \in Sources /\ n = 1 =>
              InputsAfter(m, caller, n)[Target[m]] = Flip(Target[m], caller)
<1>1. ASSUME Target[m] \in Sources PROVE Flip(Target[m], caller) \in SUBSET Movers
  <2>1. Last[Target[m]] \in Movers /\ Inputs[Target[m]] \in SUBSET Movers
    BY <1>1, MechanismsAssumption
  <2>2. Input(Target[m], caller) \in Movers
    BY <2>1 DEF Input
  <2>3. on[Target[m]] \in SUBSET Movers
    BY <1>1 DEF TypeOK
  <2> QED BY <2>2, <2>3 DEF Flip
<1>2. on \in [Sources -> SUBSET Movers]
  BY DEF TypeOK
<1>3. InputsAfter(m, caller, n) \in [Sources -> SUBSET Movers]
  BY <1>1, <1>2 DEF InputsAfter
<1>4. \A s \in Sources : s # Target[m] => InputsAfter(m, caller, n)[s] = on[s]
  BY <1>2 DEF InputsAfter
<1>5. Target[m] \in Sources /\ n = 1 =>
         InputsAfter(m, caller, n)[Target[m]] = Flip(Target[m], caller)
  BY <1>2 DEF InputsAfter
<1>6. Target[m] \in Sources /\ caller \in Inputs[Target[m]] =>
         \A x : x \in Flip(Target[m], caller) <=>
                  IF x = caller THEN x \notin on[Target[m]] ELSE x \in on[Target[m]]
  BY DEF Flip, Input
<1> QED BY <1>3, <1>4, <1>5, <1>6

(* A door that only source s opens and that starts is opened by s, all of  *)
(* whose inputs are on.                                                    *)
OpenedByAll ==
  \A d \in Doors, s \in Sources :
    OnlyOpens(s, d) /\ toggle[d] = "BOTTOM" /\ toggle'[d] # "BOTTOM" /\ Plain(s) =>
      Inputs[s] \subseteq on'[s]

(* What every step keeps.                                                  *)
Kept ==
  /\ toggle' \in [Movers -> States]
  /\ think' \in [Movers -> ButtonThinks \cup DoorThinks]
  /\ on' \in [Sources -> SUBSET Movers]
  /\ pending' \in [Movers -> 0 .. MaxPending]
  /\ ThinksFit' /\ PendingFits' /\ InputsTellMovers' /\ OpenedByAll

(* A mover that arrives where it was not yet flips its input, and no other.*)
LEMMA ArriveFacts ==
  ASSUME IInv, NEW m \in Movers, NEW t \in States, NEW th \in ButtonThinks \cup DoorThinks,
         NEW n \in 0 .. 2, NEW direct \in 0 .. 1,
         Fits(m, t, th), Arrive(m, t, th, n, direct), UNCHANGED reversed,
         toggle[m] # "BOTTOM",
         \A s \in Sources : Plain(s) /\ Target[m] = s => n = 1 /\ ~(InState(t) <=> In(m))
  PROVE  /\ Kept
         /\ \A d \in Doors : Name[d] = None => toggle'[d] = IF d = m THEN t ELSE toggle[d]
<1> DEFINE later == m \in Delayed /\ n > direct
           now == IF later THEN direct ELSE n
           ins == InputsAfter(m, m, now)
           st == [toggle EXCEPT ![m] = t]
           used == DoorsUsed(m, m, now)
<1>1. PICK S \in {Started(used, st, ins, Target[m])} : DoorActivate(S, st, [think EXCEPT ![m] = th])
  BY DEF Arrive
<1>2. on' = ins /\ (later => pending[m] < MaxPending)
      /\ pending' = IF later THEN [pending EXCEPT ![m] = @ + 1] ELSE pending
  BY DEF Arrive
<1>3. toggle \in [Movers -> States] /\ think \in [Movers -> ButtonThinks \cup DoorThinks]
      /\ pending \in [Movers -> 0 .. MaxPending]
  BY DEF IInv, TypeOK, States, ButtonThinks, DoorThinks
<1>4. S \in SUBSET Doors /\ S \subseteq used
      /\ \A x \in S : (st[x] = "BOTTOM" \/ (st[x] = "TOP" /\ x \in Toggle)) /\ Name[x] # None
  <2>1. used \in SUBSET Doors /\ \A d \in used : Name[d] # None
    BY UsedFacts
  <2> HIDE DEF used, st, ins
  <2> QED BY <1>1, <2>1, StartedFacts
<1>5. st \in [Movers -> States] /\ \A x \in Movers : st[x] = IF x = m THEN t ELSE toggle[x]
  BY <1>3
<1>6. /\ [think EXCEPT ![m] = th] \in [Movers -> ButtonThinks \cup DoorThinks]
      /\ \A x \in Movers : Fits(x, st[x], [think EXCEPT ![m] = th][x])
  BY <1>3, <1>5 DEF IInv, ThinksFit
<1> HIDE DEF st, ins, used, now
<1>7. /\ toggle' \in [Movers -> States]
      /\ think' \in [Movers -> ButtonThinks \cup DoorThinks]
      /\ ThinksFit'
      /\ \A x \in Movers : InState(toggle'[x]) <=> InState(st[x])
      /\ \A x \in Movers : x \notin S => toggle'[x] = st[x]
  BY <1>1, <1>4, <1>5, <1>6, ActivateFacts
<1>8. on' \in [Sources -> SUBSET Movers]
  BY <1>2, InputsFacts DEF IInv, ins
<1>9. pending' \in [Movers -> 0 .. MaxPending] /\ PendingFits'
  <2>1. MaxPending \in Nat
    BY MechanismsAssumption
  <2> QED BY <1>2, <1>3, <2>1 DEF IInv, PendingFits
<1>10. \A s \in Sources : Plain(s)' <=> Plain(s)
  BY DEF Plain
<1>11. ASSUME NEW s \in Sources, Plain(s), Target[m] = s
       PROVE  now = 1 /\ m \in Inputs[s] /\ m \notin Delayed
  BY <1>11 DEF now, Plain
<1>12. InputsTellMovers'
  <2>1. SUFFICES ASSUME NEW s \in Sources, Plain(s), NEW x \in Inputs[s]
                 PROVE  x \in on'[s] <=> In(x)'
    BY <1>10 DEF InputsTellMovers
  <2>2. x \in Movers /\ Target[x] = s
    BY <2>1, MechanismsAssumption
  <2>3. In(x)' <=> InState(st[x])
    BY <1>7, <2>2 DEF In, InState
  <2>4. x \in on[s] <=> In(x)
    BY <2>1 DEF IInv, InputsTellMovers
  <2>5. CASE s = Target[m]
    <3>1. now = 1 /\ m \in Inputs[s]
      BY <1>11, <2>1, <2>5
    <3>2. x \in on'[s] <=> IF x = m THEN x \notin on[s] ELSE x \in on[s]
      BY <1>2, <2>5, <3>1, InputsFacts DEF IInv, ins
    <3>3. ~(InState(t) <=> In(m))
      BY <2>1, <2>5
    <3> QED BY <1>5, <2>2, <2>3, <2>4, <3>2, <3>3 DEF In, InState
  <2>6. CASE s # Target[m]
    <3>1. on'[s] = on[s]
      BY <1>2, <2>6, InputsFacts DEF IInv, ins
    <3>2. x # m
      BY <2>2, <2>6
    <3> QED BY <1>5, <2>2, <2>3, <2>4, <3>1, <3>2 DEF In, InState
  <2> QED BY <2>5, <2>6
<1>13. OpenedByAll
  <2>1. SUFFICES ASSUME NEW d \in Doors, NEW s \in Sources, OnlyOpens(s, d), toggle[d] = "BOTTOM",
                        toggle'[d] # "BOTTOM", Plain(s)
                 PROVE  Inputs[s] \subseteq on'[s]
    BY DEF OpenedByAll
  <2>2. d \in Movers /\ d # m /\ d \in used
    BY <1>4, <1>5, <1>7, <2>1 DEF Movers
  <2>3. Target[m] # Name[d]
    BY <2>1 DEF OnlyOpens
  <2>4. Target[m] \in Sources /\ d \in Named(Opens[Target[m]])
        /\ (\/ now > 0 /\ Inputs[Target[m]] \subseteq Flip(Target[m], m)
            \/ now > 1 /\ IsTriggered(Target[m]))
    BY <2>2, <2>3 DEF used, DoorsUsed, Named
  <2>5. Target[m] = s
    BY <2>1, <2>4 DEF OnlyOpens, Named
  <2>6. now = 1 /\ Inputs[s] \subseteq Flip(s, m)
    BY <1>11, <2>1, <2>4, <2>5
  <2>7. on'[s] = Flip(s, m)
    BY <1>2, <2>5, <2>6, InputsFacts DEF IInv, ins
  <2> QED BY <2>6, <2>7
<1>14. \A d \in Doors : Name[d] = None => toggle'[d] = IF d = m THEN t ELSE toggle[d]
  BY <1>4, <1>5, <1>7 DEF Movers
<1> QED BY <1>7, <1>8, <1>9, <1>12, <1>13, <1>14 DEF Kept

(* A delayed use touches no multisource that is only used without a delay. *)
LEMMA FireFacts ==
  ASSUME IInv, NEW m \in Movers, FireDelayed(m)
  PROVE  Kept /\ \A d \in Doors : Name[d] = None => toggle'[d] = toggle[d]
<1> DEFINE ins == InputsAfter(m, None, 1)
           used == DoorsUsed(m, None, 1)
<1>1. PICK S \in {Started(used, toggle, ins, Target[m])} : DoorActivate(S, toggle, think)
  BY DEF FireDelayed
<1>2. on' = ins /\ pending' = [pending EXCEPT ![m] = @ - 1] /\ pending[m] > 0 /\ UNCHANGED reversed
  BY DEF FireDelayed
<1>3. toggle \in [Movers -> States] /\ think \in [Movers -> ButtonThinks \cup DoorThinks]
      /\ pending \in [Movers -> 0 .. MaxPending]
  BY DEF IInv, TypeOK, States, ButtonThinks, DoorThinks
<1>4. S \in SUBSET Doors /\ S \subseteq used
      /\ \A x \in S : (toggle[x] = "BOTTOM" \/ (toggle[x] = "TOP" /\ x \in Toggle)) /\ Name[x] # None
  <2>1. used \in SUBSET Doors /\ \A d \in used : Name[d] # None
    BY UsedFacts
  <2> HIDE DEF used, ins
  <2> QED BY <1>1, <2>1, StartedFacts
<1>5. \A x \in Movers : Fits(x, toggle[x], think[x])
  BY DEF IInv, ThinksFit
<1> HIDE DEF ins, used
<1>7. /\ toggle' \in [Movers -> States]
      /\ think' \in [Movers -> ButtonThinks \cup DoorThinks]
      /\ ThinksFit'
      /\ \A x \in Movers : InState(toggle'[x]) <=> InState(toggle[x])
      /\ \A x \in Movers : x \notin S => toggle'[x] = toggle[x]
  BY <1>1, <1>3, <1>4, <1>5, ActivateFacts
<1>8. on' \in [Sources -> SUBSET Movers]
  BY <1>2, InputsFacts DEF IInv, ins
<1>9. pending' \in [Movers -> 0 .. MaxPending] /\ PendingFits'
  <2>1. MaxPending \in Nat
    BY MechanismsAssumption
  <2> QED BY <1>2, <1>3, <2>1 DEF IInv, PendingFits
<1>10. m \in Delayed
  BY <1>2 DEF IInv, PendingFits
<1>11. \A s \in Sources : Plain(s)' => Plain(s) /\ Target[m] # s
  BY <1>2, <1>10 DEF Plain
<1>12. InputsTellMovers'
  <2>1. SUFFICES ASSUME NEW s \in Sources, Plain(s)', NEW x \in Inputs[s]
                 PROVE  x \in on'[s] <=> In(x)'
    BY DEF InputsTellMovers
  <2>2. x \in Movers
    BY <2>1, MechanismsAssumption
  <2>3. on'[s] = on[s]
    BY <1>2, <1>11, <2>1, InputsFacts DEF IInv, ins
  <2>4. x \in on[s] <=> In(x)
    BY <1>11, <2>1 DEF IInv, InputsTellMovers
  <2> QED BY <1>7, <2>2, <2>3, <2>4 DEF In, InState
<1>13. OpenedByAll
  <2>1. SUFFICES ASSUME NEW d \in Doors, NEW s \in Sources, OnlyOpens(s, d), toggle[d] = "BOTTOM",
                        toggle'[d] # "BOTTOM", Plain(s)
                 PROVE  FALSE
    BY DEF OpenedByAll
  <2>2. d \in used /\ Target[m] # Name[d]
    BY <1>4, <1>7, <2>1 DEF Movers, OnlyOpens
  <2>3. Target[m] \in Sources /\ d \in Named(Opens[Target[m]])
    BY <2>2 DEF used, DoorsUsed, Named
  <2>4. Target[m] = s
    BY <2>1, <2>3 DEF OnlyOpens, Named
  <2> QED BY <1>10, <2>1, <2>4 DEF Plain
<1>14. \A d \in Doors : Name[d] = None => toggle'[d] = toggle[d]
  BY <1>4, <1>7 DEF Movers
<1> QED BY <1>7, <1>8, <1>9, <1>12, <1>13, <1>14 DEF Kept

(* A mover that starts is in as much as before.                            *)
LEMMA BeginFacts ==
  ASSUME IInv, NEW m \in Movers, NEW t \in States, NEW th \in ButtonThinks \cup DoorThinks,
         Fits(m, t, th), Begin(m, t, th), InState(t) <=> In(m),
         m \in Doors /\ toggle[m] = "BOTTOM" => Name[m] = None
  PROVE  Kept /\ \A x \in Movers : toggle'[x] = IF x = m THEN t ELSE toggle[x]
<1>1. toggle \in [Movers -> States] /\ think \in [Movers -> ButtonThinks \cup DoorThinks]
      /\ on \in [Sources -> SUBSET Movers] /\ pending \in [Movers -> 0 .. MaxPending]
  BY DEF IInv, TypeOK, States, ButtonThinks, DoorThinks
<1>2. /\ toggle' \in [Movers -> States]
      /\ think' \in [Movers -> ButtonThinks \cup DoorThinks]
      /\ \A x \in Movers : toggle'[x] = IF x = m THEN t ELSE toggle[x]
      /\ \A x \in Movers : think'[x] = IF x = m THEN th ELSE think[x]
  BY <1>1 DEF Begin
<1>3. UNCHANGED <<on, pending, reversed>>
  BY DEF Begin
<1>4. ThinksFit' /\ PendingFits'
  BY <1>2, <1>3 DEF IInv, ThinksFit, PendingFits
<1>5. InputsTellMovers'
  <2>1. SUFFICES ASSUME NEW s \in Sources, Plain(s), NEW x \in Inputs[s]
                 PROVE  x \in on'[s] <=> In(x)'
    BY <1>3 DEF InputsTellMovers, Plain
  <2>2. x \in Movers
    BY <2>1, MechanismsAssumption
  <2>3. x \in on[s] <=> In(x)
    BY <2>1 DEF IInv, InputsTellMovers
  <2> QED BY <1>2, <1>3, <2>2, <2>3 DEF In, InState
<1>6. OpenedByAll
  BY <1>2 DEF OpenedByAll, OnlyOpens, Movers
<1> QED BY <1>1, <1>2, <1>3, <1>4, <1>5, <1>6 DEF Kept

-----------------------------------------------------------------------------
LEMMA KeptInvariant ==
  ASSUME IInv, Kept, touch' \subseteq Movers, reversed' \subseteq Doors, TouchFits'
  PROVE  IInv'
BY DEF IInv, Kept, TypeOK, States, ButtonThinks, DoorThinks

(* A step that adds no door to those to touch, and moves no unnamed one.   *)
LEMMA TouchKept ==
  ASSUME IInv, touch' \cap Doors \subseteq touch,
         \A d \in Doors : Name[d] = None => toggle'[d] = toggle[d]
  PROVE  TouchFits'
BY DEF IInv, TouchFits

LEMMA InitialInvariant == Init => IInv
<1> SUFFICES ASSUME Init PROVE IInv
  OBVIOUS
<1>1. TypeOK
  BY MechanismsAssumption DEF Init, TypeOK, Movers
<1>2. ThinksFit
  BY DEF Init, ThinksFit, Fits, ButtonThinks, DoorThinks
<1>3. TouchFits
  BY MechanismsAssumption DEF Init, TouchFits, Movers
<1>4. PendingFits
  BY DEF Init, PendingFits
<1>5. InputsTellMovers
  BY MechanismsAssumption DEF Init, InputsTellMovers, In
<1> QED BY <1>1, <1>2, <1>3, <1>4, <1>5 DEF IInv

(* A button that starts, on its way in or out.                             *)
LEMMA ButtonStarts ==
  ASSUME IInv, NEW b \in Buttons, touch' \subseteq touch,
         \/ Activates(b) /\ ButtonActivate(b)
         \/ toggle[b] = "TOP" /\ ButtonReturn(b)
  PROVE  IInv' /\ OpenedByAll
<1>0. b \in Movers /\ b \notin Doors
  BY MechanismsAssumption DEF Movers
<1>1. Kept /\ (\A x \in Movers : x # b => toggle'[x] = toggle[x]) /\ UNCHANGED reversed
  <2>1. CASE Activates(b) /\ ButtonActivate(b)
    <3>1. Fits(b, "UP", "TriggerAndWait") /\ (InState("UP") <=> In(b))
      BY <1>0, <2>1 DEF Fits, InState, In, Activates, ButtonThinks
    <3>2. Begin(b, "UP", "TriggerAndWait") /\ UNCHANGED reversed
      BY <2>1 DEF ButtonActivate, Begin
    <3>3. "UP" \in States /\ "TriggerAndWait" \in ButtonThinks \cup DoorThinks
      BY DEF States, ButtonThinks
    <3> QED BY <1>0, <3>1, <3>2, <3>3, BeginFacts
  <2>2. CASE toggle[b] = "TOP" /\ ButtonReturn(b)
    <3>1. Fits(b, "DOWN", "ButtonBackHome") /\ (InState("DOWN") <=> In(b))
      BY <1>0, <2>2 DEF Fits, InState, In, ButtonThinks
    <3>2. Begin(b, "DOWN", "ButtonBackHome") /\ UNCHANGED reversed
      BY <2>2 DEF ButtonReturn, Begin
    <3>3. "DOWN" \in States /\ "ButtonBackHome" \in ButtonThinks \cup DoorThinks
      BY DEF States, ButtonThinks
    <3> QED BY <1>0, <3>1, <3>2, <3>3, BeginFacts
  <2> QED BY <2>1, <2>2
<1>2. TouchFits'
  BY <1>0, <1>1, TouchKept DEF Movers
<1> QED BY <1>1, <1>2, KeptInvariant DEF Kept, IInv, TypeOK

(* A button that arrives.                                                  *)
LEMMA ButtonArrives ==
  ASSUME IInv, NEW b \in Buttons, NEW t \in States, NEW th \in ButtonThinks,
         NEW n \in 0 .. 2, NEW direct \in 0 .. 1,
         Fits(b, t, th), Arrive(b, t, th, n, direct), UNCHANGED reversed, toggle[b] # "BOTTOM",
         b \notin Toggle => (Target[b] \in Sources => n = 1) /\ ~(InState(t) <=> In(b)),
         touch' \in SUBSET (touch \cup {b})
  PROVE  IInv' /\ OpenedByAll
<1>0. b \in Movers /\ b \notin Doors
  BY MechanismsAssumption DEF Movers
<1>1. \A s \in Sources : Plain(s) /\ Target[b] = s => n = 1 /\ ~(InState(t) <=> In(b))
  BY <1>0 DEF Plain
<1>2. Kept /\ \A d \in Doors : Name[d] = None => toggle'[d] = toggle[d]
  BY <1>0, <1>1, ArriveFacts
<1>3. TouchFits'
  BY <1>0, <1>2, TouchKept
<1> QED BY <1>0, <1>2, <1>3, KeptInvariant DEF Kept, IInv, TypeOK

LEMMA ButtonStep ==
  ASSUME IInv, NEW b \in Buttons,
         \/ ButtonUse(b) \/ ButtonTouch(b) \/ TakeDamage(b)
         \/ TriggerAndWait(b) \/ ButtonReturns(b) \/ ButtonBackHome(b)
  PROVE  IInv' /\ OpenedByAll
<1>0. b \in Movers /\ Fits(b, toggle[b], think[b])
  BY DEF Movers, IInv, ThinksFit
<1>1. CASE ButtonUse(b)
  BY <1>1, ButtonStarts DEF ButtonUse, Returns
<1>2. CASE ButtonTouch(b)
  <2>1. CASE Returns(b) /\ Arrive(b, "DOWN", "ButtonBackHome", 1, 0) /\ UNCHANGED reversed
    <3>1. Fits(b, "DOWN", "ButtonBackHome") /\ b \in Toggle /\ toggle[b] = "TOP"
      BY <2>1, MechanismsAssumption DEF Fits, ButtonThinks, Returns
    <3> QED
      BY <1>2, <2>1, <3>1, ButtonArrives DEF ButtonTouch, States, ButtonThinks
  <2>2. CASE Activates(b) /\ ButtonActivate(b)
    BY <1>2, <2>2, ButtonStarts DEF ButtonTouch
  <2> QED BY <1>2, <2>1, <2>2 DEF ButtonTouch
<1>3. CASE TakeDamage(b)
  <2>1. CASE (Returns(b) /\ ButtonReturn(b)) \/ (Activates(b) /\ ButtonActivate(b))
    BY <1>3, <2>1, ButtonStarts DEF TakeDamage, Returns
  <2>2. CASE UNCHANGED <<toggle, think, on, pending, reversed>>
    BY <1>3, <2>2 DEF TakeDamage, IInv, TypeOK, ThinksFit, TouchFits, PendingFits,
                      InputsTellMovers, Plain, In, OpenedByAll
  <2> QED BY <1>3, <2>1, <2>2 DEF TakeDamage
<1>4. CASE TriggerAndWait(b)
  <2>1. toggle[b] = "UP"
    BY <1>0, <1>4 DEF TriggerAndWait, Fits
  <2>2. CASE IsMasterTriggered(b)
    <3> DEFINE th == IF b \in Stay \cup Toggle THEN "none" ELSE "ButtonReturn"
    <3>1. Fits(b, "TOP", th) /\ th \in ButtonThinks
      BY MechanismsAssumption DEF Fits, ButtonThinks
    <3>2. Arrive(b, "TOP", th, 1, 0) /\ touch' \in SUBSET (touch \cup {b}) /\ UNCHANGED reversed
      BY <1>4, <2>2 DEF TriggerAndWait
    <3>3. ~(InState("TOP") <=> In(b))
      BY <2>1 DEF InState, In
    <3> HIDE DEF th
    <3> QED BY <2>1, <3>1, <3>2, <3>3, ButtonArrives DEF States
  <2>3. CASE ~IsMasterTriggered(b)
    <3>1. think' = [think EXCEPT ![b] = "none"] /\ UNCHANGED <<toggle, touch, on, pending, reversed>>
      BY <1>4, <2>3 DEF TriggerAndWait
    <3>2. ThinksFit'
      BY <3>1 DEF IInv, TypeOK, ThinksFit, Fits, ButtonThinks, DoorThinks
    <3>3. TypeOK'
      BY <3>1 DEF IInv, TypeOK
    <3>4. InputsTellMovers'
      BY <3>1 DEF IInv, InputsTellMovers, Plain, In
    <3> QED BY <3>1, <3>2, <3>3, <3>4 DEF IInv, TouchFits, PendingFits, OpenedByAll
  <2> QED BY <2>2, <2>3
<1>5. CASE ButtonReturns(b)
  <2>1. toggle[b] = "TOP"
    BY <1>0, <1>5 DEF ButtonReturns, Fits
  <2> QED BY <1>5, <2>1, ButtonStarts DEF ButtonReturns
<1>6. CASE ButtonBackHome(b)
  <2> DEFINE direct == IF Target[b] \in Sources THEN 1 ELSE 0
             n == IF b \in Toggle THEN direct + 1 ELSE direct
  <2>1. toggle[b] = "DOWN"
    BY <1>0, <1>6 DEF ButtonBackHome, Fits
  <2>2. direct \in 0 .. 1 /\ n \in 0 .. 2 /\ (b \notin Toggle => (Target[b] \in Sources => n = 1))
    OBVIOUS
  <2>3. Arrive(b, "BOTTOM", "none", n, direct) /\ UNCHANGED reversed
    BY <1>6 DEF ButtonBackHome
  <2>4. touch' \in SUBSET (touch \cup {b})
    BY <1>6 DEF ButtonBackHome
  <2>5. Fits(b, "BOTTOM", "none") /\ ~(InState("BOTTOM") <=> In(b))
    BY <2>1, MechanismsAssumption DEF Fits, InState, In, ButtonThinks
  <2> HIDE DEF direct, n
  <2> QED BY <2>1, <2>2, <2>3, <2>4, <2>5, ButtonArrives DEF States, ButtonThinks
<1> QED BY <1>1, <1>2, <1>3, <1>4, <1>5, <1>6

(* A door that starts by itself or is touched.                             *)
LEMMA DoorStarts ==
  ASSUME IInv, NEW d \in Doors, DoorTouch(d) \/ DoorGoDown(d)
  PROVE  IInv' /\ OpenedByAll
<1>0. d \in Movers /\ d \notin Buttons /\ Fits(d, toggle[d], think[d])
  BY MechanismsAssumption DEF Movers, IInv, ThinksFit
<1>1. CASE DoorTouch(d)
  <2>1. Name[d] = None /\ d \in touch /\ touch' = touch \ {d}
    BY <1>1 DEF DoorTouch
  <2>2. toggle[d] = "BOTTOM" \/ (toggle[d] = "TOP" /\ d \in Toggle)
    BY <2>1 DEF IInv, TouchFits
  <2>3. Kept /\ (\A x \in Movers : x # d => toggle'[x] = toggle[x]) /\ UNCHANGED reversed
    <3>1. CASE toggle[d] = "TOP" /\ d \in Toggle
      <4>1. Begin(d, "DOWN", "DoorHitBottom") /\ UNCHANGED reversed
        BY <1>1, <3>1 DEF DoorTouch, Begin
      <4>2. Fits(d, "DOWN", "DoorHitBottom") /\ (InState("DOWN") <=> In(d))
        BY <1>0, <3>1 DEF Fits, InState, In, DoorThinks
      <4>3. "DOWN" \in States /\ "DoorHitBottom" \in ButtonThinks \cup DoorThinks
        BY DEF States, DoorThinks
      <4> QED BY <1>0, <2>1, <4>1, <4>2, <4>3, BeginFacts
    <3>2. CASE ~(toggle[d] = "TOP" /\ d \in Toggle)
      <4>1. Begin(d, "UP", "DoorHitTop") /\ UNCHANGED reversed
        BY <1>1, <3>2 DEF DoorTouch, Begin
      <4>2. Fits(d, "UP", "DoorHitTop") /\ (InState("UP") <=> In(d))
        BY <1>0, <2>2, <3>2 DEF Fits, InState, In, DoorThinks
      <4>3. "UP" \in States /\ "DoorHitTop" \in ButtonThinks \cup DoorThinks
        BY DEF States, DoorThinks
      <4> QED BY <1>0, <2>1, <4>1, <4>2, <4>3, BeginFacts
    <3> QED BY <3>1, <3>2
  <2>4. TouchFits'
    BY <2>1, <2>3 DEF IInv, TouchFits, Movers
  <2> QED BY <2>1, <2>3, <2>4, KeptInvariant DEF Kept, IInv, TypeOK
<1>2. CASE DoorGoDown(d)
  <2>1. toggle[d] = "TOP" /\ d \notin Toggle
    BY <1>0, <1>2 DEF DoorGoDown, Fits
  <2>2. Begin(d, "DOWN", "DoorHitBottom") /\ UNCHANGED <<touch, reversed>>
    BY <1>2 DEF DoorGoDown, Begin
  <2>3. Fits(d, "DOWN", "DoorHitBottom") /\ (InState("DOWN") <=> In(d))
    BY <1>0, <2>1 DEF Fits, InState, In, DoorThinks
  <2>4. "DOWN" \in States /\ "DoorHitBottom" \in ButtonThinks \cup DoorThinks
    BY DEF States, DoorThinks
  <2>5. Kept /\ \A x \in Movers : x # d => toggle'[x] = toggle[x]
    BY <1>0, <2>1, <2>2, <2>3, <2>4, BeginFacts
  <2>6. TouchFits'
    BY <2>1, <2>2, <2>5 DEF IInv, TouchFits, Movers
  <2> QED BY <2>2, <2>5, <2>6, KeptInvariant DEF Kept, IInv, TypeOK
<1> QED BY <1>1, <1>2

LEMMA DoorArrives ==
  ASSUME IInv, NEW d \in Doors, DoorHitTop(d) \/ DoorHitBottom(d)
  PROVE  IInv' /\ OpenedByAll
<1>0. d \in Movers /\ d \notin Buttons /\ Fits(d, toggle[d], think[d])
  BY MechanismsAssumption DEF Movers, IInv, ThinksFit
<1>1. 1 \in 0 .. 2 /\ 0 \in 0 .. 1
  OBVIOUS
<1>2. CASE DoorHitTop(d)
  <2> DEFINE th == IF d \in Stay \cup Toggle THEN "none" ELSE "DoorGoDown"
  <2>1. toggle[d] = "UP"
    BY <1>0, <1>2 DEF DoorHitTop, Fits
  <2>2. Arrive(d, "TOP", th, 1, 0) /\ UNCHANGED reversed /\ touch' = touch \cup ({d} \cap (Toggle \ UseOnly))
    BY <1>2 DEF DoorHitTop
  <2>3. Fits(d, "TOP", th) /\ "TOP" \in States /\ th \in ButtonThinks \cup DoorThinks
    BY <1>0 DEF Fits, States, DoorThinks
  <2>4. ~(InState("TOP") <=> In(d))
    BY <2>1 DEF InState, In
  <2> HIDE DEF th
  <2>5. Kept /\ \A x \in Doors : Name[x] = None => toggle'[x] = IF x = d THEN "TOP" ELSE toggle[x]
    BY <1>0, <1>1, <2>1, <2>2, <2>3, <2>4, ArriveFacts
  <2>6. TouchFits'
    BY <2>1, <2>2, <2>5 DEF IInv, TouchFits
  <2> QED BY <1>0, <2>2, <2>5, <2>6, KeptInvariant DEF Kept, IInv, TypeOK
<1>3. CASE DoorHitBottom(d)
  <2>1. toggle[d] = "DOWN"
    BY <1>0, <1>3 DEF DoorHitBottom, Fits
  <2>2. Arrive(d, "BOTTOM", "none", 1, 0) /\ UNCHANGED reversed /\ touch' = touch \cup ({d} \ UseOnly)
    BY <1>3 DEF DoorHitBottom
  <2>3. Fits(d, "BOTTOM", "none") /\ "BOTTOM" \in States /\ "none" \in ButtonThinks \cup DoorThinks
    BY <1>0 DEF Fits, States, DoorThinks
  <2>4. ~(InState("BOTTOM") <=> In(d))
    BY <2>1 DEF InState, In
  <2>5. Kept /\ \A x \in Doors : Name[x] = None => toggle'[x] = IF x = d THEN "BOTTOM" ELSE toggle[x]
    BY <1>0, <1>1, <2>1, <2>2, <2>3, <2>4, ArriveFacts
  <2>6. TouchFits'
    BY <2>1, <2>2, <2>5 DEF IInv, TouchFits
  <2> QED BY <1>0, <2>2, <2>5, <2>6, KeptInvariant DEF Kept, IInv, TypeOK
<1> QED BY <1>2, <1>3

LEMMA DoorUsed ==
  ASSUME IInv, NEW d \in Doors, DoorUse(d)
  PROVE  IInv' /\ OpenedByAll
<1>1. d \in UseOnly /\ DoorActivate({d}, toggle, think) /\ UNCHANGED <<touch, on, pending, reversed>>
  BY DEF DoorUse
<1>2. toggle[d] = "BOTTOM" \/ (toggle[d] = "TOP" /\ d \in Toggle)
  BY DEF DoorUse, Started
<1>3. {d} \in SUBSET Doors /\ \A x \in {d} : toggle[x] = "BOTTOM" \/ (toggle[x] = "TOP" /\ x \in Toggle)
  BY <1>2
<1>4. toggle \in [Movers -> States] /\ think \in [Movers -> ButtonThinks \cup DoorThinks]
  BY DEF IInv, TypeOK, States, ButtonThinks, DoorThinks
<1>5. \A x \in Movers : Fits(x, toggle[x], think[x])
  BY DEF IInv, ThinksFit
<1>6. /\ toggle' \in [Movers -> States]
      /\ think' \in [Movers -> ButtonThinks \cup DoorThinks]
      /\ ThinksFit'
      /\ \A x \in Movers : InState(toggle'[x]) <=> InState(toggle[x])
      /\ \A x \in Movers : x \notin {d} => toggle'[x] = toggle[x]
  BY <1>1, <1>3, <1>4, <1>5, ActivateFacts
<1>7. InputsTellMovers'
  <2>1. SUFFICES ASSUME NEW s \in Sources, Plain(s), NEW x \in Inputs[s]
                 PROVE  x \in on'[s] <=> In(x)'
    BY <1>1 DEF InputsTellMovers, Plain
  <2>2. x \in Movers
    BY <2>1, MechanismsAssumption
  <2>3. x \in on[s] <=> In(x)
    BY <2>1 DEF IInv, InputsTellMovers
  <2> QED BY <1>1, <1>6, <2>2, <2>3 DEF In, InState
<1>8. OpenedByAll
  BY <1>1, <1>6 DEF OpenedByAll, OnlyOpens, Movers
<1>9. Kept
  BY <1>1, <1>6, <1>7, <1>8 DEF Kept, IInv, TypeOK, PendingFits
<1>10. TouchFits'
  BY <1>1, <1>6 DEF IInv, TouchFits, Movers
<1> QED BY <1>1, <1>8, <1>9, <1>10, KeptInvariant DEF IInv, TypeOK

(* Whatever is in the way of a door is a reason not to trust its sources.  *)
LEMMA DoorBlocked ==
  ASSUME IInv, NEW d \in Doors, Blocked(d)
  PROVE  IInv' /\ OpenedByAll
<1> DEFINE R == {e \in Named(Name[d]) \cup {d} : e \notin Stay}
           B == {e \in R : toggle[e] = "BOTTOM"}
<1>0. R \subseteq Doors /\ Doors \subseteq Movers /\ Buttons \cap Doors = {}
  BY MechanismsAssumption DEF Named, Movers
<1>1. /\ toggle[d] \in {"UP", "DOWN"}
      /\ touch' = touch \cup (B \ UseOnly)
      /\ reversed' = reversed \cup R
      /\ UNCHANGED <<on, pending>>
  BY DEF Blocked
<1>2. toggle' = [x \in Movers |-> IF x \notin R \ B THEN toggle[x]
                                  ELSE IF toggle[x] = "DOWN" THEN "UP" ELSE "DOWN"]
  BY DEF Blocked
<1>3. think' = [x \in Movers |-> IF x \notin R \ B THEN think[x]
                                 ELSE IF toggle[x] = "DOWN" THEN "DoorHitTop" ELSE "DoorHitBottom"]
  BY DEF Blocked
<1>4. toggle \in [Movers -> States] /\ think \in [Movers -> ButtonThinks \cup DoorThinks]
  BY DEF IInv, TypeOK, States, ButtonThinks, DoorThinks
<1>5. \A e \in R : e # d => Name[e] # None
  BY DEF Named
<1>6. \A e \in R : e \in B <=> toggle[e] = "BOTTOM"
  OBVIOUS
<1>7. B \subseteq R
  OBVIOUS
<1> HIDE DEF R, B
<1>8. toggle' \in [Movers -> States] /\ think' \in [Movers -> ButtonThinks \cup DoorThinks]
  BY <1>2, <1>3, <1>4 DEF States, DoorThinks
<1>9. ThinksFit'
  <2>1. ASSUME NEW x \in Movers PROVE Fits(x, toggle'[x], think'[x])
    <3>1. Fits(x, toggle[x], think[x])
      BY DEF IInv, ThinksFit
    <3>2. CASE x \notin R \ B
      BY <1>2, <1>3, <3>1, <3>2
    <3>3. CASE x \in R \ B
      BY <1>0, <1>2, <1>3, <3>3 DEF Fits, DoorThinks
    <3> QED BY <3>2, <3>3
  <2> QED BY <2>1 DEF ThinksFit
<1>10. InputsTellMovers'
  <2>1. SUFFICES ASSUME NEW s \in Sources, Plain(s)', NEW x \in Inputs[s]
                 PROVE  x \in on'[s] <=> In(x)'
    BY DEF InputsTellMovers
  <2>2. x \in Movers
    BY <2>1, MechanismsAssumption
  <2>3. Plain(s) /\ x \notin R
    BY <1>1, <2>1 DEF Plain
  <2>4. x \in on[s] <=> In(x)
    BY <2>1, <2>3 DEF IInv, InputsTellMovers
  <2> QED BY <1>1, <1>2, <2>2, <2>3, <2>4 DEF In
<1>11. OpenedByAll
  <2>1. \A x \in Doors : toggle[x] = "BOTTOM" => toggle'[x] = "BOTTOM"
    BY <1>0, <1>2, <1>6
  <2> QED BY <2>1 DEF OpenedByAll
<1>12. Kept
  BY <1>1, <1>8, <1>9, <1>10, <1>11 DEF Kept, IInv, TypeOK, PendingFits
<1>13. TouchFits'
  <2>1. ASSUME NEW x \in Doors, x \in touch'
        PROVE  /\ x \notin UseOnly
               /\ Name[x] = None => toggle'[x] = "BOTTOM" \/ (toggle'[x] = "TOP" /\ x \in Toggle)
    <3>1. CASE x \in B
      BY <1>0, <1>1, <1>2, <1>6, <1>7, <2>1, <3>1 DEF IInv, TouchFits
    <3>2. CASE x \notin B
      <4>1. x \in touch
        BY <1>1, <2>1, <3>2
      <4>2. Name[x] = None => x # d
        BY <1>1, <4>1 DEF IInv, TouchFits
      <4>3. Name[x] = None => toggle'[x] = toggle[x]
        BY <1>0, <1>2, <1>5, <4>2
      <4> QED BY <4>1, <4>3 DEF IInv, TouchFits
    <3> QED BY <3>1, <3>2
  <2> QED BY <2>1 DEF TouchFits
<1> QED BY <1>0, <1>1, <1>7, <1>11, <1>12, <1>13, KeptInvariant DEF IInv, TypeOK

LEMMA Step == IInv /\ [Next]_vars => IInv' /\ (OpenedByAll \/ UNCHANGED vars)
<1> SUFFICES ASSUME IInv, [Next]_vars PROVE IInv' /\ (OpenedByAll \/ UNCHANGED vars)
  OBVIOUS
<1>1. CASE UNCHANGED vars
  BY <1>1 DEF vars, IInv, TypeOK, ThinksFit, TouchFits, PendingFits, InputsTellMovers, Plain, In
<1>2. ASSUME NEW b \in Buttons, ButtonUse(b) \/ ButtonTouch(b) \/ TakeDamage(b)
      PROVE  IInv' /\ OpenedByAll
  BY <1>2, ButtonStep
<1>3. ASSUME NEW d \in Doors, DoorTouch(d) \/ DoorUse(d) \/ Blocked(d)
      PROVE  IInv' /\ OpenedByAll
  BY <1>3, DoorStarts, DoorUsed, DoorBlocked
<1>4. ASSUME NEW m \in Movers, Moves(m)
      PROVE  IInv' /\ OpenedByAll
  BY <1>4, ButtonStep, DoorArrives, DoorStarts DEF Moves
<1>5. ASSUME NEW m \in Movers, FireDelayed(m)
      PROVE  IInv' /\ OpenedByAll
  <2>1. Kept /\ \A d \in Doors : Name[d] = None => toggle'[d] = toggle[d]
    BY <1>5, FireFacts
  <2>2. UNCHANGED <<touch, reversed>>
    BY <1>5 DEF FireDelayed
  <2>3. TouchFits'
    BY <2>1, <2>2, TouchKept
  <2> QED BY <2>1, <2>2, <2>3, KeptInvariant DEF Kept, IInv, TypeOK
<1> QED BY <1>1, <1>2, <1>3, <1>4, <1>5 DEF Next

(* What has been in the way of a door is not forgotten.                    *)
LEMMA ReversedGrows == Next => reversed \subseteq reversed'
<1>1. ASSUME NEW b \in Buttons, ButtonUse(b) \/ ButtonTouch(b) \/ TakeDamage(b) PROVE UNCHANGED reversed
  BY <1>1 DEF ButtonUse, ButtonTouch, TakeDamage, ButtonReturn, ButtonActivate, Begin
<1>2. ASSUME NEW d \in Doors, DoorTouch(d) \/ DoorUse(d) PROVE UNCHANGED reversed
  BY <1>2 DEF DoorTouch, DoorUse, Begin
<1>3. ASSUME NEW d \in Doors, Blocked(d) PROVE reversed \subseteq reversed'
  BY <1>3 DEF Blocked
<1>4. ASSUME NEW m \in Movers, Moves(m) \/ FireDelayed(m) PROVE UNCHANGED reversed
  BY <1>4 DEF Moves, FireDelayed, TriggerAndWait, ButtonReturns, ButtonReturn, ButtonBackHome,
              DoorHitTop, DoorGoDown, DoorHitBottom, Begin
<1> QED BY <1>1, <1>2, <1>3, <1>4 DEF Next

-----------------------------------------------------------------------------
(* The think that takes mover m, in state t, on: a door on its way always  *)
(* has one, a button on its way in as long as no master can lock it, and   *)
(* what comes back by itself has one at the top too.                       *)
Pends(m, t, th) ==
  /\ m \in Doors =>
       /\ t = "UP" => th = "DoorHitTop"
       /\ t = "DOWN" => th = "DoorHitBottom"
       /\ t = "TOP" /\ m \notin Stay \cup Toggle => th = "DoorGoDown"
  /\ m \in Buttons =>
       /\ t = "UP" /\ Master[m] = None => th = "TriggerAndWait"
       /\ t = "DOWN" => th = "ButtonBackHome"
       /\ t = "TOP" /\ m \notin Stay \cup Toggle => th = "ButtonReturn"
NothingIsStranded == \A m \in Movers : Pends(m, toggle[m], think[m])

(* Doors that start are given the think that ends their way.               *)
LEMMA ActivatePends ==
  ASSUME NEW S \in SUBSET Doors, NEW st, NEW th,
         \A x \in Movers : Pends(x, st[x], th[x]),
         DoorActivate(S, st, th)
  PROVE  NothingIsStranded'
<1> SUFFICES ASSUME NEW x \in Movers PROVE Pends(x, toggle'[x], think'[x])
  BY DEF NothingIsStranded
<1>1. CASE x \in S
  <2>1. x \in Doors /\ x \notin Buttons
    BY <1>1, MechanismsAssumption
  <2>2. \/ toggle'[x] = "UP" /\ think'[x] = "DoorHitTop"
        \/ toggle'[x] = "DOWN" /\ think'[x] = "DoorHitBottom"
    BY <1>1 DEF DoorActivate
  <2> QED BY <2>1, <2>2 DEF Pends
<1>2. CASE x \notin S
  BY <1>2 DEF DoorActivate
<1> QED BY <1>1, <1>2

LEMMA ArrivePends ==
  ASSUME IInv, NothingIsStranded, NEW m \in Movers, NEW t, NEW th, NEW n, NEW direct,
         Pends(m, t, th), Arrive(m, t, th, n, direct)
  PROVE  NothingIsStranded'
<1> DEFINE now == IF m \in Delayed /\ n > direct THEN direct ELSE n
           ins == InputsAfter(m, m, now)
           st == [toggle EXCEPT ![m] = t]
           tk == [think EXCEPT ![m] = th]
           used == DoorsUsed(m, m, now)
<1>1. PICK S \in {Started(used, st, ins, Target[m])} : DoorActivate(S, st, tk)
  BY DEF Arrive
<1>2. used \in SUBSET Doors
  BY UsedFacts
<1>3. \A x \in Movers : Pends(x, st[x], tk[x])
  BY DEF NothingIsStranded, IInv, TypeOK
<1> HIDE DEF used, st, tk, ins, now
<1>4. S \in SUBSET Doors
  BY <1>1, <1>2, StartedFacts
<1> QED BY <1>1, <1>3, <1>4, ActivatePends

LEMMA BeginPends ==
  ASSUME IInv, NothingIsStranded, NEW m \in Movers, NEW t, NEW th, Pends(m, t, th), Begin(m, t, th)
  PROVE  NothingIsStranded'
BY DEF Begin, NothingIsStranded, IInv, TypeOK

LEMMA ButtonPends ==
  ASSUME IInv, NothingIsStranded, NEW b \in Buttons,
         \/ ButtonUse(b) \/ ButtonTouch(b) \/ TakeDamage(b)
         \/ TriggerAndWait(b) \/ ButtonReturns(b) \/ ButtonBackHome(b)
  PROVE  NothingIsStranded'
<1>0. /\ b \in Movers /\ b \notin Doors
      /\ Fits(b, toggle[b], think[b])
      /\ Master[b] = None => IsMasterTriggered(b)
  BY MechanismsAssumption DEF Movers, IInv, ThinksFit, IsMasterTriggered, Unlocked
<1>1. /\ Pends(b, "UP", "TriggerAndWait") /\ Pends(b, "DOWN", "ButtonBackHome")
      /\ Pends(b, "BOTTOM", "none")
      /\ Pends(b, "TOP", IF b \in Stay \cup Toggle THEN "none" ELSE "ButtonReturn")
  BY <1>0 DEF Pends
<1>2. ASSUME ButtonActivate(b) \/ ButtonReturn(b) PROVE NothingIsStranded'
  BY <1>0, <1>1, <1>2, BeginPends DEF ButtonActivate, ButtonReturn
<1>3. ASSUME UNCHANGED <<toggle, think>> PROVE NothingIsStranded'
  BY <1>3 DEF NothingIsStranded
<1>4. CASE ButtonUse(b) \/ ButtonReturns(b)
  BY <1>2, <1>4 DEF ButtonUse, ButtonReturns
<1>5. CASE ButtonTouch(b)
  <2>1. CASE Arrive(b, "DOWN", "ButtonBackHome", 1, 0)
    BY <1>0, <1>1, <2>1, ArrivePends
  <2> QED BY <1>2, <1>5, <2>1 DEF ButtonTouch
<1>6. CASE TakeDamage(b)
  BY <1>2, <1>3, <1>6 DEF TakeDamage
<1>7. CASE TriggerAndWait(b)
  <2>1. CASE IsMasterTriggered(b)
    <3> DEFINE th == IF b \in Stay \cup Toggle THEN "none" ELSE "ButtonReturn"
    <3>1. Arrive(b, "TOP", th, 1, 0) /\ Pends(b, "TOP", th)
      BY <1>1, <1>7, <2>1 DEF TriggerAndWait
    <3> HIDE DEF th
    <3> QED BY <1>0, <3>1, ArrivePends
  <2>2. CASE ~IsMasterTriggered(b)
    <3>1. think' = [think EXCEPT ![b] = "none"] /\ UNCHANGED toggle
      BY <1>7, <2>2 DEF TriggerAndWait
    <3>2. toggle[b] = "UP" /\ Master[b] # None
      BY <1>0, <1>7, <2>2 DEF TriggerAndWait, Fits
    <3>3. Pends(b, toggle[b], "none")
      BY <1>0, <3>2 DEF Pends
    <3> QED BY <3>1, <3>3 DEF NothingIsStranded, IInv, TypeOK
  <2> QED BY <2>1, <2>2
<1>8. CASE ButtonBackHome(b)
  <2> DEFINE direct == IF Target[b] \in Sources THEN 1 ELSE 0
             n == IF b \in Toggle THEN direct + 1 ELSE direct
  <2>1. Arrive(b, "BOTTOM", "none", n, direct)
    BY <1>8 DEF ButtonBackHome
  <2> HIDE DEF direct, n
  <2> QED BY <1>0, <1>1, <2>1, ArrivePends
<1> QED BY <1>4, <1>5, <1>6, <1>7, <1>8

LEMMA DoorPends ==
  ASSUME IInv, NothingIsStranded, NEW d \in Doors,
         \/ DoorTouch(d) \/ DoorUse(d) \/ Blocked(d)
         \/ DoorHitTop(d) \/ DoorGoDown(d) \/ DoorHitBottom(d)
  PROVE  NothingIsStranded'
<1>0. d \in Movers /\ d \notin Buttons /\ Buttons \cap Doors = {}
  BY MechanismsAssumption DEF Movers
<1>1. /\ Pends(d, "UP", "DoorHitTop") /\ Pends(d, "DOWN", "DoorHitBottom")
      /\ Pends(d, "BOTTOM", "none")
      /\ Pends(d, "TOP", IF d \in Stay \cup Toggle THEN "none" ELSE "DoorGoDown")
  BY <1>0 DEF Pends
<1>2. CASE DoorTouch(d) \/ DoorGoDown(d)
  <2>1. Begin(d, "UP", "DoorHitTop") \/ Begin(d, "DOWN", "DoorHitBottom")
    BY <1>2 DEF DoorTouch, DoorGoDown
  <2> QED BY <1>0, <1>1, <2>1, BeginPends
<1>3. CASE DoorUse(d)
  <2>1. DoorActivate({d}, toggle, think) /\ {d} \in SUBSET Doors
    BY <1>3 DEF DoorUse
  <2> QED BY <2>1, ActivatePends DEF NothingIsStranded
<1>4. CASE DoorHitTop(d)
  <2> DEFINE th == IF d \in Stay \cup Toggle THEN "none" ELSE "DoorGoDown"
  <2>1. Arrive(d, "TOP", th, 1, 0) /\ Pends(d, "TOP", th)
    BY <1>1, <1>4 DEF DoorHitTop
  <2> HIDE DEF th
  <2> QED BY <1>0, <2>1, ArrivePends
<1>5. CASE DoorHitBottom(d)
  BY <1>0, <1>1, <1>5, ArrivePends DEF DoorHitBottom
<1>6. CASE Blocked(d)
  <2> DEFINE R == {e \in Named(Name[d]) \cup {d} : e \notin Stay}
             T == R \ {e \in R : toggle[e] = "BOTTOM"}
  <2>1. T \subseteq Doors
    BY DEF Named
  <2>2. /\ toggle' = [x \in Movers |-> IF x \notin T THEN toggle[x]
                                      ELSE IF toggle[x] = "DOWN" THEN "UP" ELSE "DOWN"]
        /\ think' = [x \in Movers |-> IF x \notin T THEN think[x]
                                     ELSE IF toggle[x] = "DOWN" THEN "DoorHitTop" ELSE "DoorHitBottom"]
    BY <1>6 DEF Blocked
  <2> HIDE DEF T
  <2>3. ASSUME NEW x \in Movers PROVE Pends(x, toggle'[x], think'[x])
    <3>1. CASE x \in T
      <4>1. x \in Doors /\ x \notin Buttons
        BY <1>0, <2>1, <3>1
      <4>2. \/ toggle'[x] = "UP" /\ think'[x] = "DoorHitTop"
            \/ toggle'[x] = "DOWN" /\ think'[x] = "DoorHitBottom"
        BY <2>2, <3>1
      <4> QED BY <4>1, <4>2 DEF Pends
    <3>2. CASE x \notin T
      BY <2>2, <3>2 DEF NothingIsStranded
    <3> QED BY <3>1, <3>2
  <2> QED BY <2>3 DEF NothingIsStranded
<1> QED BY <1>2, <1>3, <1>4, <1>5, <1>6

LEMMA PendsStep == IInv /\ NothingIsStranded /\ [Next]_vars => NothingIsStranded'
<1> SUFFICES ASSUME IInv, NothingIsStranded, [Next]_vars PROVE NothingIsStranded'
  OBVIOUS
<1>1. CASE UNCHANGED vars
  BY <1>1 DEF vars, NothingIsStranded
<1>2. ASSUME NEW m \in Movers, FireDelayed(m) PROVE NothingIsStranded'
  <2> DEFINE used == DoorsUsed(m, None, 1)
             ins == InputsAfter(m, None, 1)
  <2>1. PICK S \in {Started(used, toggle, ins, Target[m])} : DoorActivate(S, toggle, think)
    BY <1>2 DEF FireDelayed
  <2>2. used \in SUBSET Doors
    BY UsedFacts
  <2> HIDE DEF used, ins
  <2>3. S \in SUBSET Doors
    BY <2>1, <2>2, StartedFacts
  <2> QED BY <2>1, <2>3, ActivatePends DEF NothingIsStranded
<1>3. ASSUME NEW m \in Movers, Moves(m) PROVE NothingIsStranded'
  BY <1>3, ButtonPends, DoorPends DEF Moves
<1> QED BY <1>1, <1>2, <1>3, ButtonPends, DoorPends DEF Next

-----------------------------------------------------------------------------
(* The inductive invariant holds in every reachable state, whatever the    *)
(* movers, sources and names are.                                          *)
THEOREM Invariance == Spec => []IInv
<1>1. IInv /\ [Next]_vars => IInv'
  BY Step
<1> QED BY <1>1, InitialInvariant, PTL DEF Spec

(* Movers, inputs and pending uses keep their types: DelayThink and the    *)
(* move functions leave nothing behind that they do not know.              *)
THEOREM TypeCorrect == Spec => []TypeOK
<1>1. IInv => TypeOK
  BY DEF IInv
<1> QED BY <1>1, Invariance, PTL

(* CMultiSource::Use only flips inputs; still they tell where the movers   *)
(* are, as long as these come back by themselves and undisturbed.          *)
THEOREM InputsTell == Spec => []InputsTellMovers
<1>1. IInv => InputsTellMovers
  BY DEF IInv
<1> QED BY <1>1, Invariance, PTL

(* CBaseDoor::Use is reached through a multisource only when all of its    *)
(* movers are in, however uses, touches and moves interleave.              *)
THEOREM GatesWait == Spec => DoorsWaitForAll
<1>1. IInv /\ IInv' /\ [Next]_vars =>
        [\A d \in Doors, s \in Sources :
           OnlyOpens(s, d) /\ toggle[d] = "BOTTOM" /\ toggle'[d] # "BOTTOM" /\ Plain(s)' =>
             \A m \in Inputs[s] : toggle'[m] \in {"TOP", "DOWN"}]_vars
  <2> SUFFICES ASSUME IInv, IInv', Next, OpenedByAll, NEW d \in Doors, NEW s \in Sources, OnlyOpens(s, d),
                      toggle[d] = "BOTTOM", toggle'[d] # "BOTTOM", Plain(s)', NEW m \in Inputs[s]
               PROVE  toggle'[m] \in {"TOP", "DOWN"}
    BY Step
  <2>1. Inputs[s] \subseteq on'[s]
    <3>1. Plain(s)
      BY ReversedGrows DEF Plain
    <3> QED BY <3>1 DEF OpenedByAll
  <2> QED BY <2>1 DEF IInv, InputsTellMovers, In
<1> QED BY <1>1, Invariance, PTL DEF Spec, DoorsWaitForAll

(* No door is left on its way, and nothing that comes back by itself is    *)
(* left at the top, without the think that takes it on, whoever uses,      *)
(* touches, shoots or blocks it; only a button that its master locks on    *)
(* the way in is.  This is what EverythingComesBack adds fairness to.      *)
THEOREM MoversKeepThinking == Spec => []NothingIsStranded
<1>1. Init => NothingIsStranded
  BY DEF Init, NothingIsStranded, Pends
<1> QED BY <1>1, PendsStep, Invariance, PTL DEF Spec
=============================================================================
