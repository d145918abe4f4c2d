------------------------------ MODULE Mechanisms ------------------------------
(***************************************************************************)
(* Buttons, doors and multisources (buttons.cpp, doors.cpp, subs.cpp): the *)
(* logic of a map.  A mover goes up when it is used, touched or shot, and  *)
(* comes back by itself or when it is used again; when it arrives it uses  *)
(* its target.  A multisource has an input for each mover that targets it; *)
(* while all of them are on it is triggered: it opens the doors it targets *)
(* and lets the movers move whose master it is.                            *)
(*                                                                         *)
(* The think function of a mover is its control state.  LinearMove and     *)
(* AngularMove leave a think that calls the m_pfnCallWhenMoveDone set just *)
(* before; the think is named after that here.                             *)
(*                                                                         *)
(* Every mover has some way to go (buttons that do not move are left out), *)
(* and the multisources have registered, which they do a tenth of a second *)
(* after the map has spawned.  Close targets and killtargets are left out. *)
(***************************************************************************)
EXTENDS Naturals

CONSTANTS
  Buttons, Doors, Sources,
  None,
  Names,         (* targetnames of doors                                   *)
  Name,          (* pev->targetname of each door                           *)
  Target,        (* pev->target of each mover: a source, a name or None    *)
  Opens,         (* pev->target of each source: a name or None             *)
  Master,        (* m_sMaster of each mover                                *)
  Inputs,        (* m_rgEntities: the movers each source has registered    *)
  Last,          (* the last of them                                       *)
  Toggle,        (* SF_BUTTON_TOGGLE, SF_DOOR_NO_AUTO_RETURN               *)
  Stay,          (* m_flWait is -1                                         *)
  TouchOnly,     (* the buttons with SF_BUTTON_TOUCH_ONLY                  *)
  Shootable,     (* the buttons with health                                *)
  UseOnly,       (* the doors with SF_DOOR_USE_ONLY                        *)
  Delayed,       (* the movers with an m_flDelay                           *)
  MaxPending     (* bound: DelayedUse entities of one mover                *)

Movers == Buttons \cup Doors

ASSUME MechanismsAssumption ==
  /\ Buttons \cap Doors = {} /\ Sources \cap Names = {}
  /\ None \notin Sources \cup Names
  /\ Name   \in [Doors -> Names \cup {None}]
  /\ Target \in [Movers -> Sources \cup Names \cup {None}]
  /\ Opens  \in [Sources -> Names \cup {None}]
  /\ Master \in [Movers -> Sources \cup {None}]
  /\ Inputs \in [Sources -> SUBSET Movers] /\ Last \in [Sources -> Movers]
  /\ \A s \in Sources, m \in Movers : m \in Inputs[s] => Target[m] = s
  /\ \A m \in Movers : Target[m] \in Sources => Last[Target[m]] \in Inputs[Target[m]]
  /\ TouchOnly \subseteq Buttons /\ Shootable \subseteq Buttons /\ UseOnly \subseteq Doors
  /\ MaxPending \in Nat

(* A door with a target has a name of its own or none (Blocked would fire  *)
(* the targets of its namesakes).                                          *)
ASSUME LonersAssumption ==
  \A d, e \in Doors : Target[d] # None /\ Name[d] # None /\ Name[e] = Name[d] => e = d

VARIABLES
  toggle,        (* m_toggle_state of each mover: TS_AT_BOTTOM, ...        *)
  think,         (* its pending think function                             *)
  touch,         (* the movers with a touch function                       *)
  on,            (* m_rgTriggered: the inputs of each source that are on   *)
  pending,       (* the DelayedUse entities of each mover                  *)
  reversed       (* history: the doors that something has stood in the way *)

vars == <<toggle, think, touch, on, pending, reversed>>

TypeOK ==
  /\ toggle \in [Movers -> {"BOTTOM", "UP", "TOP", "DOWN"}]
  /\ think \in [Movers -> {"none", "TriggerAndWait", "ButtonReturn", "ButtonBackHome",
                           "DoorHitTop", "DoorGoDown", "DoorHitBottom"}]
  /\ touch \subseteq Movers
  /\ on \in [Sources -> SUBSET Movers]
  /\ pending \in [Movers -> 0 .. MaxPending]
  /\ reversed \subseteq Doors

Init ==
  /\ toggle = [m \in Movers |-> "BOTTOM"]
  /\ think = [m \in Movers |-> "none"]
  /\ touch = TouchOnly \cup (Doors \ UseOnly)
  /\ on = [s \in Sources |-> {}]
  /\ pending = [m \in Movers |-> 0]
  /\ reversed = {}

-----------------------------------------------------------------------------
(* Firing of targets *)

IsTriggered(s) == Inputs[s] \subseteq on[s]
(* UTIL_IsMasterTriggered, once the inputs are ins.                        *)
Unlocked(m, ins) == Master[m] # None => Inputs[Master[m]] \subseteq ins[Master[m]]
IsMasterTriggered(m) == Unlocked(m, on)

Named(n) == {d \in Doors : Name[d] = n /\ n # None}

(* CMultiSource::Use finds the input of its caller.  The loop ends at the  *)
(* last input when the caller is none of them.                             *)
Input(s, caller) == IF caller \in Inputs[s] THEN caller ELSE Last[s]
Flip(s, caller) ==
  LET i == Input(s, caller)
  IN  IF i \in on[s] THEN on[s] \ {i} ELSE on[s] \cup {i}

(* The inputs after caller has used the target of m n times.               *)
InputsAfter(m, caller, n) ==
  IF Target[m] \in Sources /\ n = 1
  THEN [on EXCEPT ![Target[m]] = Flip(Target[m], caller)] ELSE on

(* Mutant: a source fires whenever it is used.                             *)
DoorsUsedAlways(m, caller, n) ==
  IF n = 0 THEN {}
  ELSE IF Target[m] \in Sources THEN Named(Opens[Target[m]]) ELSE Named(Target[m])

(* The doors that this uses.  A source fires whenever it is then triggered.*)
DoorsUsed(m, caller, n) ==
  IF Target[m] \in Sources
  THEN IF \/ n > 0 /\ Inputs[Target[m]] \subseteq Flip(Target[m], caller)
          \/ n > 1 /\ IsTriggered(Target[m])
       THEN Named(Opens[Target[m]]) ELSE {}
  ELSE IF n > 0 THEN Named(Target[m]) ELSE {}

(* CBaseDoor::Use of the doors of D when movers are in the states st and   *)
(* the inputs are ins, and what DoorActivate does to those it starts.  The *)
(* master of a door lets it move while it fires the door itself.           *)
Started(D, st, ins, firing) ==
  {d \in D : /\ st[d] = "BOTTOM" \/ (st[d] = "TOP" /\ d \in Toggle)
             /\ Unlocked(d, ins) \/ Master[d] = firing}
DoorActivate(S, st, th) ==
  /\ toggle' = [x \in Movers |-> IF x \notin S THEN st[x]
                                 ELSE IF st[x] = "BOTTOM" THEN "UP" ELSE "DOWN"]
  /\ think' = [x \in Movers |-> IF x \notin S THEN th[x]
                                ELSE IF st[x] = "BOTTOM" THEN "DoorHitTop" ELSE "DoorHitBottom"]

(* Mover m arrives in state t, thinks th next and uses its target n times, *)
(* of which SUB_UseTargets does not delay the direct ones.                 *)
Arrive(m, t, th, n, direct) ==
  LET later == m \in Delayed /\ n > direct
      now   == IF later THEN direct ELSE n
      ins   == InputsAfter(m, m, now)
      st    == [toggle EXCEPT ![m] = t]
  IN  /\ \E S \in {Started(DoorsUsed(m, m, now), st, ins, Target[m])} :
             DoorActivate(S, st, [think EXCEPT ![m] = th])
      /\ on' = ins
      /\ later => pending[m] < MaxPending                            \* bound
      /\ pending' = IF later THEN [pending EXCEPT ![m] = @ + 1] ELSE pending

(* DelayThink: the DelayedUse entity, which no source knows, is the caller.*)
FireDelayed(m) ==
  /\ pending[m] > 0
  /\ pending' = [pending EXCEPT ![m] = @ - 1]
  /\ LET ins == InputsAfter(m, None, 1)
     IN  /\ \E S \in {Started(DoorsUsed(m, None, 1), toggle, ins, Target[m])} :
                DoorActivate(S, toggle, think)
         /\ on' = ins
  /\ UNCHANGED <<touch, reversed>>

Begin(m, t, th) ==
  /\ toggle' = [toggle EXCEPT ![m] = t]
  /\ think' = [think EXCEPT ![m] = th]
  /\ UNCHANGED <<on, pending, reversed>>

-----------------------------------------------------------------------------
(* Buttons *)

Activates(b) == toggle[b] = "BOTTOM"
Returns(b)   == toggle[b] = "TOP" /\ b \in Toggle \ Stay

ButtonActivate(b) == IsMasterTriggered(b) /\ Begin(b, "UP", "TriggerAndWait")
ButtonReturn(b)   == Begin(b, "DOWN", "ButtonBackHome")

(* A player or a trigger uses a button.                                    *)
ButtonUse(b) ==
  /\ b \notin TouchOnly
  /\ \/ Returns(b) /\ ButtonReturn(b)
     \/ Activates(b) /\ ButtonActivate(b)
  /\ UNCHANGED touch

(* A player touches a button; a pushed one fires before it comes back.     *)
ButtonTouch(b) ==
  /\ b \in touch /\ IsMasterTriggered(b)
  /\ touch' = touch \ {b}
  /\ \/ Returns(b) /\ Arrive(b, "DOWN", "ButtonBackHome", 1, 0) /\ UNCHANGED reversed
     \/ Activates(b) /\ ButtonActivate(b)

(* A button is shot.  A locked one stays where it is, but loses its touch. *)
TakeDamage(b) ==
  /\ b \in Shootable
  /\ touch' = touch \ {b}
  /\ \/ Returns(b) /\ ButtonReturn(b)
     \/ Activates(b) /\ ButtonActivate(b)
     \/ Activates(b) /\ ~IsMasterTriggered(b)
        /\ UNCHANGED <<toggle, think, on, pending, reversed>>

(* Mutant: only buttons to touch come back by themselves.                  *)
TriggerAndWaitForUse(b) ==
  /\ think[b] = "TriggerAndWait" /\ IsMasterTriggered(b)
  /\ Arrive(b, "TOP", IF b \in TouchOnly THEN "ButtonReturn" ELSE "none", 1, 0)
  /\ UNCHANGED <<touch, reversed>>

(* The button is in.  If its master has been locked on the way, it stays   *)
(* between the two positions and does not think again.                     *)
TriggerAndWait(b) ==
  /\ think[b] = "TriggerAndWait"
  /\ \/ /\ IsMasterTriggered(b)
        /\ Arrive(b, "TOP", IF b \in Stay \cup Toggle THEN "none" ELSE "ButtonReturn", 1, 0)
        /\ touch' = IF b \in Stay \cup Toggle THEN touch \cup ({b} \cap TouchOnly) ELSE touch
     \/ /\ ~IsMasterTriggered(b)
        /\ think' = [think EXCEPT ![b] = "none"]
        /\ UNCHANGED <<toggle, touch, on, pending>>
  /\ UNCHANGED reversed

ButtonReturns(b) ==
  /\ think[b] = "ButtonReturn"
  /\ ButtonReturn(b)
  /\ UNCHANGED touch

(* Mutant: only toggle buttons tell their multisource that they are back.  *)
ButtonBackHomeSilently(b) ==
  /\ think[b] = "ButtonBackHome"
  /\ Arrive(b, "BOTTOM", "none", IF b \in Toggle THEN 1 ELSE 0, 0)
  /\ touch' = touch \cup ({b} \cap TouchOnly)
  /\ UNCHANGED reversed

(* The button is back.  Toggle buttons use their targets, then all of them *)
(* use the multisources among these.                                       *)
ButtonBackHome(b) ==
  /\ think[b] = "ButtonBackHome"
  /\ LET direct == IF Target[b] \in Sources THEN 1 ELSE 0
     IN  Arrive(b, "BOTTOM", "none", IF b \in Toggle THEN direct + 1 ELSE direct, direct)
  /\ touch' = touch \cup ({b} \cap TouchOnly)
  /\ UNCHANGED reversed

-----------------------------------------------------------------------------
(* Doors *)

(* A player touches a door that is nobody's target.                        *)
DoorTouch(d) ==
  /\ d \in touch /\ Name[d] = None /\ IsMasterTriggered(d)
  /\ touch' = touch \ {d}
  /\ IF toggle[d] = "TOP" /\ d \in Toggle
     THEN Begin(d, "DOWN", "DoorHitBottom") ELSE Begin(d, "UP", "DoorHitTop")

(* A player uses a door that is made for it.                               *)
DoorUse(d) ==
  /\ d \in UseOnly /\ Started({d}, toggle, on, None) # {}
  /\ DoorActivate({d}, toggle, think)
  /\ UNCHANGED <<touch, on, pending, reversed>>

DoorHitTop(d) ==
  /\ think[d] = "DoorHitTop"
  /\ Arrive(d, "TOP", IF d \in Stay \cup Toggle THEN "none" ELSE "DoorGoDown", 1, 0)
  /\ touch' = touch \cup ({d} \cap (Toggle \ UseOnly))
  /\ UNCHANGED reversed

DoorGoDown(d) ==
  /\ think[d] = "DoorGoDown"
  /\ Begin(d, "DOWN", "DoorHitBottom")
  /\ UNCHANGED touch

DoorHitBottom(d) ==
  /\ think[d] = "DoorHitBottom"
  /\ Arrive(d, "BOTTOM", "none", 1, 0)
  /\ touch' = touch \cup ({d} \ UseOnly)
  /\ UNCHANGED reversed

(* Something is in the way of a moving door.  The door goes back, and so   *)
(* do its namesakes, the waiting ones among them; one at the bottom is     *)
(* there at once.                                                          *)
Blocked(d) ==
  LET R == {e \in Named(Name[d]) \cup {d} : e \notin Stay}
      B == {e \in R : toggle[e] = "BOTTOM"}
  IN  /\ toggle[d] \in {"UP", "DOWN"} /\ R # {}
      /\ toggle' = [x \in Movers |-> IF x \notin R \ B THEN toggle[x]
                                     ELSE IF toggle[x] = "DOWN" THEN "UP" ELSE "DOWN"]
      /\ think' = [x \in Movers |-> IF x \notin R \ B THEN think[x]
                                    ELSE IF toggle[x] = "DOWN" THEN "DoorHitTop" ELSE "DoorHitBottom"]
      /\ touch' = touch \cup (B \ UseOnly)
      /\ reversed' = reversed \cup R
      /\ UNCHANGED <<on, pending>>

-----------------------------------------------------------------------------
Moves(m) ==
  \/ m \in Buttons /\ (TriggerAndWait(m) \/ ButtonReturns(m) \/ ButtonBackHome(m))
  \/ m \in Doors /\ (DoorHitTop(m) \/ DoorGoDown(m) \/ DoorHitBottom(m))

Next ==
  \/ \E b \in Buttons : ButtonUse(b) \/ ButtonTouch(b) \/ TakeDamage(b)
  \/ \E d \in Doors : DoorTouch(d) \/ DoorUse(d) \/ Blocked(d)
  \/ \E m \in Movers : Moves(m) \/ FireDelayed(m)

(* The engine lets every mover and every DelayedUse think in its time.     *)
Fairness == /\ \A m \in Movers : WF_vars(Moves(m))
            /\ \A m \in Movers \cap Delayed : WF_vars(FireDelayed(m))

Spec == Init /\ [][Next]_vars /\ Fairness

-----------------------------------------------------------------------------
(* Properties *)

In(m) == toggle[m] \in {"TOP", "DOWN"}

(* A source that only buttons that come back by themselves, and doors that *)
(* nothing has stood in the way of, use without a delay.                   *)
Plain(s) == /\ Inputs[s] \cap ((Toggle \cap Buttons) \cup reversed) = {}
            /\ \A m \in Movers : Target[m] = s => m \in Inputs[s] \ Delayed

(* The inputs of such a source tell where its movers are, whatever moves   *)
(* meanwhile, although each of them is only ever flipped.                  *)
InputsTellMovers ==
  \A s \in Sources : Plain(s) => \A m \in Inputs[s] : m \in on[s] <=> In(m)

OnlyOpens(s, d) ==
  /\ Name[d] # None /\ d \notin UseOnly \cup Toggle
  /\ Opens[s] = Name[d]
  /\ \A m \in Movers : Target[m] # Name[d]
  /\ \A r \in Sources : Opens[r] = Name[d] => r = s

(* A door that only such a source opens leaves its place only when all the *)
(* movers of the source are in.                                            *)
DoorsWaitForAll ==
  [][\A d \in Doors, s \in Sources :
        OnlyOpens(s, d) /\ toggle[d] = "BOTTOM" /\ toggle'[d] # "BOTTOM" /\ Plain(s)' =>
          \A m \in Inputs[s] : toggle'[m] \in {"TOP", "DOWN"}]_vars

(* What is to come back by itself does, unless something gets in its way:  *)
(* no button that needs no master and no door is left open.                *)
EverythingComesBack ==
  \A m \in Movers :
    m \notin Stay \cup Toggle /\ (m \in Buttons => Master[m] = None) =>
      (toggle[m] = "UP" ~> (toggle[m] = "BOTTOM" \/ m \in reversed))
=============================================================================
