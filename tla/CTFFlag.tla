------------------------------- MODULE CTFFlag -------------------------------
(***************************************************************************)
(* Possession of the two flags of an Opposing Force CTF match.             *)
(*                                                                         *)
(* A flag is an entity of class CTFGoalFlag (dlls/ctf/CTFGoalFlag.cpp).    *)
(* The engine calls it back in two ways: its touch function when a player  *)
(* walks into it and its think function when its nextthink time has come.  *)
(* Which functions those are is itself state, rewired by every handler.    *)
(* Who carries a flag is written down in four places at once: m_iGoalState *)
(* and pev->owner of the flag, m_pFlag and two bits of m_iItems of the     *)
(* player.  Six other handlers (death, disconnect, connect, change of      *)
(* team, spectate, the displacer) move flags behind the flag's back, and   *)
(* all of them must keep the four in agreement.                            *)
(*                                                                         *)
(* The module follows the flags, and of each player what decides who may   *)
(* touch them.  The points the same handlers award are added by CTFScore,  *)
(* the powerups the players also carry by CTFItems.  Time is abstracted: a *)
(* pending think may run at any later moment.                              *)
(***************************************************************************)
EXTENDS Integers, FiniteSets

CONSTANTS
  Players,    (* the client slots 1..gpGlobals->maxClients                 *)
  NoPlayer    (* a null pev->owner                                         *)

ASSUME PlayersAssumption == NoPlayer \notin Players

(* The abstract view of the flags at the end of the module names the two   *)
(* places that are not players.                                            *)
ASSUME PlacesAssumption == "Base" \notin Players /\ "Ground" \notin Players

NoTeam == 0                  \* CTFTeam::None
Flags  == {1, 2}             \* m_iGoalNum: 1 Black Mesa's flag, 2 Opposing Force's
NoFlag == 0                  \* a null m_pFlag
Teams  == Flags \cup {NoTeam}

Lives == {"empty",           \* no client ever used this slot
          "connecting",      \* between ClientConnect and ClientPutInServer
          "observer",        \* pev->iuser1 # 0: not solid, in no team
          "alive",
          "dead",            \* health <= 0, not respawned yet
          "left"}            \* disconnected: the edict stays behind

GoalStates == {"AtBase", "Carried", "Dropped"}      \* m_iGoalState 1, 2, 3

(* The member function a flag runs at its nextthink; "None" when no think  *)
(* is pending.                                                             *)
Thinks == {"None", "FlagCarryThink", "goal_item_dropthink", "ReturnFlag",
           "ReturnFlagThink"}

VARIABLES
  gameOver,   (* g_fGameOver                                               *)
  life,       (* what each slot holds                                      *)
  team,       (* m_iTeamNum                                                *)
  pFlag,      (* m_pFlag: the flag a player believes to carry              *)
  items,      (* the two flag bits of m_iItems, as the set of their flags  *)
  goalState,  (* m_iGoalState                                              *)
  owner,      (* pev->owner                                                *)
  touchable,  (* the touch function is goal_item_touch, not null           *)
  trigger,    (* pev->solid is SOLID_TRIGGER, not SOLID_NOT                *)
  think,      (* the pending think function                                *)
  skin        (* pev->skin of the item_ctfbase of the flag: 1 when away    *)

playerVars  == <<life, team>>
wiringVars  == <<touchable, trigger, think>>
flagVars    == <<pFlag, items, goalState, owner, wiringVars, skin>>
vars        == <<gameOver, playerVars, flagVars>>

OtherTeam(f) == 3 - f

-----------------------------------------------------------------------------
(* The state once the map runs: CTFGoalFlag::Spawn has armed the touch and *)
(* PlaceItem has run, in the two frames the engine runs before it lets a   *)
(* client in.                                                              *)
Init ==
  /\ gameOver  = FALSE
  /\ life      = [p \in Players |-> "empty"]
  /\ team      = [p \in Players |-> NoTeam]
  /\ pFlag     = [p \in Players |-> NoFlag]
  /\ items     = [p \in Players |-> {}]
  /\ goalState = [f \in Flags |-> "AtBase"]
  /\ owner     = [f \in Flags |-> NoPlayer]
  /\ touchable = [f \in Flags |-> TRUE]
  /\ trigger   = [f \in Flags |-> TRUE]
  /\ think     = [f \in Flags |-> "None"]
  /\ skin      = [f \in Flags |-> 0]

-----------------------------------------------------------------------------
(* CTFGoalFlag::ReturnFlag for every flag of R: the flag vanishes to its   *)
(* base and stays untouchable until ReturnFlagThink.  pev->owner is not    *)
(* cleared, and it is the owner, not the caller, who loses the flag.       *)
ReturnFlags(R) ==
  LET losers == {owner[f] : f \in R}
  IN  /\ pFlag'     = [p \in Players |-> IF p \in losers THEN NoFlag ELSE pFlag[p]]
      /\ items'     = [p \in Players |-> IF p \in losers THEN {} ELSE items[p]]
      /\ goalState' = [f \in Flags |-> IF f \in R THEN "AtBase" ELSE goalState[f]]
      /\ touchable' = [f \in Flags |-> touchable[f] /\ f \notin R]
      /\ trigger'   = [f \in Flags |-> trigger[f] \/ f \in R]
      /\ think'     = [f \in Flags |-> IF f \in R THEN "ReturnFlagThink" ELSE think[f]]
      /\ skin'      = [f \in Flags |-> IF f \in R THEN 0 ELSE skin[f]]
      /\ UNCHANGED owner

ReturnFlag(f) == ReturnFlags({f})

(* Mutant: the bits of m_iItems are forgotten. *)
DropFlagKeepsBits(f, p) ==
  /\ pFlag'     = [pFlag EXCEPT ![p] = NoFlag]
  /\ goalState' = [goalState EXCEPT ![f] = "Dropped"]
  /\ owner'     = [owner EXCEPT ![f] = NoPlayer]
  /\ touchable' = [touchable EXCEPT ![f] = TRUE]
  /\ trigger'   = [trigger EXCEPT ![f] = TRUE]
  /\ think'     = [think EXCEPT ![f] = "goal_item_dropthink"]
  /\ UNCHANGED <<items, skin>>

(* CTFGoalFlag::DropFlag and the DoDrop it calls. *)
DropFlag(f, p) ==
  /\ pFlag'     = [pFlag EXCEPT ![p] = NoFlag]
  /\ items'     = [items EXCEPT ![p] = {}]
  /\ goalState' = [goalState EXCEPT ![f] = "Dropped"]
  /\ owner'     = [owner EXCEPT ![f] = NoPlayer]
  /\ touchable' = [touchable EXCEPT ![f] = TRUE]
  /\ trigger'   = [trigger EXCEPT ![f] = TRUE]
  /\ think'     = [think EXCEPT ![f] = "goal_item_dropthink"]
  /\ UNCHANGED skin

(* "if (!g_fGameOver) if (m_pFlag) m_pFlag->DropFlag(this)", which every   *)
(* handler that takes a player out of the fight repeats.                   *)
DropCarried(p) ==
  \/ /\ ~gameOver /\ pFlag[p] # NoFlag
     /\ DropFlag(pFlag[p], p)
  \/ /\ gameOver \/ pFlag[p] = NoFlag
     /\ UNCHANGED flagVars

-----------------------------------------------------------------------------
(* goal_item_touch: the engine calls it for a solid player and a trigger   *)
(* whose touch function is set.  Each action is one of its branches.       *)

(* Mutant: no check of pev->health. *)
TouchesDeadOrAlive(f, p) ==
  /\ touchable[f] /\ trigger[f]
  /\ life[p] \in {"alive", "dead"}

Touches(f, p) ==
  /\ touchable[f] /\ trigger[f]
  /\ life[p] = "alive"

(* An enemy takes the flag: GiveFlagToPlayer. *)
TakeFlag(f, p) ==
  /\ Touches(f, p)
  /\ team[p] # f
  /\ pFlag'     = [pFlag EXCEPT ![p] = f]
  /\ items'     = [items EXCEPT ![p] = @ \cup {f}]
  /\ goalState' = [goalState EXCEPT ![f] = "Carried"]
  /\ owner'     = [owner EXCEPT ![f] = p]
  /\ touchable' = [touchable EXCEPT ![f] = FALSE]
  /\ trigger'   = [trigger EXCEPT ![f] = FALSE]
  /\ think'     = [think EXCEPT ![f] = "FlagCarryThink"]
  /\ skin'      = [skin EXCEPT ![f] = 1]
  /\ UNCHANGED <<gameOver, playerVars>>

(* Mutant: a capture wherever the own flag is met. *)
CaptureAnywhere(f, p) ==
  /\ Touches(f, p)
  /\ team[p] = f
  /\ items[p] # {}
  /\ pFlag[p] # NoFlag /\ ReturnFlag(pFlag[p])
  /\ UNCHANGED <<gameOver, playerVars>>

(* A carrier reaches its own flag, which is at its base: a capture.  The   *)
(* code tests the item bits but returns the flag m_pFlag points to.        *)
CaptureFlag(f, p) ==
  /\ Touches(f, p)
  /\ team[p] = f /\ goalState[f] = "AtBase"
  /\ items[p] # {}
  /\ \/ pFlag[p] # NoFlag /\ ReturnFlag(pFlag[p])
     \/ pFlag[p] = NoFlag /\ UNCHANGED flagVars
  /\ UNCHANGED <<gameOver, playerVars>>

(* A player brings back its own flag from where it was dropped. *)
RescueFlag(f, p) ==
  /\ Touches(f, p)
  /\ team[p] = f /\ goalState[f] # "AtBase"
  /\ ReturnFlag(f)
  /\ UNCHANGED <<gameOver, playerVars>>

-----------------------------------------------------------------------------
(* The think functions. *)

(* Mutant: content with any owner. *)
FlagCarryThinkAnyOwner(f) ==
  /\ think[f] = "FlagCarryThink"
  /\ \/ owner[f] # NoPlayer /\ UNCHANGED flagVars
     \/ owner[f] = NoPlayer /\ ReturnFlag(f)
  /\ UNCHANGED <<gameOver, playerVars>>

(* FlagCarryThink looks for either flag bit of its owner, and comes back   *)
(* in 20 seconds when it finds one.                                        *)
FlagCarryThink(f) ==
  /\ think[f] = "FlagCarryThink"
  /\ \/ /\ owner[f] # NoPlayer /\ items[owner[f]] # {}
        /\ UNCHANGED flagVars
     \/ /\ owner[f] # NoPlayer => items[owner[f]] = {}
        /\ ReturnFlag(f)
  /\ UNCHANGED <<gameOver, playerVars>>

(* Mutant: no think is set for the second half of the wait. *)
DropThinkForgetsThink(f) ==
  /\ think[f] = "goal_item_dropthink"
  /\ \/ ReturnFlag(f)
     \/ /\ think' = [think EXCEPT ![f] = "None"]
        /\ UNCHANGED <<pFlag, items, goalState, owner, touchable, trigger, skin>>
  /\ UNCHANGED <<gameOver, playerVars>>

(* Five seconds after a drop: back to base at once out of lava, slime, the *)
(* sky or a wall, else g_flFlagReturnTime - 5 seconds later.               *)
goal_item_dropthink(f) ==
  /\ think[f] = "goal_item_dropthink"
  /\ \/ ReturnFlag(f)
     \/ /\ think' = [think EXCEPT ![f] = "ReturnFlag"]
        /\ UNCHANGED <<pFlag, items, goalState, owner, touchable, trigger, skin>>
  /\ UNCHANGED <<gameOver, playerVars>>

(* ReturnFlag as a think function. *)
DroppedTooLong(f) ==
  /\ think[f] = "ReturnFlag"
  /\ ReturnFlag(f)
  /\ UNCHANGED <<gameOver, playerVars>>

(* Mutant: visible again, but the touch function stays null. *)
ReturnFlagThinkNoTouch(f) ==
  /\ think[f] = "ReturnFlagThink"
  /\ think' = [think EXCEPT ![f] = "None"]
  /\ UNCHANGED <<gameOver, playerVars, pFlag, items, goalState, owner, touchable,
                 trigger, skin>>

(* A quarter second after ReturnFlag: visible again and touchable. *)
ReturnFlagThink(f) ==
  /\ think[f] = "ReturnFlagThink"
  /\ think'     = [think EXCEPT ![f] = "None"]
  /\ touchable' = [touchable EXCEPT ![f] = TRUE]
  /\ UNCHANGED <<gameOver, playerVars, pFlag, items, goalState, owner, trigger, skin>>

Think(f) ==
  \/ FlagCarryThink(f)
  \/ goal_item_dropthink(f)
  \/ DroppedTooLong(f)
  \/ ReturnFlagThink(f)

-----------------------------------------------------------------------------
(* The handlers of the players. *)

InTeams == {p \in Players : team[p] # NoTeam}

(* CHalfLifeCTFplay::ClientConnected, before the new client has an entity: *)
(* with at most one player in the teams the match starts over and carried  *)
(* flags go home.  Dropped ones stay where they are.                       *)
ClientConnect(p) ==
  /\ life[p] \in {"empty", "left"}
  /\ life' = [life EXCEPT ![p] = "connecting"]
  /\ \/ Cardinality(InTeams) <= 1 /\ ReturnFlags({pFlag[q] : q \in Players} \ {NoFlag})
     \/ Cardinality(InTeams) > 1 /\ UNCHANGED flagVars
  /\ UNCHANGED <<gameOver, team>>

(* ClientPutInServer: a fresh CBasePlayer, spawned as an observer.  The    *)
(* engine has freed the private data of whoever used the slot before.      *)
ClientPutInServer(p) ==
  /\ life[p] = "connecting"
  /\ life'  = [life EXCEPT ![p] = "observer"]
  /\ team'  = [team EXCEPT ![p] = NoTeam]
  /\ pFlag' = [pFlag EXCEPT ![p] = NoFlag]
  /\ items' = [items EXCEPT ![p] = {}]
  /\ UNCHANGED <<gameOver, goalState, owner, wiringVars, skin>>

(* ClientDisconnect: does nothing at all once the game is over, so that    *)
(* the entity of the client that left keeps its team and its flag.         *)
ClientDisconnect(p) ==
  /\ life[p] \in {"connecting", "observer", "alive", "dead"}
  /\ life' = [life EXCEPT ![p] = "left"]
  /\ team' = IF gameOver THEN team ELSE [team EXCEPT ![p] = NoTeam]
  /\ DropCarried(p)
  /\ UNCHANGED gameOver

(* Mutant: the index of the team where its number belongs. *)
JoinTeamByIndex(p, t) ==
  /\ life[p] = "observer"
  /\ life' = [life EXCEPT ![p] = "alive"]
  /\ team' = [team EXCEPT ![p] = t - 2]
  /\ UNCHANGED <<gameOver, flagVars>>

(* ChangePlayerTeam for a character of team t.  An observer just enters    *)
(* the game; a player who changes sides loses the flag and is killed, with *)
(* the team still the old one when the flag falls.                         *)
JoinTeam(p, t) ==
  /\ life[p] \in {"observer", "alive", "dead"}
  /\ team[p] # t
  /\ team' = [team EXCEPT ![p] = t]
  /\ \/ /\ life[p] = "observer"
        /\ life' = [life EXCEPT ![p] = "alive"]
        /\ UNCHANGED flagVars
     \/ /\ life[p] # "observer"
        /\ life' = [life EXCEPT ![p] = "dead"]
        /\ DropCarried(p)
  /\ UNCHANGED gameOver

(* Mutant: the team is wiped and the flag forgotten. *)
SpectateKeepsFlag(p) ==
  /\ life[p] \in {"observer", "alive", "dead"}
  /\ life' = [life EXCEPT ![p] = "observer"]
  /\ team' = [team EXCEPT ![p] = NoTeam]
  /\ UNCHANGED <<gameOver, flagVars>>

(* ChangePlayerTeam without a character: off to the spectators. *)
Spectate(p) ==
  /\ life[p] \in {"observer", "alive", "dead"}
  /\ life' = [life EXCEPT ![p] = "observer"]
  /\ team' = [team EXCEPT ![p] = NoTeam]
  /\ DropCarried(p)
  /\ UNCHANGED gameOver

(* PlayerKilled, which finds nothing to drop when the game is over. *)
PlayerKilled(p) ==
  /\ life[p] = "alive"
  /\ life' = [life EXCEPT ![p] = "dead"]
  /\ DropCarried(p)
  /\ UNCHANGED <<gameOver, team>>

(* PlayerDeathThink, through respawn() and CBasePlayer::Spawn.  It runs as *)
(* the think of the body, and mp_forcerespawn works in the intermission too. *)
Respawn(p) ==
  /\ life[p] = "dead"
  /\ life' = [life EXCEPT ![p] = "alive"]
  /\ UNCHANGED <<gameOver, team, flagVars>>

(* A displacer ball hits the carrier, or the carrier fires one at itself:  *)
(* the flag drops whether the game is over or not.                         *)
Displaced(p) ==
  /\ life[p] \in {"alive", "dead"}
  /\ pFlag[p] # NoFlag
  /\ DropFlag(pFlag[p], p)
  /\ UNCHANGED <<gameOver, playerVars>>

(* GoToIntermission. *)
GoToIntermission ==
  /\ ~gameOver
  /\ gameOver' = TRUE
  /\ UNCHANGED <<playerVars, flagVars>>

-----------------------------------------------------------------------------
TouchNext ==
  \E f \in Flags, p \in Players :
    TakeFlag(f, p) \/ CaptureFlag(f, p) \/ RescueFlag(f, p)

ThinkNext == \E f \in Flags : Think(f)

ClientNext ==
  \E p \in Players :
    \/ ClientConnect(p)
    \/ ClientPutInServer(p)
    \/ ClientDisconnect(p)
    \/ \E t \in Flags : JoinTeam(p, t)
    \/ Spectate(p)
    \/ PlayerKilled(p)
    \/ Respawn(p)
    \/ Displaced(p)

Next == TouchNext \/ ThinkNext \/ ClientNext \/ GoToIntermission

(* The engine runs every pending think once its time has come, in every    *)
(* frame: a think that stays pending is eventually executed.  Nobody       *)
(* promises that a player ever touches anything.                           *)
Fairness == \A f \in Flags : WF_vars(Think(f))

Spec == Init /\ [][Next]_vars /\ Fairness

-----------------------------------------------------------------------------
(* Properties. *)

TypeOK ==
  /\ gameOver  \in BOOLEAN
  /\ life      \in [Players -> Lives]
  /\ team      \in [Players -> Teams]
  /\ pFlag     \in [Players -> Flags \cup {NoFlag}]
  /\ items     \in [Players -> SUBSET Flags]
  /\ goalState \in [Flags -> GoalStates]
  /\ owner     \in [Flags -> Players \cup {NoPlayer}]
  /\ touchable \in [Flags -> BOOLEAN]
  /\ trigger   \in [Flags -> BOOLEAN]
  /\ think     \in [Flags -> Thinks]
  /\ skin      \in [Flags -> {0, 1}]

CarriedBy(f, p) == goalState[f] = "Carried" /\ owner[f] = p

(* While the match runs, the four records of a possession agree: a flag    *)
(* that says it is carried by p is the one m_pFlag of p points to and the  *)
(* only flag bit p has, and a carried flag has a carrier.  Every handler   *)
(* that touches one of the records must touch the other three.             *)
PossessionAgrees ==
  ~gameOver =>
    \A f \in Flags :
      /\ goalState[f] = "Carried" => owner[f] \in Players
      /\ \A p \in Players : /\ CarriedBy(f, p) <=> pFlag[p] = f
                            /\ CarriedBy(f, p) <=> f \in items[p]

(* While the match runs, whoever carries a flag is alive, in the game, and *)
(* in the other team: no dead body, spectator, departed client or player   *)
(* who changed sides keeps one.                                            *)
CarrierFights ==
  ~gameOver =>
    \A p \in Players :
      pFlag[p] # NoFlag => life[p] = "alive" /\ team[p] = OtherTeam(pFlag[p])

(* The callbacks of a flag fit its state, whoever changed it last: only a  *)
(* carried flag is not a trigger; a flag can be touched unless it is       *)
(* carried or vanishing; and a carried, dropped or vanishing flag always   *)
(* has the think pending that will move it on, so none is lost in limbo.   *)
CallbacksFit ==
  \A f \in Flags :
    /\ goalState[f] = "Carried" => think[f] = "FlagCarryThink"
    /\ goalState[f] = "Dropped" => think[f] \in {"goal_item_dropthink", "ReturnFlag"}
    /\ goalState[f] = "AtBase"  => think[f] \in {"None", "ReturnFlagThink"}
    /\ trigger[f] <=> goalState[f] # "Carried"
    /\ touchable[f] <=> trigger[f] /\ think[f] # "ReturnFlagThink"

(* The base of a flag shows the flag missing exactly when it is. *)
SkinTellsTruth == \A f \in Flags : skin[f] = 1 <=> goalState[f] # "AtBase"

(* While the match runs, a carried flag goes straight home only when its   *)
(* carrier's own flag stands ready at its base - a capture - or when a     *)
(* match with at most one player left starts over.  The failsafe of        *)
(* FlagCarryThink never fires.                                             *)
CaptureIsEarned ==
  [][\A f \in Flags :
       ~gameOver /\ goalState[f] = "Carried" /\ goalState'[f] = "AtBase"
         => \/ goalState[OtherTeam(f)] = "AtBase" /\ touchable[OtherTeam(f)]
            \/ Cardinality(InTeams) <= 1]_vars

(* A dropped flag does not lie around forever: somebody takes it or the    *)
(* chain of thinks brings it home.                                         *)
DroppedFlagMoves ==
  \A f \in Flags : goalState[f] = "Dropped" ~> goalState[f] # "Dropped"

(* A flag sent home can be taken and captured on again. *)
BaseReopens ==
  \A f \in Flags : goalState[f] = "AtBase" ~> touchable[f]

(* A flag whose owner lost its flag bits, as happens when a client leaves  *)
(* during the intermission and the slot is used again, comes home, unless  *)
(* that owner takes another flag.                                          *)
OrphanReturns ==
  \A f \in Flags, p \in Players :
    CarriedBy(f, p) /\ items[p] = {} ~> ~CarriedBy(f, p) \/ items[p] # {}

(* The four records read as one place, and the flags implement the         *)
(* abstract possession: FlagPossession says what a player may rely on.     *)
HolderOf(f) ==
  CASE goalState[f] = "AtBase"  -> "Base"
    [] goalState[f] = "Dropped" -> "Ground"
    [] goalState[f] = "Carried" -> owner[f]

Possession == INSTANCE FlagPossession WITH
  Base    <- "Base",
  Ground  <- "Ground",
  over    <- gameOver,
  inMatch <- InTeams,
  holder  <- [f \in Flags |-> HolderOf(f)]

ImplementsPossession == Possession!Spec

=============================================================================
