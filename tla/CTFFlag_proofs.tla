---------------------------- MODULE CTFFlag_proofs ----------------------------
(***************************************************************************)
(* The safety of CTFFlag for any number of client slots, and of CTFScore,  *)
(* which counts the points in the same steps.                              *)
(*                                                                         *)
(* The properties are not inductive by themselves.  Three facts are        *)
(* missing.  A player in the game is in a team, so that taking the enemy's *)
(* flag makes a carrier of the other team.  What m_pFlag points to is      *)
(* carried by that player, in the intermission too, where nothing else     *)
(* agrees any more.  And a dropped flag has no owner: ReturnFlag strips    *)
(* whoever pev->owner names, so a dropped flag that still named its last   *)
(* carrier would, on its way home, rob that player of whatever flag it     *)
(* carries by then.                                                        *)
(***************************************************************************)
EXTENDS CTFScore, TLAPS

OwnerFits ==
  \A f \in Flags : /\ goalState[f] = "Dropped" => owner[f] = NoPlayer
                   /\ goalState[f] = "Carried" => owner[f] \in Players

MFlagIsCarried ==
  \A p \in Players : pFlag[p] # NoFlag => CarriedBy(pFlag[p], p)

FightersHaveTeams ==
  \A p \in Players : life[p] \in {"alive", "dead"} => team[p] \in Flags

PlayerTypes ==
  /\ gameOver  \in BOOLEAN
  /\ life      \in [Players -> Lives]
  /\ team      \in [Players -> Teams]

FlagTypes ==
  /\ pFlag     \in [Players -> Flags \cup {NoFlag}]
  /\ items     \in [Players -> SUBSET Flags]
  /\ goalState \in [Flags -> GoalStates]
  /\ owner     \in [Flags -> Players \cup {NoPlayer}]
  /\ touchable \in [Flags -> BOOLEAN]
  /\ trigger   \in [Flags -> BOOLEAN]
  /\ think     \in [Flags -> Thinks]
  /\ skin      \in [Flags -> {0, 1}]

PlayerInv == PlayerTypes /\ FightersHaveTeams

FlagInv ==
  /\ FlagTypes
  /\ OwnerFits
  /\ MFlagIsCarried
  /\ PossessionAgrees
  /\ CallbacksFit
  /\ SkinTellsTruth

IInv == PlayerInv /\ FlagInv /\ CarrierFights

-----------------------------------------------------------------------------
(* The two ways a flag leaves a player. *)

(* ReturnFlag keeps the records in agreement when, while the match runs,   *)
(* it is applied to flags away from their bases.                           *)
LEMMA ReturnFlagsSafe ==
  ASSUME FlagInv, PlayerTypes, NEW R \in SUBSET Flags, ReturnFlags(R),
         gameOver' = gameOver,
         ~gameOver => \A f \in R : goalState[f] # "AtBase"
  PROVE  FlagInv' /\ \A p \in Players : pFlag'[p] \in {pFlag[p], NoFlag}
PROOF
<1> USE DEF ReturnFlags, Flags, NoFlag
<1>1. FlagTypes'
  BY DEF FlagInv, FlagTypes, GoalStates, Thinks
<1>2. OwnerFits'
  BY DEF FlagInv, FlagTypes, OwnerFits
<1>3. PossessionAgrees'
  BY PlayersAssumption
  DEF FlagInv, FlagTypes, GoalStates, OwnerFits, PossessionAgrees, CarriedBy
<1>4. CallbacksFit'
  BY DEF FlagInv, FlagTypes, CallbacksFit
<1>5. SkinTellsTruth'
  BY DEF FlagInv, FlagTypes, SkinTellsTruth
<1>7. MFlagIsCarried'
  BY PlayersAssumption DEF FlagInv, FlagTypes, MFlagIsCarried, CarriedBy
<1>6. \A p \in Players : pFlag'[p] \in {pFlag[p], NoFlag}
  OBVIOUS
<1> QED
  BY <1>1, <1>2, <1>7, <1>3, <1>4, <1>5, <1>6 DEF FlagInv

(* DropFlag keeps them when the player drops the flag m_pFlag names. *)
LEMMA DropFlagSafe ==
  ASSUME FlagInv, PlayerTypes, NEW p \in Players, NEW f \in Flags, pFlag[p] = f,
         DropFlag(f, p), gameOver' = gameOver
  PROVE  FlagInv' /\ pFlag' = [pFlag EXCEPT ![p] = NoFlag]
PROOF
<1> USE DEF DropFlag, Flags, NoFlag
<1>1. FlagTypes'
  BY DEF FlagInv, FlagTypes, GoalStates, Thinks
<1>2. OwnerFits'
  BY DEF FlagInv, FlagTypes, OwnerFits
<1>3. PossessionAgrees'
  BY PlayersAssumption
  DEF FlagInv, FlagTypes, GoalStates, OwnerFits, PossessionAgrees, CarriedBy
<1>4. CallbacksFit'
  BY DEF FlagInv, FlagTypes, CallbacksFit
<1>5. SkinTellsTruth'
  BY DEF FlagInv, FlagTypes, MFlagIsCarried, CarriedBy, SkinTellsTruth
<1>7. MFlagIsCarried'
  BY DEF FlagInv, FlagTypes, MFlagIsCarried, CarriedBy
<1> QED
  BY <1>1, <1>2, <1>7, <1>3, <1>4, <1>5 DEF FlagInv

(* The guarded drop of the handlers: while the match runs the player is    *)
(* left with no flag, and nobody is given one.                             *)
LEMMA DropCarriedSafe ==
  ASSUME FlagInv, PlayerTypes, NEW p \in Players, DropCarried(p), gameOver' = gameOver
  PROVE  /\ FlagInv'
         /\ \A q \in Players : pFlag'[q] \in {pFlag[q], NoFlag}
         /\ ~gameOver => pFlag'[p] = NoFlag
PROOF
<1>1. CASE ~gameOver /\ pFlag[p] # NoFlag
  <2>1. pFlag[p] \in Flags
    BY <1>1 DEF FlagInv, FlagTypes
  <2>2. DropFlag(pFlag[p], p)
    BY <1>1 DEF DropCarried
  <2>3. FlagInv'
    BY <2>1, <2>2, DropFlagSafe
  <2>4. pFlag' = [pFlag EXCEPT ![p] = NoFlag]
    BY <2>2 DEF DropFlag
  <2> QED
    BY <2>3, <2>4 DEF FlagInv, FlagTypes
<1>2. CASE gameOver \/ pFlag[p] = NoFlag
  <2>1. UNCHANGED flagVars
    BY <1>2 DEF DropCarried, PlayerTypes
  <2>2. FlagInv'
    BY <2>1 DEF FlagInv, flagVars, wiringVars, FlagTypes, OwnerFits, MFlagIsCarried,
                CarriedBy, PossessionAgrees, CallbacksFit, SkinTellsTruth
  <2> QED
    BY <1>2, <2>1, <2>2 DEF flagVars
<1> QED
  BY <1>1, <1>2

(* A step that leaves the flags alone leaves what is said of them alone. *)
LEMMA FlagsUntouched ==
  ASSUME FlagInv, UNCHANGED flagVars, gameOver => gameOver'
  PROVE  FlagInv'
PROOF
  BY DEF FlagInv, flagVars, wiringVars, FlagTypes, OwnerFits, MFlagIsCarried,
         CarriedBy, PossessionAgrees, CallbacksFit, SkinTellsTruth

LEMMA InitSafe == Init => IInv
PROOF
<1> SUFFICES ASSUME Init PROVE IInv
  OBVIOUS
<1> USE DEF Init, Flags, NoFlag, NoTeam
<1>1. PlayerInv
  BY DEF PlayerInv, PlayerTypes, FightersHaveTeams, Lives, Teams
<1>2. FlagTypes
  BY DEF FlagTypes, GoalStates, Thinks
<1>3. OwnerFits /\ MFlagIsCarried /\ CallbacksFit /\ SkinTellsTruth
  BY DEF OwnerFits, MFlagIsCarried, CallbacksFit, SkinTellsTruth
<1>4. PossessionAgrees
  BY DEF PossessionAgrees, CarriedBy
<1>5. CarrierFights
  BY DEF CarrierFights
<1> QED
  BY <1>1, <1>2, <1>3, <1>4, <1>5 DEF IInv, FlagInv

-----------------------------------------------------------------------------
(* Every step preserves the inductive invariant. *)

(* Touches and thinks leave the players of CarrierFights in place. *)
LEMMA FlagStepSafe ==
  ASSUME IInv, FlagInv', UNCHANGED <<gameOver, playerVars>>,
         \A p \in Players : pFlag'[p] \in {pFlag[p], NoFlag}
  PROVE  IInv'
PROOF
  BY DEF IInv, PlayerInv, PlayerTypes, FightersHaveTeams, CarrierFights, playerVars

LEMMA TakeFlagSafe ==
  ASSUME IInv, NEW f \in Flags, NEW p \in Players, TakeFlag(f, p)
  PROVE  IInv'
PROOF
<1> USE DEF IInv, PlayerInv, PlayerTypes, FlagInv, FlagTypes
<1>1. /\ goalState[f] # "Carried"
      /\ life[p] = "alive" /\ team[p] \in Flags /\ team[p] # f
  BY DEF TakeFlag, Touches, CallbacksFit, FightersHaveTeams
<1>2. ~gameOver => pFlag[p] = NoFlag /\ items[p] = {}
  <2>1. SUFFICES ASSUME ~gameOver PROVE pFlag[p] = NoFlag /\ items[p] = {}
    OBVIOUS
  <2>2. pFlag[p] # NoFlag => pFlag[p] = f
    BY <1>1, <2>1 DEF CarrierFights, OtherTeam, Flags, NoFlag
  <2>3. pFlag[p] = NoFlag
    BY <1>1, <2>1, <2>2 DEF PossessionAgrees, CarriedBy
  <2>4. \A g \in Flags : g \notin items[p]
    BY <2>1, <2>3 DEF PossessionAgrees, NoFlag, Flags
  <2> QED
    BY <2>3, <2>4
<1>3. FlagTypes'
  BY DEF TakeFlag, GoalStates, Thinks, Flags
<1>4. OwnerFits' /\ CallbacksFit' /\ SkinTellsTruth'
  BY DEF TakeFlag, OwnerFits, CallbacksFit, SkinTellsTruth
<1>5. MFlagIsCarried'
  BY <1>1, PlayersAssumption DEF TakeFlag, MFlagIsCarried, CarriedBy, Flags, NoFlag
<1>6. PossessionAgrees'
  BY <1>1, <1>2 DEF TakeFlag, PossessionAgrees, CarriedBy, Flags, NoFlag
<1>7. CarrierFights'
  BY <1>1, <1>2 DEF TakeFlag, CarrierFights, playerVars, OtherTeam, Flags, NoFlag
<1>8. PlayerInv'
  BY DEF TakeFlag, playerVars, FightersHaveTeams
<1> QED
  BY <1>3, <1>4, <1>5, <1>6, <1>7, <1>8

LEMMA CaptureFlagSafe ==
  ASSUME IInv, NEW f \in Flags, NEW p \in Players, CaptureFlag(f, p)
  PROVE  IInv'
PROOF
<1>1. CASE pFlag[p] # NoFlag /\ ReturnFlag(pFlag[p])
  <2>1. {pFlag[p]} \in SUBSET Flags
    BY <1>1 DEF IInv, FlagInv, FlagTypes
  <2>2. goalState[pFlag[p]] = "Carried"
    BY <1>1 DEF IInv, FlagInv, MFlagIsCarried, CarriedBy
  <2>3. FlagInv' /\ \A q \in Players : pFlag'[q] \in {pFlag[q], NoFlag}
    BY <1>1, <2>1, <2>2, ReturnFlagsSafe DEF IInv, PlayerInv, ReturnFlag, CaptureFlag
  <2> QED
    BY <2>3, FlagStepSafe DEF CaptureFlag
<1>2. CASE pFlag[p] = NoFlag /\ UNCHANGED flagVars
  <2>1. FlagInv'
    BY <1>2, FlagsUntouched DEF IInv, CaptureFlag
  <2> QED
    BY <1>2, <2>1, FlagStepSafe DEF CaptureFlag, flagVars
<1> QED
  BY <1>1, <1>2 DEF CaptureFlag

(* The remaining callers of ReturnFlag return one flag that is not at its  *)
(* base.                                                                   *)
LEMMA ReturnOneSafe ==
  ASSUME IInv, NEW f \in Flags, ReturnFlag(f), UNCHANGED <<gameOver, playerVars>>,
         ~gameOver => goalState[f] # "AtBase"
  PROVE  IInv'
PROOF
<1>1. FlagInv' /\ \A q \in Players : pFlag'[q] \in {pFlag[q], NoFlag}
  BY ReturnFlagsSafe DEF IInv, PlayerInv, ReturnFlag
<1> QED
  BY <1>1, FlagStepSafe

LEMMA ThinkSafe ==
  ASSUME IInv, NEW f \in Flags, Think(f)
  PROVE  IInv'
PROOF
<1>0. /\ think[f] = "FlagCarryThink" => goalState[f] = "Carried"
      /\ think[f] \in {"goal_item_dropthink", "ReturnFlag"} => goalState[f] = "Dropped"
      /\ think[f] = "ReturnFlagThink" => goalState[f] = "AtBase"
  BY DEF IInv, FlagInv, FlagTypes, GoalStates, CallbacksFit
<1>1. CASE FlagCarryThink(f)
  <2>1. CASE UNCHANGED flagVars
    <3>1. FlagInv'
      BY <1>1, <2>1, FlagsUntouched DEF IInv, FlagCarryThink
    <3> QED
      BY <1>1, <2>1, <3>1, FlagStepSafe DEF FlagCarryThink, flagVars
  <2>2. CASE ReturnFlag(f)
    BY <1>0, <1>1, <2>2, ReturnOneSafe DEF FlagCarryThink
  <2> QED
    BY <1>1, <2>1, <2>2 DEF FlagCarryThink
<1>2. CASE goal_item_dropthink(f)
  <2>1. CASE ReturnFlag(f)
    BY <1>0, <1>2, <2>1, ReturnOneSafe DEF goal_item_dropthink
  <2>2. CASE /\ think' = [think EXCEPT ![f] = "ReturnFlag"]
             /\ UNCHANGED <<pFlag, items, goalState, owner, touchable, trigger, skin>>
    <3>1. FlagInv'
      BY <1>0, <1>2, <2>2
      DEF IInv, FlagInv, FlagTypes, Thinks, OwnerFits, MFlagIsCarried, CarriedBy,
          PossessionAgrees, CallbacksFit, SkinTellsTruth, goal_item_dropthink
    <3> QED
      BY <1>2, <2>2, <3>1, FlagStepSafe DEF goal_item_dropthink
  <2> QED
    BY <1>2, <2>1, <2>2 DEF goal_item_dropthink
<1>3. CASE DroppedTooLong(f)
  BY <1>0, <1>3, ReturnOneSafe DEF DroppedTooLong
<1>4. CASE ReturnFlagThink(f)
  <2>1. FlagInv'
    BY <1>0, <1>4
    DEF IInv, FlagInv, FlagTypes, Thinks, OwnerFits, MFlagIsCarried, CarriedBy,
        PossessionAgrees, CallbacksFit, SkinTellsTruth, ReturnFlagThink
  <2> QED
    BY <1>4, <2>1, FlagStepSafe DEF ReturnFlagThink
<1> QED
  BY <1>1, <1>2, <1>3, <1>4 DEF Think

LEMMA TouchSafe ==
  ASSUME IInv, TouchNext
  PROVE  IInv'
PROOF
<1> PICK f \in Flags, p \in Players :
           TakeFlag(f, p) \/ CaptureFlag(f, p) \/ RescueFlag(f, p)
  BY DEF TouchNext
<1>1. CASE TakeFlag(f, p)
  BY <1>1, TakeFlagSafe
<1>2. CASE CaptureFlag(f, p)
  BY <1>2, CaptureFlagSafe
<1>3. CASE RescueFlag(f, p)
  BY <1>3, ReturnOneSafe DEF RescueFlag
<1> QED
  BY <1>1, <1>2, <1>3

(* A handler that takes player p out of the fight: p drops its flag, the   *)
(* others stay who they are.                                               *)
LEMMA DropOutSafe ==
  ASSUME IInv, NEW p \in Players, DropCarried(p), PlayerInv', gameOver' = gameOver,
         \A q \in Players \ {p} : life'[q] = life[q] /\ team'[q] = team[q]
  PROVE  IInv'
PROOF
<1>1. /\ FlagInv'
      /\ \A q \in Players : pFlag'[q] \in {pFlag[q], NoFlag}
      /\ ~gameOver => pFlag'[p] = NoFlag
  BY DropCarriedSafe DEF IInv, PlayerInv
<1>2. CarrierFights'
  BY <1>1 DEF IInv, CarrierFights
<1> QED
  BY <1>1, <1>2 DEF IInv

LEMMA ConnectSafe ==
  ASSUME IInv, NEW p \in Players, ClientConnect(p)
  PROVE  IInv'
PROOF
<1>1. PlayerInv'
  BY DEF IInv, PlayerInv, PlayerTypes, FightersHaveTeams, ClientConnect, Lives
<1>2. FlagInv' /\ \A q \in Players : pFlag'[q] \in {pFlag[q], NoFlag}
  <2>1. CASE ReturnFlags({pFlag[q] : q \in Players} \ {NoFlag})
    <3> DEFINE R == {pFlag[q] : q \in Players} \ {NoFlag}
    <3>1. R \in SUBSET Flags
      BY DEF IInv, FlagInv, FlagTypes
    <3>2. \A f \in R : goalState[f] # "AtBase"
      BY DEF IInv, FlagInv, MFlagIsCarried, CarriedBy
    <3> HIDE DEF R
    <3>3. ReturnFlags(R)
      BY <2>1 DEF R
    <3> QED
      BY <3>1, <3>2, <3>3, ReturnFlagsSafe DEF IInv, PlayerInv, ClientConnect
  <2>2. CASE UNCHANGED flagVars
    BY <2>2, FlagsUntouched DEF IInv, ClientConnect, flagVars
  <2> QED
    BY <2>1, <2>2 DEF ClientConnect
<1>3. CarrierFights'
  BY <1>2 DEF IInv, PlayerInv, PlayerTypes, CarrierFights, ClientConnect
<1> QED
  BY <1>1, <1>2, <1>3 DEF IInv

(* The private data of the slot is new.  While the match runs its last     *)
(* user had nothing left to lose.                                          *)
LEMMA PutInServerSafe ==
  ASSUME IInv, NEW p \in Players, ClientPutInServer(p)
  PROVE  IInv'
PROOF
<1> USE DEF IInv, PlayerInv, PlayerTypes, FlagInv, FlagTypes, ClientPutInServer, wiringVars,
            Flags, NoFlag
<1>1. ~gameOver => pFlag[p] = NoFlag /\ items[p] = {}
  <2>1. SUFFICES ASSUME ~gameOver PROVE pFlag[p] = NoFlag /\ items[p] = {}
    OBVIOUS
  <2>2. pFlag[p] = NoFlag
    BY <2>1 DEF CarrierFights
  <2>3. \A g \in Flags : g \notin items[p]
    BY <2>1, <2>2 DEF PossessionAgrees
  <2> QED
    BY <2>2, <2>3
<1>2. PlayerInv'
  BY DEF FightersHaveTeams, Lives, Teams, NoTeam
<1>3. FlagTypes'
  OBVIOUS
<1>4. OwnerFits' /\ CallbacksFit' /\ SkinTellsTruth'
  BY DEF OwnerFits, CallbacksFit, SkinTellsTruth
<1>5. MFlagIsCarried'
  BY DEF MFlagIsCarried, CarriedBy
<1>6. PossessionAgrees'
  BY <1>1 DEF PossessionAgrees, CarriedBy
<1>7. CarrierFights'
  BY DEF CarrierFights
<1> QED
  BY <1>2, <1>3, <1>4, <1>5, <1>6, <1>7

LEMMA ClientSafe ==
  ASSUME IInv, ClientNext
  PROVE  IInv'
PROOF
<1> PICK p \in Players :
      \/ ClientConnect(p) \/ ClientPutInServer(p) \/ ClientDisconnect(p)
      \/ \E t \in Flags : JoinTeam(p, t)
      \/ Spectate(p) \/ PlayerKilled(p) \/ Respawn(p) \/ Displaced(p)
  BY DEF ClientNext
<1> USE DEF PlayerInv, PlayerTypes, FightersHaveTeams, Lives, Teams, NoTeam
<1>1. CASE ClientConnect(p)
  BY <1>1, ConnectSafe
<1>2. CASE ClientPutInServer(p)
  BY <1>2, PutInServerSafe
<1>3. CASE ClientDisconnect(p)
  <2>1. PlayerInv'
    BY <1>3 DEF IInv, ClientDisconnect
  <2> QED
    BY <1>3, <2>1, DropOutSafe DEF IInv, ClientDisconnect
<1>4. CASE \E t \in Flags : JoinTeam(p, t)
  <2> PICK t \in Flags : JoinTeam(p, t)
    BY <1>4
  <2>1. PlayerInv'
    BY DEF IInv, JoinTeam
  <2>2. CASE life[p] = "observer"
    <3>1. UNCHANGED flagVars /\ UNCHANGED gameOver
      BY <2>2 DEF JoinTeam
    <3>2. FlagInv'
      BY <3>1, FlagsUntouched DEF IInv
    <3>3. CarrierFights'
      BY <2>2, <3>1 DEF IInv, CarrierFights, JoinTeam, flagVars
    <3> QED
      BY <2>1, <3>2, <3>3 DEF IInv
  <2>3. CASE life[p] # "observer"
    BY <2>1, <2>3, DropOutSafe DEF IInv, JoinTeam
  <2> QED
    BY <2>2, <2>3
<1>5. CASE Spectate(p)
  <2>1. PlayerInv'
    BY <1>5 DEF IInv, Spectate
  <2> QED
    BY <1>5, <2>1, DropOutSafe DEF IInv, Spectate
<1>6. CASE PlayerKilled(p)
  <2>1. PlayerInv'
    BY <1>6 DEF IInv, PlayerKilled
  <2> QED
    BY <1>6, <2>1, DropOutSafe DEF IInv, PlayerKilled
<1>7. CASE Respawn(p)
  <2>1. PlayerInv'
    BY <1>7 DEF IInv, Respawn
  <2>2. FlagInv'
    BY <1>7, FlagsUntouched DEF IInv, Respawn
  <2>3. CarrierFights'
    BY <1>7 DEF IInv, CarrierFights, Respawn, flagVars
  <2> QED
    BY <2>1, <2>2, <2>3 DEF IInv
<1>8. CASE Displaced(p)
  <2>1. pFlag[p] \in Flags
    BY <1>8 DEF IInv, FlagInv, FlagTypes, Displaced
  <2>2. FlagInv' /\ pFlag' = [pFlag EXCEPT ![p] = NoFlag]
    BY <1>8, <2>1, DropFlagSafe DEF IInv, Displaced
  <2>3. \A q \in Players : pFlag'[q] \in {pFlag[q], NoFlag}
    BY <2>2 DEF IInv, FlagInv, FlagTypes
  <2> QED
    BY <1>8, <2>2, <2>3, FlagStepSafe DEF Displaced
<1> QED
  BY <1>1, <1>2, <1>3, <1>4, <1>5, <1>6, <1>7, <1>8

LEMMA NextSafe == IInv /\ [Next]_vars => IInv'
PROOF
<1> SUFFICES ASSUME IInv, [Next]_vars PROVE IInv'
  OBVIOUS
<1>1. CASE TouchNext
  BY <1>1, TouchSafe
<1>2. CASE ThinkNext
  BY <1>2, ThinkSafe DEF ThinkNext
<1>3. CASE ClientNext
  BY <1>3, ClientSafe
<1>4. CASE GoToIntermission
  <2>1. FlagInv'
    BY <1>4, FlagsUntouched DEF IInv, GoToIntermission
  <2> QED
    BY <1>4, <2>1
    DEF IInv, PlayerInv, PlayerTypes, FightersHaveTeams, CarrierFights, GoToIntermission,
        playerVars
<1>5. CASE UNCHANGED vars
  <2>1. FlagInv'
    BY <1>5, FlagsUntouched DEF IInv, vars
  <2> QED
    BY <1>5, <2>1
    DEF IInv, PlayerInv, PlayerTypes, FightersHaveTeams, CarrierFights, vars, playerVars,
        flagVars
<1> QED
  BY <1>1, <1>2, <1>3, <1>4, <1>5 DEF Next

-----------------------------------------------------------------------------
(* The results. *)

(* The inductive invariant holds in every reachable state. *)
THEOREM FlagInvariance == Spec => []IInv
PROOF
  BY InitSafe, NextSafe, PTL DEF Spec

(* Every variable keeps its type. *)
THEOREM TypeCorrect == Spec => []TypeOK
PROOF
<1>1. IInv => TypeOK
  BY DEF IInv, PlayerInv, PlayerTypes, FlagInv, FlagTypes, TypeOK
<1> QED
  BY <1>1, FlagInvariance, PTL

(* While the match runs, flag state, owner, m_pFlag and item bits agree on *)
(* who carries what, for any number of clients.                            *)
THEOREM PossessionAgreement == Spec => []PossessionAgrees
PROOF
<1>1. IInv => PossessionAgrees
  BY DEF IInv, FlagInv
<1> QED
  BY <1>1, FlagInvariance, PTL

(* While the match runs, every carrier is alive and an enemy of its flag. *)
THEOREM CarriersFight == Spec => []CarrierFights
PROOF
<1>1. IInv => CarrierFights
  BY DEF IInv
<1> QED
  BY <1>1, FlagInvariance, PTL

(* The callbacks of a flag always fit its state. *)
THEOREM CallbackDiscipline == Spec => [](CallbacksFit /\ SkinTellsTruth)
PROOF
<1>1. IInv => CallbacksFit /\ SkinTellsTruth
  BY DEF IInv, FlagInv
<1> QED
  BY <1>1, FlagInvariance, PTL

(* Who can send a carried flag home while the match runs. *)
LEMMA SentHomeByCapture ==
  ASSUME IInv, Next, ~gameOver, NEW f \in Flags, goalState[f] = "Carried",
         goalState'[f] = "AtBase"
  PROVE  \/ goalState[OtherTeam(f)] = "AtBase" /\ touchable[OtherTeam(f)]
         \/ Cardinality(InTeams) <= 1
PROOF
<1> USE DEF IInv, FlagInv, FlagTypes
<1>0. ~touchable[f] /\ think[f] = "FlagCarryThink"
  BY DEF CallbacksFit
<1>1. CASE TouchNext
  <2> PICK g \in Flags, p \in Players :
             TakeFlag(g, p) \/ CaptureFlag(g, p) \/ RescueFlag(g, p)
    BY <1>1 DEF TouchNext
  <2>1. CASE TakeFlag(g, p)
    BY <2>1 DEF TakeFlag
  <2>2. CASE CaptureFlag(g, p)
    <3>1. pFlag[p] # NoFlag /\ ReturnFlag(pFlag[p])
      BY <2>2 DEF CaptureFlag, flagVars
    <3>2. pFlag[p] = f
      BY <3>1 DEF ReturnFlag, ReturnFlags
    <3>3. team[p] = OtherTeam(f)
      BY <3>1, <3>2 DEF CarrierFights
    <3> QED
      BY <2>2, <3>3 DEF CaptureFlag, Touches
  <2>3. CASE RescueFlag(g, p)
    BY <1>0, <2>3 DEF RescueFlag, Touches, ReturnFlag, ReturnFlags
  <2> QED
    BY <2>1, <2>2, <2>3
<1>2. CASE ThinkNext
  <2> PICK g \in Flags : Think(g)
    BY <1>2 DEF ThinkNext
  <2>1. CASE FlagCarryThink(g)
    <3>1. CASE f = g
      <4>1. owner[f] \in Players /\ f \in items[owner[f]]
        BY DEF PossessionAgrees, CarriedBy
      <4> QED
        BY <2>1, <3>1, <4>1, PlayersAssumption DEF FlagCarryThink, flagVars
    <3>2. CASE f # g
      BY <2>1, <3>2 DEF FlagCarryThink, flagVars, ReturnFlag, ReturnFlags
    <3> QED
      BY <3>1, <3>2
  <2>2. CASE goal_item_dropthink(g)
    BY <1>0, <2>2 DEF goal_item_dropthink, ReturnFlag, ReturnFlags
  <2>3. CASE DroppedTooLong(g)
    BY <1>0, <2>3 DEF DroppedTooLong, ReturnFlag, ReturnFlags
  <2>4. CASE ReturnFlagThink(g)
    BY <2>4 DEF ReturnFlagThink
  <2> QED
    BY <2>1, <2>2, <2>3, <2>4 DEF Think
<1>3. CASE ClientNext
  <2> PICK p \in Players :
        \/ ClientConnect(p) \/ ClientPutInServer(p) \/ ClientDisconnect(p)
        \/ \E t \in Flags : JoinTeam(p, t)
        \/ Spectate(p) \/ PlayerKilled(p) \/ Respawn(p) \/ Displaced(p)
    BY <1>3 DEF ClientNext
  <2>1. ~DropCarried(p)
    BY DEF DropCarried, DropFlag, flagVars
  <2>2. ~UNCHANGED flagVars
    BY DEF flagVars
  <2>3. CASE ClientConnect(p)
    BY <2>2, <2>3 DEF ClientConnect
  <2>4. CASE ClientPutInServer(p)
    BY <2>4 DEF ClientPutInServer
  <2>5. CASE Displaced(p)
    BY <2>5 DEF Displaced, DropFlag
  <2> QED
    BY <2>1, <2>2, <2>3, <2>4, <2>5
    DEF ClientDisconnect, JoinTeam, Spectate, PlayerKilled, Respawn
<1>4. CASE GoToIntermission
  BY <1>4 DEF GoToIntermission, flagVars
<1> QED
  BY <1>1, <1>2, <1>3, <1>4 DEF Next

(* While the match runs, a carried flag goes straight home only by a       *)
(* capture or when the match starts over.                                  *)
THEOREM CapturesAreEarned == Spec => CaptureIsEarned
PROOF
<1> DEFINE Earned ==
      \A f \in Flags :
        ~gameOver /\ goalState[f] = "Carried" /\ goalState'[f] = "AtBase"
          => \/ goalState[OtherTeam(f)] = "AtBase" /\ touchable[OtherTeam(f)]
             \/ Cardinality(InTeams) <= 1
<1>1. IInv /\ [Next]_vars => [Earned]_vars
  BY SentHomeByCapture
<1>2. Spec => [][Earned]_vars
  BY <1>1, FlagInvariance, PTL DEF Spec
<1> QED
  BY <1>2 DEF CaptureIsEarned

-----------------------------------------------------------------------------
(* The refinement of FlagPossession, its safety half: the initial state    *)
(* maps to the initial state, and every step to a step or a stutter.       *)
(*                                                                         *)
(* The map reads the place of a flag off m_iGoalState and pev->owner.  To  *)
(* show that a step which changes m_pFlag is the right abstract step, IInv *)
(* is needed: it is what makes m_pFlag another name for that place.        *)

Places == [f \in Flags |-> HolderOf(f)]

AbstractStep == Possession!Next \/ UNCHANGED Possession!vars

-----------------------------------------------------------------------------
(* What the three states of a flag mean for its place. *)
LEMMA PlaceOf ==
  ASSUME IInv, NEW f \in Flags
  PROVE  /\ goalState[f] = "AtBase"  => HolderOf(f) = "Base"
         /\ goalState[f] = "Dropped" => HolderOf(f) = "Ground"
         /\ goalState[f] = "Carried" => HolderOf(f) = owner[f] /\ owner[f] \in Players
         /\ HolderOf(f) \in Players \cup {"Base", "Ground"}
         /\ HolderOf(f) \in Players <=> goalState[f] = "Carried"
         /\ HolderOf(f) = "Base" <=> goalState[f] = "AtBase"
PROOF
  BY PlacesAssumption
  DEF IInv, FlagInv, FlagTypes, GoalStates, OwnerFits, HolderOf

LEMMA PlaceOfNext ==
  ASSUME IInv', NEW f \in Flags
  PROVE  /\ goalState'[f] = "AtBase"  => HolderOf(f)' = "Base"
         /\ goalState'[f] = "Dropped" => HolderOf(f)' = "Ground"
         /\ goalState'[f] = "Carried" => HolderOf(f)' = owner'[f] /\ owner'[f] \in Players
         /\ HolderOf(f)' \in Players \cup {"Base", "Ground"}
PROOF
  BY PlacesAssumption
  DEF IInv, FlagInv, FlagTypes, GoalStates, OwnerFits, HolderOf

(* While the match runs, m_pFlag is another name for the place. *)
LEMMA MFlagIsPlace ==
  ASSUME IInv, ~gameOver, NEW f \in Flags, NEW p \in Players
  PROVE  pFlag[p] = f <=> HolderOf(f) = p
PROOF
  BY PlaceOf, PlacesAssumption DEF IInv, FlagInv, PossessionAgrees, CarriedBy

LEMMA InitRefines == Init => Possession!Init
PROOF
  BY DEF Init, Possession!Init, HolderOf, InTeams

-----------------------------------------------------------------------------
(* One lemma for each way the places change while the match runs.          *)

Unmoved == \A f \in Flags : HolderOf(f)' = HolderOf(f)

(* The place of a flag depends on its m_iGoalState and pev->owner alone. *)
LEMMA PlaceUnmoved ==
  ASSUME NEW f \in Flags, goalState'[f] = goalState[f], owner'[f] = owner[f]
  PROVE  HolderOf(f)' = HolderOf(f)
PROOF
  BY DEF HolderOf

LEMMA PlacesUnmoved ==
  ASSUME UNCHANGED <<goalState, owner>>
  PROVE  Unmoved
PROOF
  BY DEF Unmoved, HolderOf

(* DropFlag moves one flag from its carrier to the ground. *)
LEMMA DropRefines ==
  ASSUME IInv, IInv', ~gameOver, NEW p \in Players, NEW f \in Flags, pFlag[p] = f,
         DropFlag(f, p)
  PROVE  /\ HolderOf(f) = p /\ HolderOf(f)' = "Ground"
         /\ \A g \in Flags \ {f} : HolderOf(g)' = HolderOf(g) /\ HolderOf(g) # p
PROOF
<1>1. HolderOf(f) = p
  BY MFlagIsPlace
<1>2. HolderOf(f)' = "Ground"
  BY PlaceOfNext DEF DropFlag, IInv, FlagInv, FlagTypes
<1>3. \A g \in Flags \ {f} : HolderOf(g)' = HolderOf(g)
  BY DEF DropFlag, IInv, FlagInv, FlagTypes, HolderOf
<1>4. \A g \in Flags \ {f} : HolderOf(g) # p
  BY MFlagIsPlace
<1> QED
  BY <1>1, <1>2, <1>3, <1>4

(* The guarded drop leaves p without a flag and the others alone. *)
LEMMA DropCarriedRefines ==
  ASSUME IInv, IInv', ~gameOver, NEW p \in Players, DropCarried(p)
  PROVE  \A f \in Flags :
           HolderOf(f)' = IF HolderOf(f) = p THEN "Ground" ELSE HolderOf(f)
PROOF
<1>1. CASE pFlag[p] # NoFlag
  <2>1. pFlag[p] \in Flags /\ DropFlag(pFlag[p], p)
    BY <1>1 DEF DropCarried, IInv, FlagInv, FlagTypes
  <2> QED
    BY <2>1, DropRefines
<1>2. CASE pFlag[p] = NoFlag
  <2>1. Unmoved
    BY <1>2, PlacesUnmoved DEF DropCarried, flagVars
  <2>2. \A f \in Flags : HolderOf(f) # p
    BY <1>2, MFlagIsPlace DEF Flags, NoFlag
  <2> QED
    BY <2>1, <2>2 DEF Unmoved
<1> QED
  BY <1>1, <1>2

(* ReturnFlag for flags that are away moves exactly those to their bases. *)
LEMMA ReturnRefines ==
  ASSUME IInv, IInv', NEW R \in SUBSET Flags, ReturnFlags(R)
  PROVE  \A f \in Flags : HolderOf(f)' = IF f \in R THEN "Base" ELSE HolderOf(f)
PROOF
<1> SUFFICES ASSUME NEW f \in Flags
             PROVE  HolderOf(f)' = IF f \in R THEN "Base" ELSE HolderOf(f)
  OBVIOUS
<1>1. CASE f \in R
  BY <1>1, PlaceOfNext DEF ReturnFlags
<1>2. CASE f \notin R
  BY <1>2, PlaceUnmoved DEF ReturnFlags
<1> QED
  BY <1>1, <1>2

(* A step that changes neither the places nor the teams is a stutter. *)
LEMMA StutterRefines ==
  ASSUME Unmoved, UNCHANGED <<gameOver, InTeams>>
  PROVE  AbstractStep
PROOF
  BY DEF AbstractStep, Possession!vars, Unmoved

(* One flag comes back from the ground. *)
LEMMA OneReturnRefines ==
  ASSUME IInv, IInv', NEW f \in Flags, goalState[f] = "Dropped", ReturnFlag(f),
         UNCHANGED <<gameOver, playerVars>>
  PROVE  AbstractStep
PROOF
<1>1. \A g \in Flags : HolderOf(g)' = IF g = f THEN "Base" ELSE HolderOf(g)
  BY ReturnRefines DEF ReturnFlag
<1>2. HolderOf(f) = "Ground"
  BY PlaceOf
<1>3. UNCHANGED InTeams
  BY DEF playerVars, InTeams
<1>4. Possession!Return(f)
  BY <1>1, <1>2, <1>3 DEF Possession!Return
<1> QED
  BY <1>4 DEF AbstractStep, Possession!Next

-----------------------------------------------------------------------------
(* The steps. *)

LEMMA TouchRefines ==
  ASSUME IInv, IInv', ~gameOver, TouchNext
  PROVE  AbstractStep
PROOF
<1> PICK f \in Flags, p \in Players :
           TakeFlag(f, p) \/ CaptureFlag(f, p) \/ RescueFlag(f, p)
  BY DEF TouchNext
<1>1. CASE TakeFlag(f, p)
  <2>1. /\ goalState[f] # "Carried" /\ goalState'[f] = "Carried" /\ owner'[f] = p
        /\ life[p] = "alive" /\ team[p] \in Flags /\ team[p] # f
    BY <1>1
    DEF TakeFlag, Touches, IInv, FlagInv, FlagTypes, CallbacksFit, PlayerInv, FightersHaveTeams
  <2>2. pFlag[p] = NoFlag
    <3>1. pFlag[p] # NoFlag => pFlag[p] = f
      BY <2>1 DEF IInv, FlagInv, FlagTypes, CarrierFights, OtherTeam, Flags, NoFlag
    <3> QED
      BY <2>1, <3>1 DEF IInv, FlagInv, MFlagIsCarried, CarriedBy
  <2>3. \A g \in Flags : HolderOf(g) # p
    BY <2>2, MFlagIsPlace DEF Flags, NoFlag
  <2>4. HolderOf(f) \in {"Base", "Ground"} /\ HolderOf(f)' = p
    BY <2>1, PlaceOf, PlaceOfNext
  <2>5. \A g \in Flags : HolderOf(g)' = IF g = f THEN p ELSE HolderOf(g)
    BY <1>1, <2>4, PlaceUnmoved DEF TakeFlag, IInv, FlagInv, FlagTypes
  <2>6. p \in InTeams /\ UNCHANGED <<gameOver, InTeams>>
    BY <1>1, <2>1 DEF TakeFlag, playerVars, InTeams, Flags, NoTeam
  <2>7. Possession!Take(f, p)
    BY <2>3, <2>4, <2>5, <2>6 DEF Possession!Take, Possession!HeldBy
  <2> QED
    BY <2>7 DEF AbstractStep, Possession!Next
<1>2. CASE CaptureFlag(f, p)
  <2>1. UNCHANGED <<gameOver, InTeams>>
    BY <1>2 DEF CaptureFlag, playerVars, InTeams
  <2>2. CASE pFlag[p] = NoFlag
    <3>1. UNCHANGED flagVars
      BY <1>2, <2>2 DEF CaptureFlag
    <3> QED
      BY <2>1, <3>1, PlacesUnmoved, StutterRefines DEF flagVars
  <2>3. CASE pFlag[p] # NoFlag
    <3> DEFINE g == pFlag[p]
    <3>1. g \in Flags /\ ReturnFlag(g) /\ f = OtherTeam(g) /\ goalState[f] = "AtBase"
      BY <1>2, <2>3 DEF CaptureFlag, IInv, FlagInv, FlagTypes, CarrierFights
    <3>2. HolderOf(g) = p
      BY <3>1, MFlagIsPlace
    <3> HIDE DEF g
    <3>3. \A h \in Flags \ {g} : h = f /\ HolderOf(h) = "Base"
      BY <3>1, PlaceOf DEF OtherTeam, Flags
    <3>4. \A h \in Flags : HolderOf(h)' = IF h = g THEN "Base" ELSE HolderOf(h)
      BY <3>1, ReturnRefines DEF ReturnFlag
    <3>5. Possession!Capture(g)
      BY <2>1, <3>1, <3>2, <3>3, <3>4 DEF Possession!Capture, Possession!Held
    <3> QED
      BY <3>1, <3>5 DEF AbstractStep, Possession!Next
  <2> QED
    BY <2>2, <2>3
<1>3. CASE RescueFlag(f, p)
  <2>1. goalState[f] = "Dropped"
    BY <1>3 DEF RescueFlag, Touches, IInv, FlagInv, FlagTypes, GoalStates, CallbacksFit
  <2> QED
    BY <1>3, <2>1, OneReturnRefines DEF RescueFlag
<1> QED
  BY <1>1, <1>2, <1>3

LEMMA ThinkRefines ==
  ASSUME IInv, IInv', ~gameOver, ThinkNext
  PROVE  AbstractStep
PROOF
<1> PICK f \in Flags : Think(f)
  BY DEF ThinkNext
<1>1. UNCHANGED <<gameOver, playerVars>> /\ UNCHANGED <<gameOver, InTeams>>
  BY DEF Think, FlagCarryThink, goal_item_dropthink, DroppedTooLong, ReturnFlagThink,
         playerVars, InTeams
<1>2. /\ think[f] = "FlagCarryThink" => goalState[f] = "Carried"
      /\ think[f] \in {"goal_item_dropthink", "ReturnFlag"} => goalState[f] = "Dropped"
  BY DEF IInv, FlagInv, FlagTypes, GoalStates, CallbacksFit
<1>3. CASE UNCHANGED <<goalState, owner>>
  BY <1>1, <1>3, PlacesUnmoved, StutterRefines
<1>4. CASE ReturnFlag(f) /\ goalState[f] = "Dropped"
  BY <1>1, <1>4, OneReturnRefines
<1>5. CASE FlagCarryThink(f)
  <2>1. owner[f] \in Players /\ f \in items[owner[f]]
    BY <1>2, <1>5 DEF FlagCarryThink, IInv, FlagInv, PossessionAgrees, CarriedBy
  <2>2. UNCHANGED flagVars
    BY <1>5, <2>1, PlayersAssumption DEF FlagCarryThink
  <2> QED
    BY <1>3, <2>2 DEF flagVars
<1> QED
  BY <1>2, <1>3, <1>4, <1>5
  DEF Think, goal_item_dropthink, DroppedTooLong, ReturnFlagThink

LEMMA ClientRefines ==
  ASSUME IInv, IInv', ~gameOver, ClientNext
  PROVE  AbstractStep
PROOF
<1> PICK p \in Players :
      \/ ClientConnect(p) \/ ClientPutInServer(p) \/ ClientDisconnect(p)
      \/ \E t \in Flags : JoinTeam(p, t)
      \/ Spectate(p) \/ PlayerKilled(p) \/ Respawn(p) \/ Displaced(p)
  BY DEF ClientNext
<1> USE DEF IInv, PlayerInv, PlayerTypes
(* A flag that falls while its carrier stays in the match. *)
<1>a. ASSUME DropCarried(p), UNCHANGED <<gameOver, InTeams>> PROVE AbstractStep
  <2>1. CASE pFlag[p] = NoFlag
    <3>1. Unmoved
      BY <1>a, <2>1, PlacesUnmoved DEF DropCarried, flagVars
    <3> QED
      BY <1>a, <3>1, StutterRefines
  <2>2. CASE pFlag[p] # NoFlag
    <3> PICK f \in Flags : pFlag[p] = f
      BY <2>2 DEF FlagInv, FlagTypes
    <3>1. DropFlag(f, p)
      BY <1>a, <2>2 DEF DropCarried
    <3>2. /\ HolderOf(f) = p
          /\ \A g \in Flags : HolderOf(g)' = IF g = f THEN "Ground" ELSE HolderOf(g)
      BY <3>1, DropRefines
    <3>3. Possession!Drop(f)
      BY <1>a, <3>1, <3>2 DEF Possession!Drop, Possession!Held
    <3> QED
      BY <3>1, <3>3 DEF AbstractStep, Possession!Next
  <2> QED
    BY <2>1, <2>2
(* A player who is in no team any more, and whose flag, if any, falls. *)
<1>b. ASSUME team' = [team EXCEPT ![p] = NoTeam], UNCHANGED gameOver,
             \A f \in Flags :
               HolderOf(f)' = IF HolderOf(f) = p THEN "Ground" ELSE HolderOf(f)
      PROVE  AbstractStep
  <2>1. InTeams' = InTeams \ {p}
    BY <1>b DEF InTeams
  <2>2. Possession!Leave(p)
    BY <1>b, <2>1 DEF Possession!Leave, Possession!HeldBy
  <2> QED
    BY <2>2 DEF AbstractStep, Possession!Next
<1>1. CASE ClientConnect(p)
  <2>0. UNCHANGED <<gameOver, InTeams>>
    BY <1>1 DEF ClientConnect, InTeams
  <2>1. CASE UNCHANGED flagVars
    BY <2>0, <2>1, PlacesUnmoved, StutterRefines DEF flagVars
  <2>2. CASE /\ Cardinality(InTeams) <= 1
             /\ ReturnFlags({pFlag[q] : q \in Players} \ {NoFlag})
    <3> DEFINE R == {pFlag[q] : q \in Players} \ {NoFlag}
    <3>1. R \in SUBSET Flags
      BY DEF FlagInv, FlagTypes
    <3>2. \A f \in Flags : f \in R <=> HolderOf(f) \in Players
      <4>1. \A f \in Flags : f \in R => HolderOf(f) \in Players
        BY MFlagIsPlace DEF Flags, NoFlag
      <4>2. \A f \in Flags : HolderOf(f) \in Players => f \in R
        BY MFlagIsPlace DEF Flags, NoFlag
      <4> QED
        BY <4>1, <4>2
    <3> HIDE DEF R
    <3>3. \A f \in Flags : HolderOf(f)' = IF f \in R THEN "Base" ELSE HolderOf(f)
      BY <2>2, <3>1, ReturnRefines DEF R
    <3>4. Possession!Held = R
      BY <3>1, <3>2 DEF Possession!Held
    <3>5. Cardinality(InTeams) <= 1
      BY <2>2
    <3>6. Possession!StartOver
      BY <2>0, <3>3, <3>4, <3>5 DEF Possession!StartOver, Cardinality, Possession!Cardinality
    <3> QED
      BY <3>6 DEF AbstractStep, Possession!Next
  <2> QED
    BY <1>1, <2>1, <2>2 DEF ClientConnect
<1>2. CASE ClientPutInServer(p)
  <2>1. Unmoved
    BY <1>2, PlacesUnmoved DEF ClientPutInServer
  <2>2. \A f \in Flags : HolderOf(f) # p
    BY <1>2, MFlagIsPlace DEF ClientPutInServer, CarrierFights, Flags, NoFlag
  <2> QED
    BY <1>2, <1>b, <2>1, <2>2 DEF ClientPutInServer, Unmoved
<1>3. CASE ClientDisconnect(p)
  BY <1>3, <1>b, DropCarriedRefines DEF ClientDisconnect
<1>4. CASE \E t \in Flags : JoinTeam(p, t)
  <2> PICK t \in Flags : JoinTeam(p, t)
    BY <1>4
  <2>1. CASE life[p] = "observer"
    <3>1. Unmoved /\ UNCHANGED gameOver
      BY <2>1, PlacesUnmoved DEF JoinTeam, flagVars
    <3>2. InTeams' = InTeams \cup {p}
      BY DEF JoinTeam, InTeams, Flags, NoTeam
    <3>3. Possession!Enter(p)
      BY <3>1, <3>2 DEF Possession!Enter, Unmoved
    <3> QED
      BY <3>3 DEF AbstractStep, Possession!Next
  <2>2. CASE life[p] # "observer"
    <3>1. UNCHANGED <<gameOver, InTeams>>
      BY <2>2 DEF JoinTeam, InTeams, FightersHaveTeams, Flags, NoTeam
    <3> QED
      BY <1>a, <2>2, <3>1 DEF JoinTeam
  <2> QED
    BY <2>1, <2>2
<1>5. CASE Spectate(p)
  BY <1>5, <1>b, DropCarriedRefines DEF Spectate
<1>6. CASE PlayerKilled(p)
  BY <1>6, <1>a DEF PlayerKilled, InTeams
<1>7. CASE Respawn(p)
  BY <1>7, PlacesUnmoved, StutterRefines DEF Respawn, flagVars, InTeams
<1>8. CASE Displaced(p)
  <2>1. DropCarried(p) /\ UNCHANGED <<gameOver, InTeams>>
    BY <1>8 DEF Displaced, DropCarried, playerVars, InTeams
  <2> QED
    BY <1>a, <2>1
<1> QED
  BY <1>1, <1>2, <1>3, <1>4, <1>5, <1>6, <1>7, <1>8

(* After the end the abstract specification allows what it allows: places  *)
(* that are places.                                                        *)
LEMMA AftermathRefines ==
  ASSUME IInv', gameOver, UNCHANGED gameOver
  PROVE  AbstractStep
PROOF
<1>1. [f \in Flags |-> HolderOf(f)]' \in [Flags -> Players \cup {"Base", "Ground"}]
  BY PlaceOfNext
<1>2. InTeams' \in SUBSET Players
  BY DEF InTeams
<1>3. Possession!Aftermath
  BY <1>1, <1>2 DEF Possession!Aftermath
<1> QED
  BY <1>3 DEF AbstractStep, Possession!Next

LEMMA NextRefines == IInv /\ IInv' /\ [Next]_vars => AbstractStep
PROOF
<1> SUFFICES ASSUME IInv, IInv', [Next]_vars PROVE AbstractStep
  OBVIOUS
<1>1. CASE UNCHANGED vars
  BY <1>1, PlacesUnmoved, StutterRefines DEF vars, flagVars, playerVars, InTeams
<1>2. CASE GoToIntermission
  <2>1. Unmoved /\ UNCHANGED InTeams
    BY <1>2, PlacesUnmoved DEF GoToIntermission, flagVars, playerVars, InTeams
  <2>2. Possession!End
    BY <1>2, <2>1 DEF GoToIntermission, Possession!End, Unmoved
  <2> QED
    BY <2>2 DEF AbstractStep, Possession!Next
<1>3. CASE (TouchNext \/ ThinkNext \/ ClientNext) /\ ~gameOver
  BY <1>3, TouchRefines, ThinkRefines, ClientRefines
<1>4. CASE (TouchNext \/ ThinkNext \/ ClientNext) /\ gameOver
  <2>1. UNCHANGED gameOver
    BY <1>4
    DEF TouchNext, TakeFlag, CaptureFlag, RescueFlag, ThinkNext, Think, FlagCarryThink,
        goal_item_dropthink, DroppedTooLong, ReturnFlagThink, ClientNext, ClientConnect,
        ClientPutInServer, ClientDisconnect, JoinTeam, Spectate, PlayerKilled, Respawn,
        Displaced
  <2> QED
    BY <1>4, <2>1, AftermathRefines
<1> QED
  BY <1>1, <1>2, <1>3, <1>4 DEF Next

(* Every behaviour of the flag entities and the handlers around them is,   *)
(* seen from the places of the flags, a behaviour of the abstract          *)
(* possession, whatever the number of clients.                             *)
THEOREM PossessionRefined ==
  Spec => Possession!Init /\ [][Possession!Next]_(Possession!vars)
PROOF
<1>1. IInv /\ IInv' /\ [Next]_vars => [Possession!Next]_(Possession!vars)
  BY NextRefines DEF AbstractStep
<1> QED
  BY <1>1, InitRefines, FlagInvariance, PTL DEF Spec

-----------------------------------------------------------------------------
(* The score.  Its steps are steps of the flags, so IInv holds throughout. *)
(* The counters of a player are added up one award at a time: each of the  *)
(* lemmas is about a record of counters, whoever owns it.                  *)

(* Every step of the score is a step of the flags, or leaves them alone.   *)
LEMMA ScoreStepIsFlagStep == [ScoreNext]_allVars => [Next]_vars
PROOF
<1> SUFFICES ASSUME ScoreNext \/ UNCHANGED allVars PROVE Next \/ UNCHANGED vars
  OBVIOUS
<1>1. ASSUME NEW f \in Flags, NEW p \in Players,
             ScoreTake(f, p) \/ ScoreCapture(f, p) \/ ScoreRescue(f, p)
      PROVE  Next
  BY <1>1 DEF ScoreTake, ScoreCapture, ScoreRescue, Next, TouchNext
<1>2. ASSUME NEW p \in Players, NEW k \in Players, ScoreKill(p, k)
      PROVE  Next
  BY <1>2 DEF ScoreKill, Next, ClientNext
<1>3. ASSUME NEW f \in Flags, AssistExpires(f)
      PROVE  UNCHANGED vars
  BY <1>3 DEF AssistExpires
<1>4. ASSUME NEW p \in Players,
             \/ ScoreSuicide(p) \/ ScoreConnect(p) \/ ScorePutInServer(p) \/ ScoreSpectate(p)
      PROVE  Next
  BY <1>4
  DEF ScoreSuicide, ScoreConnect, ScorePutInServer, ScoreSpectate, Next, ClientNext
<1>5. CASE ScoreOther
  BY <1>5 DEF ScoreOther, Next, ClientNext
<1>6. CASE LevelEnd
  BY <1>6 DEF LevelEnd, Next
<1>7. CASE UNCHANGED allVars
  BY <1>7 DEF allVars
<1> QED
  BY <1>1, <1>2, <1>3, <1>4, <1>5, <1>6, <1>7 DEF ScoreNext

(* The match with its score implements the flags: whatever was proved of   *)
(* their steps holds while points are counted, a limit of the score being  *)
(* one more reason to end the match.                                       *)
THEOREM ScoreImplementsFlags == ScoreSpec => Init /\ [][Next]_vars
PROOF
<1>1. ScoreInit => Init
  BY DEF ScoreInit
<1> QED
  BY <1>1, ScoreStepIsFlagStep, PTL DEF ScoreSpec

LEMMA ScoreFlagInvariance == ScoreSpec => []IInv
PROOF
  BY ScoreImplementsFlags, InitSafe, NextSafe, PTL

(* What a player may rely on about the flags holds of the scored match as  *)
(* well: it is a behaviour of the abstract possession.                     *)
THEOREM ScoreRefinesPossession ==
  ScoreSpec => Possession!Init /\ [][Possession!Next]_(Possession!vars)
PROOF
<1>1. IInv /\ IInv' /\ [Next]_vars => [Possession!Next]_(Possession!vars)
  BY NextRefines DEF AbstractStep
<1> QED
  BY <1>1, InitRefines, ScoreImplementsFlags, ScoreFlagInvariance, PTL

-----------------------------------------------------------------------------
(* The counters of one player. *)

Counters == [total : Nat, offense : Nat, defense : Nat, captures : Nat]

AddsUp(s) ==
  /\ s.offense + s.defense <= s.total
  /\ CapturePoints * s.captures <= s.offense

(* What an award does to each counter. *)
LEMMA AwardFields ==
  ASSUME NEW s \in Counters, NEW o \in Nat, NEW d \in Nat
  PROVE  /\ Award(s, o, d) \in Counters
         /\ Award(s, o, d).total    = s.total + o + d
         /\ Award(s, o, d).offense  = s.offense + o
         /\ Award(s, o, d).defense  = s.defense + d
         /\ Award(s, o, d).captures = s.captures
PROOF
<1> DEFINE a == [s EXCEPT !.total = @ + o + d]
           b == [a EXCEPT !.offense = @ + o]
           c == [b EXCEPT !.defense = @ + d]
<1>1. a = [total |-> s.total + o + d, offense |-> s.offense, defense |-> s.defense,
           captures |-> s.captures]
  BY DEF Counters
<1> HIDE DEF a
<1>2. b = [total |-> s.total + o + d, offense |-> s.offense + o, defense |-> s.defense,
           captures |-> s.captures]
  BY <1>1 DEF Counters
<1> HIDE DEF b
<1>3. c = [total |-> s.total + o + d, offense |-> s.offense + o,
           defense |-> s.defense + d, captures |-> s.captures]
  BY <1>2 DEF Counters
<1> HIDE DEF c
<1>4. Award(s, o, d) = c
  BY DEF Award, a, b, c
<1> QED
  BY <1>3, <1>4 DEF Counters

LEMMA AwardAddsUp ==
  ASSUME NEW s \in Counters, AddsUp(s), NEW o \in Nat, NEW d \in Nat
  PROVE  Award(s, o, d) \in Counters /\ AddsUp(Award(s, o, d))
PROOF
<1> DEFINE a == Award(s, o, d)
<1>1. CapturePoints * s.captures \in Nat
  BY PointsAssumption DEF Counters
<1>2. /\ a \in Counters
      /\ a.total = s.total + o + d /\ a.offense = s.offense + o
      /\ a.defense = s.defense + d /\ a.captures = s.captures
  BY AwardFields
<1> HIDE DEF a
<1>3. a \in Counters /\ AddsUp(a)
  BY <1>1, <1>2 DEF Counters, AddsUp
<1> QED
  BY <1>3 DEF a

(* One capture more, and at least the points of one. *)
LEMMA CaptureAddsUp ==
  ASSUME NEW s \in Counters, AddsUp(s), NEW x \in Nat, x >= CapturePoints
  PROVE  LET t == WithCapture(Award(s, x, 0))
         IN  t \in Counters /\ AddsUp(t)
PROOF
<1> DEFINE a == Award(s, x, 0)
           t == WithCapture(a)
<1>1. /\ CapturePoints \in Nat
      /\ s.captures \in Nat /\ s.offense \in Nat /\ s.defense \in Nat /\ s.total \in Nat
  BY PointsAssumption DEF Counters
<1>2. CapturePoints * (s.captures + 1) = CapturePoints * s.captures + CapturePoints
  BY <1>1
<1>3. a \in Counters /\ a.captures = s.captures
  BY AwardFields
<1>6. a.offense = s.offense + x /\ a.defense = s.defense + 0
  BY AwardFields
<1>7. a.total = s.total + x + 0
  BY AwardFields
<1> HIDE DEF a
<1>4. /\ t \in Counters
      /\ t.captures = s.captures + 1 /\ t.offense = s.offense + x
      /\ t.defense = s.defense /\ t.total = s.total + x
  BY <1>1, <1>3, <1>6, <1>7 DEF WithCapture, Counters
<1>5. CapturePoints * s.captures \in Nat
  BY <1>1
<1> HIDE DEF t
<1>8. t \in Counters /\ AddsUp(t)
  BY <1>1, <1>2, <1>4, <1>5 DEF AddsUp
<1> QED
  BY <1>8 DEF t, a

ScoreInv ==
  /\ ScoreTypeOK
  /\ \A p \in Players : AddsUp(score[p])

(* A step that changes the counters of one player by an award. *)
LEMMA OneScores ==
  ASSUME ScoreInv, NEW p \in Players, NEW s \in Counters, AddsUp(s),
         score' = [score EXCEPT ![p] = s],
         teamscores' \in [Flags -> Nat], returner' \in [Flags -> Players \cup {NoPlayer}]
  PROVE  ScoreInv'
PROOF
  BY DEF ScoreInv, ScoreTypeOK, Counters, AddsUp

LEMMA TouchAddsUp ==
  ASSUME ScoreInv, NEW f \in Flags, NEW p \in Players, team[p] \in Flags,
         NEW o \in Nat, ScoreFlagTouch(f, p, o)
  PROVE  ScoreInv'
PROOF
<1>1. score[p] \in Counters /\ AddsUp(score[p])
  BY DEF ScoreInv, ScoreTypeOK, Counters
<1>2. teamscores' \in [Flags -> Nat] /\ returner' \in [Flags -> Players \cup {NoPlayer}]
  BY DEF ScoreFlagTouch, ScoreInv, ScoreTypeOK
<1>3. CASE CountsAsCapture(f, team[p])
  <2> DEFINE x == CapturePoints + (IF returner[f] # NoPlayer THEN 1 ELSE 0) + o
             s == WithCapture(Award(score[p], x, 0))
  <2>1. x \in Nat /\ x >= CapturePoints
    BY PointsAssumption
  <2>3. score' = [score EXCEPT ![p] = s]
    BY <1>3 DEF ScoreFlagTouch
  <2> HIDE DEF x
  <2>4. s \in Counters /\ AddsUp(s)
    BY <1>1, <2>1, CaptureAddsUp
  <2> HIDE DEF s
  <2> QED
    BY <1>2, <2>3, <2>4, OneScores
<1>4. CASE ~CountsAsCapture(f, team[p])
  <2>1. score' = [score EXCEPT ![p] = Award(score[p], o, 0)]
    BY <1>4 DEF ScoreFlagTouch
  <2> QED
    BY <1>1, <1>2, <2>1, AwardAddsUp, OneScores
<1> QED
  BY <1>3, <1>4

(* The two increments of the total that only one point of defense answers  *)
(* leave the total ahead.                                                  *)
LEMMA CarrierPointsAddUp ==
  ASSUME ScoreInv, NEW p \in Players, NEW k \in Players
  PROVE  CarrierPoints(p, k) \in Counters /\ AddsUp(CarrierPoints(p, k))
PROOF
<1> DEFINE s == score[k]
           a == [s EXCEPT !.total = @ + 2]
           b == [a EXCEPT !.defense = @ + 1]
<1>1. s \in Counters /\ AddsUp(s)
  BY DEF ScoreInv, ScoreTypeOK, Counters
<1> HIDE DEF s
<1>2. CapturePoints * s.captures \in Nat
  BY <1>1, PointsAssumption DEF Counters
<1>3. a = [total |-> s.total + 2, offense |-> s.offense, defense |-> s.defense,
           captures |-> s.captures]
  BY <1>1 DEF Counters
<1> HIDE DEF a
<1>4. b = [total |-> s.total + 2, offense |-> s.offense, defense |-> s.defense + 1,
           captures |-> s.captures]
  BY <1>1, <1>3 DEF Counters
<1> HIDE DEF b
<1>5. b \in Counters /\ AddsUp(b)
  BY <1>1, <1>2, <1>4 DEF Counters, AddsUp
<1>6. CarrierPoints(p, k) = b \/ CarrierPoints(p, k) = s
  BY DEF CarrierPoints, a, b, s
<1> QED
  BY <1>1, <1>5, <1>6

LEMMA KillAddsUp ==
  ASSUME ScoreInv, NEW p \in Players, NEW k \in Players, ScoreKill(p, k)
  PROVE  ScoreInv'
PROOF
<1>0. teamscores' = teamscores /\ returner' = returner
  BY DEF ScoreKill
<1>1. CASE UNCHANGED score
  BY <1>0, <1>1 DEF ScoreInv, ScoreTypeOK, AddsUp
<1>2. ASSUME NEW nearBase \in BOOLEAN, NEW shotAt, score' = KillPoints(p, k, nearBase, shotAt)
      PROVE  ScoreInv'
  <2> DEFINE carrier == [score EXCEPT ![k] = CarrierPoints(p, k)]
             base    == [carrier EXCEPT ![k] = Award(@, 0, IF nearBase THEN 1 ELSE 0)]
  <2>1. \A q \in Players : carrier[q] \in Counters /\ AddsUp(carrier[q])
    BY CarrierPointsAddUp DEF ScoreInv, ScoreTypeOK, Counters
  <2>2. DOMAIN carrier = Players
    BY DEF ScoreInv, ScoreTypeOK
  <2> HIDE DEF carrier
  <2>3. \A q \in Players : base[q] \in Counters /\ AddsUp(base[q])
    BY <2>1, <2>2, AwardAddsUp
  <2> HIDE DEF base
  <2>4. \A q \in Players :
          /\ Award(base[q], 0, IF q \in shotAt THEN 1 ELSE 0) \in Counters
          /\ AddsUp(Award(base[q], 0, IF q \in shotAt THEN 1 ELSE 0))
    BY <2>3, AwardAddsUp
  <2>5. score' = [q \in Players |-> Award(base[q], 0, IF q \in shotAt THEN 1 ELSE 0)]
    BY <1>2 DEF KillPoints, base, carrier
  <2>6. \A q \in Players : score'[q] \in Counters /\ AddsUp(score'[q])
    BY <2>4, <2>5
  <2>7. score' \in [Players -> Counters]
    BY <2>4, <2>5
  <2> QED
    BY <1>0, <2>6, <2>7 DEF ScoreInv, ScoreTypeOK, Counters, AddsUp
<1> QED
  BY <1>1, <1>2 DEF ScoreKill

LEMMA ScoreInitSafe == ScoreInit => ScoreInv
PROOF
<1>1. CapturePoints * 0 = 0
  BY PointsAssumption
<1> QED
  BY <1>1 DEF ScoreInit, ScoreInv, ScoreTypeOK, NoPoints, AddsUp

LEMMA ScoreNextSafe == IInv /\ ScoreInv /\ [ScoreNext]_allVars => ScoreInv'
PROOF
<1> SUFFICES ASSUME IInv, ScoreInv, ScoreNext \/ UNCHANGED allVars PROVE ScoreInv'
  OBVIOUS
<1>0. UNCHANGED scoreVars => ScoreInv'
  BY DEF scoreVars, ScoreInv, ScoreTypeOK, AddsUp
<1>1. ASSUME NEW f \in Flags, NEW p \in Players, ScoreTake(f, p) \/ ScoreCapture(f, p)
      PROVE  ScoreInv'
  <2>1. team[p] \in Flags
    BY <1>1 DEF ScoreTake, ScoreCapture, TakeFlag, CaptureFlag, Touches, IInv, PlayerInv,
                FightersHaveTeams
  <2> QED
    BY <1>1, <2>1, TouchAddsUp DEF ScoreTake, ScoreCapture
<1>2. ASSUME NEW f \in Flags, NEW p \in Players, ScoreRescue(f, p)
      PROVE  ScoreInv'
  <2>1. score[p] \in Counters /\ AddsUp(score[p])
    BY DEF ScoreInv, ScoreTypeOK, Counters
  <2> QED
    BY <1>2, <2>1, AwardAddsUp, OneScores DEF ScoreRescue, ScoreInv, ScoreTypeOK
<1>3. ASSUME NEW f \in Flags, AssistExpires(f)
      PROVE  ScoreInv'
  BY <1>3 DEF AssistExpires, ScoreInv, ScoreTypeOK, AddsUp
<1>4. ASSUME NEW p \in Players, ScoreConnect(p)
      PROVE  ScoreInv'
  BY <1>4 DEF ScoreConnect, ScoreInv, ScoreTypeOK, AddsUp
<1>5. ASSUME NEW p \in Players, ScorePutInServer(p)
      PROVE  ScoreInv'
  <2>1. NoPoints \in Counters /\ AddsUp(NoPoints)
    BY PointsAssumption DEF NoPoints, Counters, AddsUp
  <2> QED
    BY <1>5, <2>1, OneScores DEF ScorePutInServer, ScoreInv, ScoreTypeOK
<1>6. ASSUME NEW p \in Players, ScoreSpectate(p)
      PROVE  ScoreInv'
  <2> DEFINE s == [score[p] EXCEPT !.captures = 0]
  <2>1. score[p] \in Counters /\ AddsUp(score[p])
    BY DEF ScoreInv, ScoreTypeOK, Counters
  <2>2. CapturePoints * 0 = 0
    BY PointsAssumption
  <2>3. s \in Counters /\ AddsUp(s)
    BY <2>1, <2>2 DEF Counters, AddsUp
  <2>4. score' = [score EXCEPT ![p] = s]
    BY <1>6 DEF ScoreSpectate, ScoreInv, ScoreTypeOK
  <2> HIDE DEF s
  <2> QED
    BY <1>6, <2>3, <2>4, OneScores DEF ScoreSpectate, ScoreInv, ScoreTypeOK
<1> QED
  BY <1>0, <1>1, <1>2, <1>3, <1>4, <1>5, <1>6, KillAddsUp
  DEF ScoreNext, ScoreSuicide, ScoreOther, LevelEnd, allVars

LEMMA ScoreInvariance == ScoreSpec => []ScoreInv
PROOF
  BY ScoreInitSafe, ScoreNextSafe, ScoreFlagInvariance, PTL DEF ScoreSpec

(* Scores and counters stay natural numbers, and whoever is remembered for *)
(* an assist is a player.                                                  *)
THEOREM ScoreTypeCorrect == ScoreSpec => []ScoreTypeOK
PROOF
<1>1. ScoreInv => ScoreTypeOK
  BY DEF ScoreInv
<1> QED
  BY <1>1, ScoreInvariance, PTL

(* The counters of a player fit together after any number of captures,     *)
(* assists, kills and resets, whatever a capture is worth.                 *)
THEOREM ScoresAlwaysAddUp == ScoreSpec => []ScoresAddUp
PROOF
<1>1. ScoreInv => ScoresAddUp
  BY DEF ScoreInv, AddsUp, ScoresAddUp
<1> QED
  BY <1>1, ScoreInvariance, PTL

-----------------------------------------------------------------------------
(* The scores of the teams. *)

(* What TeamScoresFollowFlags asks of a step for team t.                   *)
Follows(t) ==
  \/ /\ teamscores'[t] = teamscores[t] + 1
     /\ \E p \in Players :
          /\ team[p] = t /\ life[p] = "alive"
          /\ (pFlag[p] = OtherTeam(t)) # (pFlag'[p] = OtherTeam(t))
  \/ /\ \A u \in Flags : teamscores'[u] = 0
     /\ Cardinality(InTeams) <= 1

(* A touch counts for the team of the player alone. *)
LEMMA TouchCounts ==
  ASSUME ScoreTypeOK, NEW f \in Flags, NEW p \in Players, NEW o,
         ScoreFlagTouch(f, p, o), NEW t \in Flags, teamscores'[t] # teamscores[t]
  PROVE  team[p] = t /\ teamscores'[t] = teamscores[t] + 1
PROOF
  BY DEF ScoreFlagTouch, ScoreTypeOK

(* Who takes a flag did not have it: a carried flag cannot be touched. *)
LEMMA TakeFollows ==
  ASSUME IInv, ScoreTypeOK, NEW f \in Flags, NEW p \in Players, ScoreTake(f, p),
         NEW t \in Flags, teamscores'[t] # teamscores[t]
  PROVE  Follows(t)
PROOF
<1>1. team[p] = t /\ teamscores'[t] = teamscores[t] + 1
  BY TouchCounts DEF ScoreTake
<1>2. f = OtherTeam(t) /\ life[p] = "alive"
  BY <1>1 DEF ScoreTake, TakeFlag, Touches, OtherTeam, Flags
<1>3. pFlag[p] # f
  BY DEF ScoreTake, TakeFlag, Touches, IInv, FlagInv, MFlagIsCarried, CarriedBy, CallbacksFit,
         Flags, NoFlag
<1>4. pFlag'[p] = f
  BY DEF ScoreTake, TakeFlag, IInv, FlagInv, FlagTypes
<1> QED
  BY <1>1, <1>2, <1>3, <1>4 DEF Follows

(* Whoever has a flag bit while the match runs carries the enemy's flag,   *)
(* and loses it in a capture.                                              *)
LEMMA CaptureFollows ==
  ASSUME IInv, ScoreTypeOK, ~gameOver, NEW f \in Flags, NEW p \in Players,
         ScoreCapture(f, p), NEW t \in Flags, teamscores'[t] # teamscores[t]
  PROVE  Follows(t)
PROOF
<1>1. team[p] = t /\ teamscores'[t] = teamscores[t] + 1
  BY TouchCounts DEF ScoreCapture
<1>2. CaptureFlag(f, p) /\ life[p] = "alive"
  BY DEF ScoreCapture, CaptureFlag, Touches
<1>3. PICK g \in Flags : g \in items[p]
  BY <1>2 DEF CaptureFlag, IInv, FlagInv, FlagTypes
<1>4. pFlag[p] = g
  BY <1>3 DEF IInv, FlagInv, PossessionAgrees
<1>5. g # NoFlag
  BY DEF Flags, NoFlag
<1>6. g = OtherTeam(t)
  BY <1>1, <1>4, <1>5 DEF IInv, CarrierFights, OtherTeam, Flags
<1>7. owner[g] = p
  BY <1>4, <1>5 DEF IInv, FlagInv, MFlagIsCarried, CarriedBy
<1>8. ReturnFlag(g)
  BY <1>2, <1>4, <1>5 DEF CaptureFlag
<1>9. pFlag'[p] = NoFlag
  BY <1>7, <1>8 DEF ReturnFlag, ReturnFlags
<1> QED
  BY <1>1, <1>2, <1>4, <1>5, <1>6, <1>9 DEF Follows

LEMMA StepFollows ==
  ASSUME IInv, ScoreTypeOK, ScoreNext, ~gameOver,
         NEW t \in Flags, teamscores'[t] # teamscores[t]
  PROVE  Follows(t)
PROOF
<1>1. ASSUME NEW f \in Flags, NEW p \in Players, ScoreTake(f, p)
      PROVE  Follows(t)
  BY <1>1, TakeFollows
<1>2. ASSUME NEW f \in Flags, NEW p \in Players, ScoreCapture(f, p)
      PROVE  Follows(t)
  BY <1>2, CaptureFollows
<1>3. ASSUME NEW p \in Players, ScoreConnect(p)
      PROVE  Follows(t)
  BY <1>3 DEF ScoreConnect, Follows
<1> QED
  BY <1>1, <1>2, <1>3
  DEF ScoreNext, ScoreRescue, ScoreKill, AssistExpires, ScoreSuicide, ScorePutInServer,
      ScoreSpectate, ScoreOther, LevelEnd, scoreVars

(* While the match runs, the score of a team changes only by one, in a     *)
(* step in which a living player of it takes the enemy flag or brings it   *)
(* home, or falls to zero with the other, when the teams are deserted.     *)
THEOREM TeamScoresFollow == ScoreSpec => TeamScoresFollowFlags
PROOF
<1> DEFINE Follow ==
      ~gameOver => \A t \in Flags : teamscores'[t] # teamscores[t] => Follows(t)
<1>1. IInv /\ ScoreInv /\ [ScoreNext]_allVars => [Follow]_allVars
  BY StepFollows DEF ScoreInv
<1>2. ScoreSpec => [][Follow]_allVars
  BY <1>1, ScoreFlagInvariance, ScoreInvariance, PTL DEF ScoreSpec
<1> QED
  BY <1>2 DEF TeamScoresFollowFlags, Follows

=============================================================================
