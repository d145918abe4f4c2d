------------------------------- MODULE CTFScore -------------------------------
(***************************************************************************)
(* The points of an Opposing Force CTF match, and how they end it.         *)
(*                                                                         *)
(* The handlers of the flags (CTFFlag) also keep the score: the captures   *)
(* of the teams in teamscores, and of each player a total, its part earned *)
(* in offense and in defense, and the captures.  Every handler adds to     *)
(* several of these counters, and they are cleared at different moments:   *)
(* the team scores when a client connects to a match nobody else plays,    *)
(* the captures of a player who goes to watch, all of a player's counters  *)
(* when a client enters the server.  Each frame the rules look at the team *)
(* scores and end the match once one has reached the limit.                *)
(*                                                                         *)
(* An action here is an action of CTFFlag together with the points it      *)
(* awards.  Frags, the time limit and the other statistics are left out.   *)
(***************************************************************************)
EXTENDS CTFFlag, Functions

CONSTANTS
  CapturePoints,  (* what a capture is worth to the player: 10 in the code *)
  CtfCapture,     (* the cvar mp_ctf_capture, 0 for no limit               *)
  MapScoreMax,    (* g_iMapScoreMax, the limit of the map, 0 for none      *)
  MaxPoints,      (* bound of the model: the points of all players          *)
  MaxEach,        (* bound of the model: the points of one player           *)
  MaxCaptures     (* bound of the model: the highest score of a team       *)

ASSUME PointsAssumption == CapturePoints \in Nat \ {0}
ASSUME LimitAssumption  == CtfCapture \in Nat /\ MapScoreMax \in Nat

VARIABLES
  teamscores,  (* the captures of the teams                                *)
  score,       (* m_iCTFScore, m_iOffense, m_iDefense and m_iFlagCaptures  *)
  returner     (* m_nReturnPlayer of a flag, while g_flCaptureAssistTime   *)
               (* has not passed since m_flReturnTime; else NoPlayer       *)

scoreVars == <<teamscores, score, returner>>
allVars   == <<vars, scoreVars>>

NoPoints == [total |-> 0, offense |-> 0, defense |-> 0, captures |-> 0]

(* s with o more points of offense, d of defense.                          *)
Award(s, o, d) ==
  [s EXCEPT !.total = @ + o + d, !.offense = @ + o, !.defense = @ + d]

ScoreInit ==
  /\ Init
  /\ teamscores = [t \in Flags |-> 0]
  /\ score      = [p \in Players |-> NoPoints]
  /\ returner   = [f \in Flags |-> NoPlayer]

(* The bounds of the model. *)
WithinBounds ==
  /\ FoldFunction(LAMBDA s, n : s.total + n, 0, score') <= MaxPoints
  /\ \A p \in Players : score'[p].total <= MaxEach
  /\ \A t \in Flags : teamscores'[t] <= MaxCaptures

-----------------------------------------------------------------------------
(* ScoreFlagTouch counts a capture of team t in front of flag f: always at *)
(* the flag of Opposing Force, whoever touches it and however; at the flag *)
(* of Black Mesa for its own players only.                                 *)
CountsAsCapture(f, t) == f = 2 \/ t = 1

(* s with one capture more. *)
WithCapture(s) == [s EXCEPT !.captures = @ + 1]

(* Mutant: the score goes to the team of the flag. *)
ScoreFlagTouchByFlag(f, p, o) ==
  LET capture == CountsAsCapture(f, team[p])
      assist  == IF returner[f] # NoPlayer THEN 1 ELSE 0
      points  == CapturePoints + assist
  IN  /\ teamscores' = IF capture THEN [teamscores EXCEPT ![f] = @ + 1] ELSE teamscores
      /\ score' = [score EXCEPT ![p] =
                     IF capture THEN WithCapture(Award(@, points + o, 0))
                                ELSE Award(@, o, 0)]
      /\ UNCHANGED returner

(* ScoreFlagTouch at flag f by player p, and o points of offense on top.   *)
(* The point of an assist goes to the player at the flag, and not to the   *)
(* one who returned it.                                                    *)
ScoreFlagTouch(f, p, o) ==
  LET capture == CountsAsCapture(f, team[p])
      assist  == IF returner[f] # NoPlayer THEN 1 ELSE 0
      points  == CapturePoints + assist
  IN  /\ teamscores' = IF capture THEN [teamscores EXCEPT ![team[p]] = @ + 1] ELSE teamscores
      /\ score' = [score EXCEPT ![p] =
                     IF capture THEN WithCapture(Award(@, points + o, 0))
                                ELSE Award(@, o, 0)]
      /\ UNCHANGED returner

ScoreTake(f, p)    == TakeFlag(f, p) /\ ScoreFlagTouch(f, p, 1)
ScoreCapture(f, p) == CaptureFlag(f, p) /\ ScoreFlagTouch(f, p, 0)

(* Mutant: the entity index of the flag, not of the player. *)
ScoreRescueOwnIndex(f, p) ==
  /\ RescueFlag(f, p)
  /\ score'    = [score EXCEPT ![p] = Award(@, 0, 1)]
  /\ returner' = [returner EXCEPT ![f] = f]
  /\ UNCHANGED teamscores

(* A player brings the own flag home: from now on a capture at this flag   *)
(* counts as assisted.                                                     *)
ScoreRescue(f, p) ==
  /\ RescueFlag(f, p)
  /\ score'    = [score EXCEPT ![p] = Award(@, 0, 1)]
  /\ returner' = [returner EXCEPT ![f] = p]
  /\ UNCHANGED teamscores

(* g_flCaptureAssistTime has passed since the flag was returned. *)
AssistExpires(f) ==
  /\ returner[f] # NoPlayer
  /\ returner' = [returner EXCEPT ![f] = NoPlayer]
  /\ UNCHANGED <<vars, teamscores, score>>

-----------------------------------------------------------------------------
(* PlayerKilled gives points before the flag falls, and none during the    *)
(* intermission.                                                           *)

HasEntity(k) == life[k] \in {"observer", "alive", "dead", "left"}

(* Mutant: both points for the carrier are points of defense, one is in    *)
(* the total.                                                              *)
CarrierPointsSwapped(p, k) ==
  IF pFlag[p] # NoFlag /\ team[p] # team[k]
    THEN [score[k] EXCEPT !.total = @ + 1, !.defense = @ + 2]
    ELSE score[k]

(* The killer of the carrier of a flag: the total is incremented twice,    *)
(* before and after the message that publishes it.                         *)
CarrierPoints(p, k) ==
  IF pFlag[p] # NoFlag /\ team[p] # team[k]
    THEN [score[k] EXCEPT !.total = @ + 2, !.defense = @ + 1]
    ELSE score[k]

(* k kills p: points for the death of a carrier, for one near the base of  *)
(* the killer's team, and for every carrier of a flag whom p was the last  *)
(* to shoot at, be it the victim itself.                                   *)
KillPoints(p, k, nearBase, shotAt) ==
  LET carrier == [score EXCEPT ![k] = CarrierPoints(p, k)]
      base    == [carrier EXCEPT ![k] = Award(@, 0, IF nearBase THEN 1 ELSE 0)]
  IN  [q \in Players |-> Award(base[q], 0, IF q \in shotAt THEN 1 ELSE 0)]

(* Killed by another player.  Where it happened and who shot at whom       *)
(* before is left open.                                                    *)
ScoreKill(p, k) ==
  /\ PlayerKilled(p)
  /\ k # p /\ HasEntity(k)
  /\ \/ /\ ~gameOver
        /\ \E nearBase \in BOOLEAN, shotAt \in SUBSET {q \in Players : pFlag[q] # NoFlag} :
             /\ nearBase => team[k] # NoTeam
             /\ score' = KillPoints(p, k, nearBase, shotAt)
     \/ gameOver /\ UNCHANGED score
  /\ UNCHANGED <<teamscores, returner>>

(* Killed by oneself, by a fall or by the map: nobody gets a point. *)
ScoreSuicide(p) == PlayerKilled(p) /\ UNCHANGED scoreVars

-----------------------------------------------------------------------------
(* The handlers that clear something, and those that leave the score.      *)

(* ClientConnected, ResetTeamScores included. *)
ScoreConnect(p) ==
  /\ ClientConnect(p)
  /\ teamscores' = IF Cardinality(InTeams) <= 1 THEN [t \in Flags |-> 0] ELSE teamscores
  /\ UNCHANGED <<score, returner>>

(* The entity of a client that enters is new, and zeroed. *)
ScorePutInServer(p) ==
  /\ ClientPutInServer(p)
  /\ score' = [score EXCEPT ![p] = NoPoints]
  /\ UNCHANGED <<teamscores, returner>>

(* A player who goes to watch loses the captures, and keeps the points. *)
ScoreSpectate(p) ==
  /\ Spectate(p)
  /\ score' = [score EXCEPT ![p].captures = 0]
  /\ UNCHANGED <<teamscores, returner>>

(* A change of team kills with m_DisableDeathPenalty set: no points.       *)
ScoreOther ==
  /\ \/ ThinkNext
     \/ GoToIntermission     \* the time limit or a frag limit
     \/ \E p \in Players : \/ ClientDisconnect(p)
                           \/ \E t \in Flags : JoinTeam(p, t)
                           \/ Respawn(p)
                           \/ Displaced(p)
  /\ UNCHANGED scoreVars

-----------------------------------------------------------------------------
(* CheckForLevelEnd: no limit means 255, the map may lower it. *)
CheckForLevelEnd ==
  LET most == IF CtfCapture = 0 THEN 255 ELSE CtfCapture
      max  == IF MapScoreMax > 0 /\ most > MapScoreMax THEN MapScoreMax ELSE most
  IN  \E t \in Flags : teamscores[t] >= max

(* The last statements of CHalfLifeCTFplay::Think, in every frame. *)
LevelEnd ==
  /\ ~gameOver /\ CheckForLevelEnd
  /\ GoToIntermission
  /\ UNCHANGED scoreVars

ScoreNext ==
  \/ /\ \/ \E f \in Flags, p \in Players :
             ScoreTake(f, p) \/ ScoreCapture(f, p) \/ ScoreRescue(f, p)
        \/ \E p, k \in Players : ScoreKill(p, k)
     /\ WithinBounds
  \/ \E f \in Flags : AssistExpires(f)
  \/ \E p \in Players : \/ ScoreSuicide(p)
                        \/ ScoreConnect(p)
                        \/ ScorePutInServer(p)
                        \/ ScoreSpectate(p)
  \/ ScoreOther
  \/ LevelEnd

ScoreSpec == ScoreInit /\ [][ScoreNext]_allVars

-----------------------------------------------------------------------------
(* Properties. *)

ScoreTypeOK ==
  /\ teamscores \in [Flags -> Nat]
  /\ score      \in [Players -> [total : Nat, offense : Nat, defense : Nat, captures : Nat]]
  /\ returner   \in [Flags -> Players \cup {NoPlayer}]

(* The counters of a player fit together: no point of offense or defense   *)
(* is missing from the total, and every capture is worth its points of     *)
(* offense.  Eight handlers change them, no two the same ones.             *)
ScoresAddUp ==
  \A p \in Players :
    /\ score[p].offense + score[p].defense <= score[p].total
    /\ CapturePoints * score[p].captures <= score[p].offense

(* While the match runs, the score of a team changes only by one, in the   *)
(* step in which a fighting player of this team gets hold of the enemy     *)
(* flag or brings it home; or it falls to zero with that of the other      *)
(* team, when at most one player is left in the teams.                     *)
TeamScoresFollowFlags ==
  [][~gameOver =>
       \A t \in Flags :
         teamscores'[t] # teamscores[t] =>
           \/ /\ teamscores'[t] = teamscores[t] + 1
              /\ \E p \in Players :
                   /\ team[p] = t /\ life[p] = "alive"
                   /\ (pFlag[p] = OtherTeam(t)) # (pFlag'[p] = OtherTeam(t))
           \/ /\ \A u \in Flags : teamscores'[u] = 0
              /\ Cardinality(InTeams) <= 1]_allVars

=============================================================================
