------------------------------ MODULE CTFMatch ------------------------------
(***************************************************************************)
(* The end of a CTF match: CHalfLifeCTFplay::Think, which runs once in     *)
(* every frame, GoToIntermission, and the part of CHalfLifeMultiplay that  *)
(* ends the intermission (dlls/ctf/ctfplay_gamerules.cpp,                  *)
(* dlls/multiplay_gamerules.cpp).                                          *)
(*                                                                         *)
(* When the match is over the statistics are sent in slices, a fifth of a  *)
(* second apart: three team records, then the players a handful at a time, *)
(* then the menu.  At the same time the intermission waits for a button or *)
(* for its longest duration, and a game_end entity of the map may end the  *)
(* match a second time.                                                    *)
(*                                                                         *)
(* Time is counted in ticks of a fifth of a second.  The two deadlines are *)
(* kept as clocks, so that the model needs no bound on time.               *)
(***************************************************************************)
EXTENDS Integers, FiniteSets

CONSTANTS
  MaxClients,       (* gpGlobals->maxClients                               *)
  LastStat,         (* the largest iStat that goes on with a slice: 5      *)
  ChatTime,         (* mp_chattime in ticks                                *)
  MaxIntermission   (* MAX_INTERMISSION_TIME in ticks                      *)

ASSUME MatchAssumption ==
  /\ MaxClients \in Nat \ {0} /\ LastStat \in Nat \ {0}
  /\ ChatTime \in Nat \ {0} /\ MaxIntermission \in Nat /\ MaxIntermission >= ChatTime

Clients == 1..MaxClients

Phases == {"Nothing", "SendTeam0", "SendTeam1", "SendTeam2", "SendPlayers", "OpenMenu"}

VARIABLES
  gameOver,     (* g_fGameOver                                             *)
  used,         (* the slots with a player entity; it stays behind when    *)
                (* the client leaves, and UTIL_PlayerByIndex finds it      *)
  phase,        (* m_iStatsPhase                                           *)
  statsPlayer,  (* m_iStatsPlayer                                          *)
  wait,         (* ticks until m_flNextStatsSend                           *)
  elapsed,      (* ticks since g_flIntermissionStartTime, up to one more   *)
                (* than MaxIntermission                                    *)
  buttonHit,    (* m_iEndIntermissionButtonHit                             *)
  changing,     (* ChangeLevel has asked the engine for the next level     *)
  due,          (* history: the slots in use when the sending began        *)
  sent          (* history: the slots whose statistics were sent since     *)

statsVars == <<phase, statsPlayer, wait, due, sent>>
matchVars == <<gameOver, elapsed, buttonHit, changing>>
vars      == <<used, statsVars, matchVars>>

Init ==
  /\ gameOver = FALSE /\ used = {}
  /\ phase = "Nothing" /\ statsPlayer = 1 /\ wait = 0
  /\ elapsed = 0 /\ buttonHit = FALSE /\ changing = FALSE
  /\ due = {} /\ sent = {}

-----------------------------------------------------------------------------
(* Mutant: the second end of the match restarts the intermission. *)
GoToIntermissionAgain ==
  /\ phase' = "SendTeam0" /\ statsPlayer' = 1 /\ wait' = 1
  /\ due' = used /\ sent' = {}
  /\ gameOver' = TRUE /\ elapsed' = 0 /\ buttonHit' = FALSE

(* CHalfLifeCTFplay::GoToIntermission starts the sending, again if it must; *)
(* CHalfLifeMultiplay::GoToIntermission, which it calls, begins only one   *)
(* intermission.                                                           *)
GoToIntermission ==
  /\ phase' = "SendTeam0" /\ statsPlayer' = 1 /\ wait' = 1
  /\ due' = used /\ sent' = {}
  /\ \/ gameOver /\ UNCHANGED <<gameOver, elapsed, buttonHit>>
     \/ /\ ~gameOver
        /\ gameOver' = TRUE /\ elapsed' = 0 /\ buttonHit' = FALSE

-----------------------------------------------------------------------------
(* Think. *)

(* The players examined by a slice that begins with slot i: up to the one  *)
(* that makes it LastStat + 1 players, or all that are left.               *)
Full(i, e) == e \in i..MaxClients /\ Cardinality(used \cap i..e) = LastStat + 1
SliceEnd(i) ==
  IF \E e \in Clients : Full(i, e)
  THEN CHOOSE e \in Clients : Full(i, e) /\ e \in used
  ELSE MaxClients

(* Mutant: the next slice begins after the slot after the last one. *)
SendPlayersSkip ==
  LET last == SliceEnd(statsPlayer)
  IN  /\ phase = "SendPlayers"
      /\ sent'        = sent \cup (used \cap statsPlayer..last)
      /\ statsPlayer' = IF last + 2 > MaxClients THEN MaxClients ELSE last + 2
      /\ phase'       = IF MaxClients <= last + 1 THEN "OpenMenu" ELSE phase

(* A slice of the players.  The loop leaves m_iStatsPlayer one past the    *)
(* last slot it examined and the code takes one off again: the next slice  *)
(* begins with that slot, and the sending ends when at most one slot       *)
(* follows it.                                                             *)
SendPlayers ==
  LET last == SliceEnd(statsPlayer)
  IN  /\ phase = "SendPlayers"
      /\ sent'        = sent \cup (used \cap statsPlayer..last)
      /\ statsPlayer' = last
      /\ phase'       = IF MaxClients <= last + 1 THEN "OpenMenu" ELSE phase

NextPhase == [SendTeam0 |-> "SendTeam1", SendTeam1 |-> "SendTeam2",
              SendTeam2 |-> "SendPlayers", OpenMenu |-> "Nothing"]

SendStats ==
  /\ phase # "Nothing" /\ wait = 0
  /\ wait' = 1
  /\ \/ SendPlayers
     \/ /\ phase \in DOMAIN NextPhase
        /\ phase' = NextPhase[phase]
        /\ UNCHANGED <<statsPlayer, sent>>
  /\ UNCHANGED due

NoStats ==
  /\ phase = "Nothing" \/ wait > 0
  /\ UNCHANGED statsVars

(* CHalfLifeMultiplay::Think once the game is over. *)
MayLeave == elapsed > ChatTime /\ (buttonHit \/ elapsed > MaxIntermission)

(* A frame of the intermission. *)
IntermissionThink ==
  /\ gameOver
  /\ SendStats \/ NoStats
  /\ changing' = (changing \/ MayLeave)
  /\ UNCHANGED <<gameOver, used, elapsed, buttonHit>>

(* A frame of the match that finds the time, frag or capture limit reached. *)
LimitReached ==
  /\ ~gameOver
  /\ GoToIntermission
  /\ UNCHANGED <<used, changing>>

-----------------------------------------------------------------------------
(* CGameEnd::Use, EndMultiplayerGame. *)
GameEnd ==
  /\ GoToIntermission
  /\ UNCHANGED <<used, changing>>

(* PlayerThink. *)
PressButton ==
  /\ gameOver /\ used # {}
  /\ buttonHit' = TRUE
  /\ UNCHANGED <<gameOver, used, elapsed, changing, statsVars>>

ClientPutInServer(p) ==
  /\ used' = used \cup {p}
  /\ UNCHANGED <<statsVars, matchVars>>

Tick ==
  /\ wait'    = IF wait = 0 THEN 0 ELSE wait - 1
  /\ elapsed' = IF gameOver /\ elapsed <= MaxIntermission THEN elapsed + 1 ELSE elapsed
  /\ UNCHANGED <<gameOver, used, buttonHit, changing, phase, statsPlayer, due, sent>>

(* The engine loads the level it was asked for: worldspawn makes new game  *)
(* rules, and every client connects again.                                 *)
NewLevel ==
  /\ changing
  /\ gameOver' = FALSE /\ used' = {}
  /\ phase' = "Nothing" /\ statsPlayer' = 1 /\ wait' = 0
  /\ elapsed' = 0 /\ buttonHit' = FALSE /\ changing' = FALSE
  /\ due' = {} /\ sent' = {}

Next ==
  \/ IntermissionThink \/ LimitReached \/ GameEnd \/ PressButton
  \/ \E p \in Clients : ClientPutInServer(p)
  \/ Tick \/ NewLevel

(* Frames are run and time passes.  That a match ends is up to the limits  *)
(* of the server and to the players: it is not assumed.                    *)
Fairness == WF_vars(IntermissionThink) /\ WF_vars(Tick)

Spec == Init /\ [][Next]_vars /\ Fairness

-----------------------------------------------------------------------------
(* Properties. *)

TypeOK ==
  /\ gameOver \in BOOLEAN /\ buttonHit \in BOOLEAN /\ changing \in BOOLEAN
  /\ used \subseteq Clients /\ due \subseteq Clients /\ sent \subseteq Clients
  /\ phase \in Phases
  /\ statsPlayer \in Clients
  /\ wait \in {0, 1}
  /\ elapsed \in 0..(MaxIntermission + 1)

(* When the statistics menu is about to open, every player who was there   *)
(* when the sending began has been sent the statistics, except possibly    *)
(* the one in the last slot: the slices overlap and leave no other gap.    *)
StatsReachAllButLast ==
  phase = "OpenMenu" => due \ {MaxClients} \subseteq sent

(* An intermission ends, even if nobody presses a button and however often *)
(* the map ends the match again.                                           *)
IntermissionEnds == gameOver ~> changing

=============================================================================
