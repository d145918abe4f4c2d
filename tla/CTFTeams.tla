------------------------------ MODULE CTFTeams ------------------------------
(***************************************************************************)
(* How a player gets into a team of a CTF match: the menus and the client  *)
(* commands behind them (dlls/player.cpp, dlls/client.cpp and ClientCommand *)
(* of dlls/ctf/ctfplay_gamerules.cpp), the balance of the teams, and what  *)
(* each client is told about the teams of the others.                      *)
(*                                                                         *)
(* A team is chosen in two steps, jointeam and selectchar, and the console *)
(* lets a client send either at any time, whatever menu is open: the       *)
(* choice waits in m_iNewTeamNum meanwhile.  The menu the server believes  *)
(* to be open is m_iCurrentMenu.  MENU_DEFAULT shows nothing: it is where  *)
(* a player without a team respawns whose choice still waits.  The         *)
(* intermission is left out.                                               *)
(***************************************************************************)
EXTENDS Integers, FiniteSets

CONSTANTS
  Players,     (* the client slots                                         *)
  AutoTeam     (* ctf_autoteam                                             *)

ASSUME TeamsAssumption == AutoTeam \in BOOLEAN

NoTeam   == 0
Sides    == {1, 2}
Teams    == Sides \cup {NoTeam}
Menus    == {"None", "Default", "Team", "Class"}
Lives    == {"absent", "observer", "playing"}

VARIABLES
  life,      (* an observer has pev->iuser1 # 0; the dead are playing      *)
  team,      (* m_iTeamNum                                                 *)
  newTeam,   (* m_iNewTeamNum                                              *)
  menu,      (* m_iCurrentMenu                                             *)
  shown,     (* the team of the last SetMenuTeam message                   *)
  init,      (* m_fGameHUDInitialized                                      *)
  told       (* told[v][p]: the team of p in the last TeamInfo v was sent  *)

vars == <<life, team, newTeam, menu, shown, init, told>>

Init ==
  /\ life    = [p \in Players |-> "absent"]
  /\ team    = [p \in Players |-> NoTeam]
  /\ newTeam = [p \in Players |-> NoTeam]
  /\ menu    = [p \in Players |-> "None"]
  /\ shown   = [p \in Players |-> NoTeam]
  /\ init    = [p \in Players |-> FALSE]
  /\ told    = [v \in Players |-> [p \in Players |-> NoTeam]]

Present(p) == life[p] # "absent"

-----------------------------------------------------------------------------
(* The balance of the teams. *)

Count(t)       == Cardinality({p \in Players : team[p] = t})
TeamsBalanced  == Count(1) = Count(2)
TeamWithFewest == IF Count(2) < Count(1) THEN 2 ELSE 1

-----------------------------------------------------------------------------
(* Messages and menus. *)

(* TeamInfo to all clients. *)
TellAll(p, t) ==
  told' = [v \in Players |-> IF Present(v) THEN [told[v] EXCEPT ![p] = t] ELSE told[v]]

(* Player_Menu for menu m, when the choice of p is c. *)
OpenMenu(p, m, c) ==
  /\ menu' = [menu EXCEPT ![p] = m]
  /\ shown' = IF m = "Class"
              THEN [shown EXCEPT ![p] = IF c = NoTeam THEN team[p] ELSE c]
              ELSE shown

(* The menu that ResetMenu opens after menu m. *)
MenuAfter(m) ==
  CASE m = "Default" -> "Team"
    [] m = "Team"    -> "Class"
    [] OTHER         -> "None"

ResetMenu(p, c) == OpenMenu(p, MenuAfter(menu[p]), c)

-----------------------------------------------------------------------------
(* Coming and going. *)

(* Spawn of a player without a team whose choice is c: the player watches, *)
(* with the menu of the classes if nothing is chosen.                      *)
SpawnAsObserver(p, c) ==
  /\ life' = [life EXCEPT ![p] = "observer"]
  /\ OpenMenu(p, IF c = NoTeam THEN "Class" ELSE "Default", c)

(* A new CBasePlayer and its Spawn. *)
ClientPutInServer(p) ==
  /\ ~Present(p)
  /\ SpawnAsObserver(p, NoTeam)
  /\ newTeam' = [newTeam EXCEPT ![p] = NoTeam]
  /\ init'    = [init EXCEPT ![p] = FALSE]
  /\ told'    = [told EXCEPT ![p] = [q \in Players |-> NoTeam]]
  /\ UNCHANGED team

(* PlayerDeathThink ends with a Spawn.  It changes nothing here for a      *)
(* player with a team; but InitHUD takes players out of their team who     *)
(* play on, die, and come back as observers, the choice unchanged.         *)
Respawn(p) ==
  /\ life[p] = "playing" /\ team[p] = NoTeam
  /\ SpawnAsObserver(p, newTeam[p])
  /\ UNCHANGED <<team, newTeam, init, told>>

(* InitHUD, from the first UpdateClientData of the player: the commands    *)
(* that reached the server before it may have put the player into a team.  *)
(* Then the name of the team is passed to ChangePlayerTeam where the name  *)
(* of a character belongs, and the player is in no team.  (The code also   *)
(* reads team_names[-1] for the name of that team; it is left out.)        *)
(* At the end the loop over the players hides the parameter pPlayer: each  *)
(* player is told about itself.                                            *)
InitHUD(p) ==
  /\ Present(p) /\ ~init[p]
  /\ init' = [init EXCEPT ![p] = TRUE]
  /\ OpenMenu(p, "Team", NoTeam)
  /\ team' = IF life[p] = "playing" THEN [team EXCEPT ![p] = NoTeam] ELSE team
  /\ told' = [v \in Players |-> [q \in Players |->
               IF q = v /\ team'[v] # NoTeam THEN team'[v]
               ELSE IF q = p /\ team[p] # NoTeam /\ Present(v) THEN team'[p]
               ELSE told[v][q]]]
  /\ UNCHANGED <<life, newTeam>>

ClientDisconnect(p) ==
  /\ Present(p)
  /\ life'    = [life EXCEPT ![p] = "absent"]
  /\ team'    = [team EXCEPT ![p] = NoTeam]
  /\ newTeam' = [newTeam EXCEPT ![p] = NoTeam]
  /\ UNCHANGED <<menu, shown, init, told>>

-----------------------------------------------------------------------------
(* The client commands. *)

(* changeteam and endmotd. *)
TeamMenu(p) ==
  /\ Present(p)
  /\ OpenMenu(p, "Team", newTeam[p])
  /\ UNCHANGED <<life, team, newTeam, init, told>>

(* changeclass *)
ChangeClass(p) ==
  /\ Present(p) /\ menu[p] # "Class"
  /\ newTeam[p] # NoTeam \/ team[p] # NoTeam
  /\ newTeam' = [newTeam EXCEPT ![p] = IF @ = NoTeam THEN team[p] ELSE @]
  /\ OpenMenu(p, "Class", newTeam'[p])
  /\ UNCHANGED <<life, team, init, told>>

(* spectate, jointeam -1, and cancelmenu for a player who has nothing to   *)
(* go back to: ChangePlayerTeam without a character.  The dead respawn     *)
(* first, and those without a team are sent the menu of no team.           *)
Spectate(p) ==
  /\ Present(p)
  /\ \/ UNCHANGED shown
     \/ /\ life[p] = "playing" /\ team[p] = NoTeam
        /\ shown' = [shown EXCEPT ![p] = NoTeam]
  /\ life'    = [life EXCEPT ![p] = "observer"]
  /\ team'    = [team EXCEPT ![p] = NoTeam]
  /\ newTeam' = [newTeam EXCEPT ![p] = NoTeam]
  /\ menu'    = [menu EXCEPT ![p] = "None"]
  /\ TellAll(p, NoTeam)
  /\ UNCHANGED init

(* cancelmenu: back from the classes to the teams, and out of the teams.   *)
CancelMenu(p) ==
  /\ Present(p)
  /\ \/ /\ menu[p] = "Class"
        /\ newTeam' = [newTeam EXCEPT ![p] = NoTeam]
        /\ OpenMenu(p, "Team", NoTeam)
     \/ /\ menu[p] = "Team" /\ (newTeam[p] # NoTeam \/ team[p] # NoTeam)
        /\ OpenMenu(p, "None", NoTeam)
        /\ UNCHANGED newTeam
  /\ UNCHANGED <<life, team, init, told>>

(* The choice of team t in Menu_Team_Input. *)
Choose(p, t) ==
  /\ Present(p)
  /\ newTeam' = [newTeam EXCEPT ![p] = t]
  /\ ResetMenu(p, t)
  /\ UNCHANGED <<life, team, init, told>>

(* ctf_autoteam keeps player p out of team t. *)
TeamFull(p, t) ==
  AutoTeam /\ team[p] # t /\ ~TeamsBalanced /\ t # TeamWithFewest

(* jointeam with the number of a team. *)
JoinTeam(p, t) == ~TeamFull(p, t) /\ Choose(p, t)

(* jointeam 3: the smaller team, or else the old one, or else any. *)
JoinAny(p) ==
  \E t \in Sides :
    /\ IF ~TeamsBalanced THEN t = TeamWithFewest
       ELSE t = team[p] \/ team[p] = NoTeam
    /\ Choose(p, t)

(* Mutant: the menu stays as it is. *)
RefuseTeamKeepsMenu(p) ==
  /\ Present(p)
  /\ newTeam' = [newTeam EXCEPT ![p] = NoTeam]
  /\ UNCHANGED <<life, team, menu, shown, init, told>>

(* jointeam with a full team or a number that is none: the choice is gone  *)
(* and the menu of the teams opens again.                                  *)
RefuseTeam(p) ==
  /\ Present(p)
  /\ newTeam' = [newTeam EXCEPT ![p] = NoTeam]
  /\ OpenMenu(p, "Team", NoTeam)
  /\ UNCHANGED <<life, team, init, told>>

(* jointeam 6 from within a team. *)
LeaveTeamMenu(p) ==
  /\ Present(p) /\ team[p] # NoTeam
  /\ newTeam' = [newTeam EXCEPT ![p] = NoTeam]
  /\ OpenMenu(p, "None", NoTeam)
  /\ UNCHANGED <<life, team, init, told>>

(* Mutant: TeamInfo is sent before the team changes. *)
SelectCharTellsOld(p) ==
  /\ Present(p) /\ newTeam[p] # NoTeam
  /\ life' = [life EXCEPT ![p] = "playing"]
  /\ team' = [team EXCEPT ![p] = newTeam[p]]
  /\ ResetMenu(p, newTeam[p])
  /\ TellAll(p, team[p])
  /\ UNCHANGED <<newTeam, init>>

(* selectchar: ChangePlayerTeam with a character of the chosen team, and   *)
(* for an observer the way into the game.                                  *)
SelectChar(p) ==
  /\ Present(p) /\ newTeam[p] # NoTeam
  /\ life' = [life EXCEPT ![p] = "playing"]
  /\ team' = [team EXCEPT ![p] = newTeam[p]]
  /\ ResetMenu(p, newTeam[p])
  /\ TellAll(p, newTeam[p])
  /\ UNCHANGED <<newTeam, init>>

Command(p) ==
  \/ TeamMenu(p) \/ ChangeClass(p) \/ CancelMenu(p) \/ Spectate(p)
  \/ \E t \in Sides : JoinTeam(p, t)
  \/ JoinAny(p) \/ RefuseTeam(p) \/ LeaveTeamMenu(p) \/ SelectChar(p)

Next ==
  \E p \in Players :
    \/ ClientPutInServer(p) \/ InitHUD(p) \/ Respawn(p) \/ ClientDisconnect(p)
    \/ Command(p)

Spec == Init /\ [][Next]_vars

-----------------------------------------------------------------------------
(* Properties. *)

TypeOK ==
  /\ life    \in [Players -> Lives]
  /\ team    \in [Players -> Teams]
  /\ newTeam \in [Players -> Teams]
  /\ menu    \in [Players -> Menus]
  /\ shown   \in [Players -> Teams]
  /\ init    \in [Players -> BOOLEAN]
  /\ told    \in [Players -> [Players -> Teams]]

(* Whatever a client sends in whatever menu, and whenever InitHUD comes or *)
(* the player dies and respawns: an open menu of the classes was sent for  *)
(* the choice that selectchar will apply.  Without a choice, when          *)
(* selectchar is refused, it was sent for no team, and only an observer    *)
(* has it open.                                                            *)
ClassMenuTellsTruth ==
  \A p \in Players :
    Present(p) /\ menu[p] = "Class" =>
      /\ shown[p] = newTeam[p]
      /\ newTeam[p] = NoTeam => life[p] = "observer"

(* Nobody is told a wrong team: what a client was last told of the team of *)
(* somebody who plays is that team or, for a client that came later or a   *)
(* player whom InitHUD took out of the team, nothing at all.               *)
NobodyIsMisled ==
  \A v, p \in Players :
    Present(v) /\ life[p] = "playing" => told[v][p] \in {NoTeam, team[p]}

=============================================================================
