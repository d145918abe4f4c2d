---------------------------- MODULE CTFTeams_proofs ----------------------------
(***************************************************************************)
(* Theorems about CTFTeams, for any number of client slots: a client that  *)
(* sends its commands in any order, in whatever menu, alive or dead, is    *)
(* never shown the classes of another team than selectchar will put the    *)
(* player into, and nobody is told a wrong team.  Both are inductive       *)
(* together with the types and OnlyPlayersInTeams, without which a new     *)
(* client could be shown the team that the slot had before.                *)
(***************************************************************************)
EXTENDS CTFTeams, TLAPS

OnlyPlayersInTeams == \A p \in Players : life[p] # "playing" => team[p] = NoTeam

IInv == TypeOK /\ OnlyPlayersInTeams /\ ClassMenuTellsTruth /\ NobodyIsMisled

LEMMA InitialInvariant == Init => IInv
<1> SUFFICES ASSUME Init PROVE IInv
  OBVIOUS
<1>1. TypeOK
  BY DEF Init, TypeOK, Teams, Lives, Menus
<1>2. OnlyPlayersInTeams /\ ClassMenuTellsTruth /\ NobodyIsMisled
  BY DEF Init, OnlyPlayersInTeams, ClassMenuTellsTruth, NobodyIsMisled, Present
<1> QED BY <1>1, <1>2 DEF IInv

(* OpenMenu and TellAll write the menus and what the clients are told.     *)
LEMMA MenuFacts ==
  ASSUME TypeOK, NEW p \in Players, NEW m \in Menus, NEW c \in Teams, OpenMenu(p, m, c)
  PROVE  /\ menu' \in [Players -> Menus] /\ shown' \in [Players -> Teams]
         /\ menu'[p] = m
         /\ m = "Class" => shown'[p] = IF c = NoTeam THEN team[p] ELSE c
         /\ \A q \in Players : q # p => menu'[q] = menu[q] /\ shown'[q] = shown[q]
BY DEF TypeOK, OpenMenu

LEMMA TellFacts ==
  ASSUME TypeOK, NEW p \in Players, NEW t \in Teams, TellAll(p, t)
  PROVE  /\ told' \in [Players -> [Players -> Teams]]
         /\ \A v \in Players : Present(v) => told'[v][p] = t
         /\ \A v, q \in Players : q # p => told'[v][q] = told[v][q]
BY DEF TypeOK, TellAll

(* A command that changes only the choice and the menus of its player, and *)
(* opens the classes for the team that it has chosen.                      *)
LEMMA MenuStep ==
  ASSUME IInv, NEW p \in Players, NEW t \in Teams, NEW m \in Menus, NEW c \in Teams,
         newTeam' = [newTeam EXCEPT ![p] = t], OpenMenu(p, m, c),
         m = "Class" => c = t /\ t # NoTeam,
         UNCHANGED <<life, team, init, told>>
  PROVE  IInv'
<1> USE DEF IInv
<1>1. /\ menu' \in [Players -> Menus] /\ shown' \in [Players -> Teams]
      /\ menu'[p] = m
      /\ m = "Class" => shown'[p] = IF c = NoTeam THEN team[p] ELSE c
      /\ \A q \in Players : q # p => menu'[q] = menu[q] /\ shown'[q] = shown[q]
  BY MenuFacts
<1>2. TypeOK'
  BY <1>1 DEF TypeOK
<1>3. ClassMenuTellsTruth'
  <2>1. \A q \in Players : newTeam'[q] = IF q = p THEN t ELSE newTeam[q]
    BY DEF TypeOK
  <2> QED BY <1>1, <2>1 DEF ClassMenuTellsTruth, Present
<1>4. OnlyPlayersInTeams' /\ NobodyIsMisled'
  BY DEF OnlyPlayersInTeams, NobodyIsMisled, Present
<1> QED BY <1>2, <1>3, <1>4

LEMMA MenuAfterType == \A m : MenuAfter(m) \in Menus
BY DEF MenuAfter, Menus

LEMMA ChoiceKept ==
  ASSUME TypeOK, NEW p \in Players
  PROVE  newTeam = [newTeam EXCEPT ![p] = newTeam[p]] /\ newTeam[p] \in Teams /\ team[p] \in Teams
BY DEF TypeOK

LEMMA ChooseStep ==
  ASSUME IInv, NEW p \in Players, NEW t \in Sides, Choose(p, t)
  PROVE  IInv'
<1> DEFINE m == MenuAfter(menu[p])
<1>1. newTeam' = [newTeam EXCEPT ![p] = t] /\ OpenMenu(p, m, t) /\ UNCHANGED <<life, team, init, told>>
  BY DEF Choose, ResetMenu
<1>2. m \in Menus /\ t \in Teams /\ t # NoTeam
  BY MenuAfterType DEF Teams, Sides, NoTeam
<1> HIDE DEF m
<1> QED BY <1>1, <1>2, MenuStep

(* A player without a team who spawns is shown the team of nobody, and     *)
(* only if there is no choice to apply.                                    *)
LEMMA SpawnFacts ==
  ASSUME TypeOK, NEW p \in Players, NEW c \in Teams, team[p] = NoTeam, SpawnAsObserver(p, c)
  PROVE  /\ life' \in [Players -> Lives] /\ life'[p] = "observer"
         /\ menu' \in [Players -> Menus] /\ shown' \in [Players -> Teams]
         /\ menu'[p] = "Class" => c = NoTeam /\ shown'[p] = NoTeam
         /\ \A q \in Players : q # p =>
              life'[q] = life[q] /\ menu'[q] = menu[q] /\ shown'[q] = shown[q]
<1> DEFINE m == IF c = NoTeam THEN "Class" ELSE "Default"
<1>1. m \in Menus /\ OpenMenu(p, m, c)
  BY DEF SpawnAsObserver, Menus
<1>2. m = "Class" => c = NoTeam
  OBVIOUS
<1>3. /\ life' \in [Players -> Lives] /\ life'[p] = "observer"
      /\ \A q \in Players : q # p => life'[q] = life[q]
  BY DEF SpawnAsObserver, TypeOK, Lives
<1> HIDE DEF m
<1> QED BY <1>1, <1>2, <1>3, MenuFacts

LEMMA PutInServerStep ==
  ASSUME IInv, NEW p \in Players, ClientPutInServer(p)
  PROVE  IInv'
<1> USE DEF IInv
<1>1. NoTeam \in Teams /\ team[p] = NoTeam
  BY DEF Teams, OnlyPlayersInTeams, Present, ClientPutInServer
<1>2. /\ life' \in [Players -> Lives] /\ life'[p] = "observer"
      /\ menu' \in [Players -> Menus] /\ shown' \in [Players -> Teams]
      /\ menu'[p] = "Class" => shown'[p] = NoTeam
      /\ \A q \in Players : q # p =>
           life'[q] = life[q] /\ menu'[q] = menu[q] /\ shown'[q] = shown[q]
  BY <1>1, SpawnFacts DEF ClientPutInServer
<1>3. TypeOK'
  BY <1>1, <1>2 DEF TypeOK, ClientPutInServer
<1>4. ClassMenuTellsTruth'
  BY <1>2 DEF ClassMenuTellsTruth, Present, ClientPutInServer, TypeOK
<1>5. OnlyPlayersInTeams' /\ NobodyIsMisled'
  BY <1>1, <1>2 DEF OnlyPlayersInTeams, NobodyIsMisled, Present, ClientPutInServer, TypeOK
<1> QED BY <1>3, <1>4, <1>5

LEMMA RespawnStep ==
  ASSUME IInv, NEW p \in Players, Respawn(p)
  PROVE  IInv'
<1> USE DEF IInv
<1>1. newTeam[p] \in Teams /\ team[p] = NoTeam /\ UNCHANGED <<team, newTeam, init, told>>
  BY DEF TypeOK, Respawn
<1>2. /\ life' \in [Players -> Lives] /\ life'[p] = "observer"
      /\ menu' \in [Players -> Menus] /\ shown' \in [Players -> Teams]
      /\ menu'[p] = "Class" => newTeam[p] = NoTeam /\ shown'[p] = NoTeam
      /\ \A q \in Players : q # p =>
           life'[q] = life[q] /\ menu'[q] = menu[q] /\ shown'[q] = shown[q]
  BY <1>1, SpawnFacts DEF Respawn
<1>3. TypeOK'
  BY <1>1, <1>2 DEF TypeOK
<1>4. ClassMenuTellsTruth'
  BY <1>1, <1>2 DEF ClassMenuTellsTruth, Present
<1>5. OnlyPlayersInTeams' /\ NobodyIsMisled'
  BY <1>1, <1>2 DEF OnlyPlayersInTeams, NobodyIsMisled, Present, Respawn
<1> QED BY <1>3, <1>4, <1>5

LEMMA InitHUDStep ==
  ASSUME IInv, NEW p \in Players, InitHUD(p)
  PROVE  IInv'
<1> USE DEF IInv
<1>1. NoTeam \in Teams /\ "Team" \in Menus
  BY DEF Teams, Menus
<1>2. /\ menu' \in [Players -> Menus] /\ shown' \in [Players -> Teams]
      /\ menu'[p] = "Team"
      /\ \A q \in Players : q # p => menu'[q] = menu[q] /\ shown'[q] = shown[q]
  BY <1>1, MenuFacts DEF InitHUD
<1>3. team' \in [Players -> Teams] /\ UNCHANGED <<life, newTeam>>
      /\ \A q \in Players : team'[q] = IF q = p /\ life[p] = "playing" THEN NoTeam ELSE team[q]
  BY <1>1 DEF TypeOK, InitHUD
<1>4. \A v, q \in Players : told'[v][q] =
        IF q = v /\ team'[v] # NoTeam THEN team'[v]
        ELSE IF q = p /\ team[p] # NoTeam /\ Present(v) THEN team'[p] ELSE told[v][q]
  BY DEF InitHUD
<1>5. told' \in [Players -> [Players -> Teams]]
  <2>1. \A v, q \in Players : told[v][q] \in Teams /\ team'[q] \in Teams
    BY <1>3 DEF TypeOK
  <2> QED BY <2>1 DEF InitHUD
<1>6. init' \in [Players -> BOOLEAN] /\ \A q \in Players : q # p => init'[q] = init[q]
  BY DEF TypeOK, InitHUD
<1>7. TypeOK'
  BY <1>2, <1>3, <1>5, <1>6 DEF TypeOK
<1>8. OnlyPlayersInTeams' /\ ClassMenuTellsTruth'
  BY <1>2, <1>3 DEF OnlyPlayersInTeams, ClassMenuTellsTruth, Present
<1>9. NobodyIsMisled'
  <2>1. SUFFICES ASSUME NEW v \in Players, NEW q \in Players, Present(v), life[q] = "playing"
                 PROVE  told'[v][q] \in {NoTeam, team'[q]}
    BY <1>3 DEF NobodyIsMisled, Present
  <2>2. told[v][q] \in {NoTeam, team[q]}
    BY <2>1 DEF NobodyIsMisled
  <2> QED BY <1>3, <1>4, <2>1, <2>2
<1> QED BY <1>7, <1>8, <1>9

LEMMA DisconnectStep ==
  ASSUME IInv, NEW p \in Players, ClientDisconnect(p)
  PROVE  IInv'
<1> USE DEF IInv
<1>1. TypeOK'
  BY DEF TypeOK, ClientDisconnect, Lives, Teams
<1>2. OnlyPlayersInTeams' /\ ClassMenuTellsTruth' /\ NobodyIsMisled'
  BY DEF OnlyPlayersInTeams, ClassMenuTellsTruth, NobodyIsMisled, Present, ClientDisconnect, TypeOK
<1> QED BY <1>1, <1>2

LEMMA SpectateStep ==
  ASSUME IInv, NEW p \in Players, Spectate(p)
  PROVE  IInv'
<1> USE DEF IInv
<1>1. NoTeam \in Teams
  BY DEF Teams
<1>2. /\ told' \in [Players -> [Players -> Teams]]
      /\ \A v, q \in Players : q # p => told'[v][q] = told[v][q]
  BY <1>1, TellFacts DEF Spectate
<1>3. /\ shown' \in [Players -> Teams]
      /\ \A q \in Players : q # p => shown'[q] = shown[q]
  BY <1>1 DEF TypeOK, Spectate
<1>4. TypeOK'
  BY <1>1, <1>2, <1>3 DEF TypeOK, Spectate, Lives, Menus
<1>5. ClassMenuTellsTruth'
  BY <1>3 DEF ClassMenuTellsTruth, Present, Spectate, TypeOK
<1>6. OnlyPlayersInTeams' /\ NobodyIsMisled'
  BY <1>2 DEF OnlyPlayersInTeams, NobodyIsMisled, Present, Spectate, TypeOK
<1> QED BY <1>4, <1>5, <1>6

LEMMA SelectCharStep ==
  ASSUME IInv, NEW p \in Players, SelectChar(p)
  PROVE  IInv'
<1> USE DEF IInv
<1> DEFINE t == newTeam[p]
           m == MenuAfter(menu[p])
<1>1. t \in Teams /\ t # NoTeam /\ m \in Menus
  BY MenuAfterType DEF TypeOK, SelectChar
<1>2. OpenMenu(p, m, t) /\ TellAll(p, t)
  BY DEF SelectChar, ResetMenu
<1>3. /\ menu' \in [Players -> Menus] /\ shown' \in [Players -> Teams]
      /\ menu'[p] = m
      /\ m = "Class" => shown'[p] = t
      /\ \A q \in Players : q # p => menu'[q] = menu[q] /\ shown'[q] = shown[q]
  <2> HIDE DEF t, m
  <2> QED BY <1>1, <1>2, MenuFacts
<1>4. /\ told' \in [Players -> [Players -> Teams]]
      /\ \A v \in Players : Present(v) => told'[v][p] = t
      /\ \A v, q \in Players : q # p => told'[v][q] = told[v][q]
  <2> HIDE DEF t, m
  <2> QED BY <1>1, <1>2, TellFacts
<1>5. /\ life' \in [Players -> Lives] /\ team' \in [Players -> Teams]
      /\ life[p] # "absent" /\ life'[p] = "playing" /\ team'[p] = t
      /\ \A q \in Players : q # p => life'[q] = life[q] /\ team'[q] = team[q]
      /\ UNCHANGED <<newTeam, init>>
  BY <1>1 DEF TypeOK, SelectChar, Lives, Present
<1>6. TypeOK'
  BY <1>3, <1>4, <1>5 DEF TypeOK
<1>7. OnlyPlayersInTeams' /\ ClassMenuTellsTruth'
  BY <1>1, <1>3, <1>5 DEF OnlyPlayersInTeams, ClassMenuTellsTruth, Present
<1>8. NobodyIsMisled'
  <2>1. SUFFICES ASSUME NEW v \in Players, NEW q \in Players, Present(v)', life'[q] = "playing"
                 PROVE  told'[v][q] \in {NoTeam, team'[q]}
    BY DEF NobodyIsMisled
  <2>2. Present(v)
    BY <1>5, <2>1 DEF Present
  <2> QED BY <1>4, <1>5, <2>1, <2>2 DEF NobodyIsMisled
<1> QED BY <1>6, <1>7, <1>8

LEMMA CommandStep ==
  ASSUME IInv, NEW p \in Players, Command(p)
  PROVE  IInv'
<1>0. "Team" \in Menus /\ "Class" \in Menus /\ "None" \in Menus /\ NoTeam \in Teams
  BY DEF Menus, Teams
<1>a. newTeam = [newTeam EXCEPT ![p] = newTeam[p]] /\ newTeam[p] \in Teams /\ team[p] \in Teams
  BY ChoiceKept DEF IInv
<1>1. CASE TeamMenu(p)
  <2>1. newTeam' = [newTeam EXCEPT ![p] = newTeam[p]] /\ OpenMenu(p, "Team", newTeam[p])
        /\ UNCHANGED <<life, team, init, told>>
    BY <1>1, <1>a DEF TeamMenu
  <2> QED BY <1>0, <1>a, <2>1, MenuStep
<1>2. CASE ChangeClass(p)
  <2> DEFINE t == IF newTeam[p] = NoTeam THEN team[p] ELSE newTeam[p]
  <2>1. newTeam' = [newTeam EXCEPT ![p] = t] /\ t \in Teams /\ t # NoTeam
    BY <1>2, <1>a DEF ChangeClass
  <2>2. OpenMenu(p, "Class", t) /\ UNCHANGED <<life, team, init, told>>
    BY <1>2, <2>1 DEF ChangeClass, IInv, TypeOK
  <2> HIDE DEF t
  <2> QED BY <1>0, <2>1, <2>2, MenuStep
<1>3. CASE CancelMenu(p)
  <2>1. CASE menu[p] = "Class"
    <3>1. newTeam' = [newTeam EXCEPT ![p] = NoTeam] /\ OpenMenu(p, "Team", NoTeam)
          /\ UNCHANGED <<life, team, init, told>>
      BY <1>3, <2>1 DEF CancelMenu
    <3> QED BY <1>0, <3>1, MenuStep
  <2>2. CASE menu[p] # "Class"
    <3>1. newTeam' = [newTeam EXCEPT ![p] = newTeam[p]] /\ OpenMenu(p, "None", NoTeam)
          /\ UNCHANGED <<life, team, init, told>>
      BY <1>3, <1>a, <2>2 DEF CancelMenu
    <3> QED BY <1>0, <1>a, <3>1, MenuStep
  <2> QED BY <2>1, <2>2
<1>4. ASSUME NEW t \in Sides, JoinTeam(p, t) PROVE IInv'
  BY <1>4, ChooseStep DEF JoinTeam
<1>5. CASE JoinAny(p)
  BY <1>5, ChooseStep DEF JoinAny
<1>6. CASE RefuseTeam(p)
  <2>1. newTeam' = [newTeam EXCEPT ![p] = NoTeam] /\ OpenMenu(p, "Team", NoTeam)
        /\ UNCHANGED <<life, team, init, told>>
    BY <1>6 DEF RefuseTeam
  <2> QED BY <1>0, <2>1, MenuStep
<1>7. CASE LeaveTeamMenu(p)
  <2>1. newTeam' = [newTeam EXCEPT ![p] = NoTeam] /\ OpenMenu(p, "None", NoTeam)
        /\ UNCHANGED <<life, team, init, told>>
    BY <1>7 DEF LeaveTeamMenu
  <2> QED BY <1>0, <2>1, MenuStep
<1>8. CASE Spectate(p)
  BY <1>8, SpectateStep
<1>9. CASE SelectChar(p)
  BY <1>9, SelectCharStep
<1> QED BY <1>1, <1>2, <1>3, <1>4, <1>5, <1>6, <1>7, <1>8, <1>9 DEF Command

LEMMA Step == IInv /\ [Next]_vars => IInv'
<1> SUFFICES ASSUME IInv, [Next]_vars PROVE IInv'
  OBVIOUS
<1>1. CASE UNCHANGED vars
  BY <1>1 DEF vars, IInv, TypeOK, OnlyPlayersInTeams, ClassMenuTellsTruth, NobodyIsMisled, Present
<1>2. ASSUME NEW p \in Players,
             \/ ClientPutInServer(p) \/ InitHUD(p) \/ Respawn(p) \/ ClientDisconnect(p)
             \/ Command(p)
      PROVE  IInv'
  BY <1>2, PutInServerStep, InitHUDStep, RespawnStep, DisconnectStep, CommandStep
<1> QED BY <1>1, <1>2 DEF Next

-----------------------------------------------------------------------------
(* The inductive invariant holds in every reachable state.                 *)
THEOREM Invariance == Spec => []IInv
BY InitialInvariant, Step, PTL DEF Spec

(* Teams, choices, menus and what the clients were told keep their types.  *)
THEOREM TypeCorrect == Spec => []TypeOK
<1>1. IInv => TypeOK
  BY DEF IInv
<1> QED BY <1>1, Invariance, PTL

(* An open menu of the classes is that of the team that selectchar joins,  *)
(* or of none when selectchar is refused, for any order of the commands of *)
(* ClientCommand, of InitHUD and of the spawns of Spawn.                   *)
THEOREM MenusTellTruth == Spec => []ClassMenuTellsTruth
<1>1. IInv => ClassMenuTellsTruth
  BY DEF IInv
<1> QED BY <1>1, Invariance, PTL

(* No client has been told a wrong team of somebody who plays, whoever     *)
(* joins, leaves, connects or disconnects.                                 *)
THEOREM TeamInfoIsTrue == Spec => []NobodyIsMisled
<1>1. IInv => NobodyIsMisled
  BY DEF IInv
<1> QED BY <1>1, Invariance, PTL
=============================================================================
