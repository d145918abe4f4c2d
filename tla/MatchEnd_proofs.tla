---------------------------- MODULE MatchEnd_proofs ----------------------------
(***************************************************************************)
(* The end of a match, for any number of slots: the statistics (CTFMatch)  *)
(* for any size of a slice, and the map that comes next (MapCycle) for any *)
(* list of maps and limits.                                                *)
(*                                                                         *)
(* The slices overlap by one slot and the last one may stop one short: to  *)
(* see that nobody is missed in between, the inductive invariant says how  *)
(* far the sending has come - every slot that was in use when it began and *)
(* lies before m_iStatsPlayer has been sent - and that the slots in use    *)
(* then are in use still, since an entity stays behind its client.         *)
(***************************************************************************)
EXTENDS CTFMatch, FiniteSetTheorems, WellFoundedInduction, TLAPS

CONSTANTS Length, Limits, MaxFiles
VARIABLES cycle, next_item, current, players, files, renamed

(* The server has one maxClients. *)
Cycle == INSTANCE MapCycle

StatsInv ==
  /\ TypeOK
  /\ due \subseteq used
  /\ phase \in {"SendTeam0", "SendTeam1", "SendTeam2"} => statsPlayer = 1
  /\ phase = "SendPlayers" => due \cap 1..(statsPlayer - 1) \subseteq sent
  /\ StatsReachAllButLast

-----------------------------------------------------------------------------
(* Where a slice ends. *)

LEMMA SmallestNumber ==
  ASSUME NEW T \in SUBSET Nat, T # {}
  PROVE  \E m \in T : \A n \in T : m <= n
PROOF
<1>1. PICK m \in T : \A n \in T : <<n, m>> \notin OpToRel(<, Nat)
  BY NatLessThanWellFounded, WFMin
<1>2. \A n \in T : ~(n < m)
  BY <1>1 DEF OpToRel
<1> QED
  BY <1>2

(* The slots of a full slice reach beyond its first one. *)
LEMMA FullIsLong ==
  ASSUME NEW i \in Clients, NEW e \in Clients, Full(i, e)
  PROVE  i < e
PROOF
<1>1. i \in Int /\ e \in Int /\ i <= e /\ LastStat \in Nat \ {0}
  BY MatchAssumption DEF Full, Clients
<1>2. CASE i = e
  <2>1. IsFiniteSet(i..e) /\ Cardinality(i..e) = IF i > e THEN 0 ELSE e - i + 1
    BY <1>1, FS_Interval
  <2>2. used \cap i..e \in SUBSET (i..e)
    OBVIOUS
  <2>3. Cardinality(used \cap i..e) <= 1
    BY <1>1, <1>2, <2>1, <2>2, FS_Subset
  <2> QED
    BY <1>1, <2>3 DEF Full
<1> QED
  BY <1>1, <1>2

(* When some slot fills the slice, the first one to do so is in use: it is *)
(* the one SliceEnd means.                                                 *)
LEMMA FirstFullIsUsed ==
  ASSUME NEW i \in Clients, \E e \in Clients : Full(i, e)
  PROVE  \E e \in Clients : Full(i, e) /\ e \in used
PROOF
<1> DEFINE T == {e \in Clients : Full(i, e)}
<1>1. T \in SUBSET Nat /\ T # {}
  BY DEF Clients
<1>2. PICK e \in T : \A n \in T : e <= n
  <2> HIDE DEF T
  <2> QED
    BY <1>1, SmallestNumber
<1>3. i < e
  BY FullIsLong
<1>4. CASE e \notin used
  <2>1. e - 1 \in Clients /\ e - 1 \in i..MaxClients
    BY <1>3, MatchAssumption DEF Clients
  <2>2. used \cap i..(e - 1) = used \cap i..e
    BY <1>3, <1>4 DEF Clients
  <2>3. Full(i, e - 1)
    BY <2>1, <2>2 DEF Full
  <2> QED
    BY <1>2, <2>1, <2>3 DEF Clients
<1> QED
  BY <1>4

(* A slice ends at a slot, and one that does not reach the last slot ends  *)
(* behind the one it began with: the sending always moves on.              *)
LEMMA SliceAdvances ==
  ASSUME NEW i \in Clients
  PROVE  /\ SliceEnd(i) \in Clients
         /\ SliceEnd(i) > i \/ SliceEnd(i) = MaxClients
PROOF
<1>1. CASE \E e \in Clients : Full(i, e)
  <2>1. \E e \in Clients : Full(i, e) /\ e \in used
    BY <1>1, FirstFullIsUsed
  <2>2. SliceEnd(i) \in Clients /\ Full(i, SliceEnd(i))
    BY <1>1, <2>1 DEF SliceEnd
  <2>3. i < SliceEnd(i)
    BY <2>2, FullIsLong
  <2> QED
    BY <2>2, <2>3 DEF Clients
<1>2. CASE ~\E e \in Clients : Full(i, e)
  BY <1>2, MatchAssumption DEF SliceEnd, Clients
<1> QED
  BY <1>1, <1>2

-----------------------------------------------------------------------------
(* Every step keeps StatsInv. *)

LEMMA FirstValues == 1 \in Clients /\ 0 \in 0..(MaxIntermission + 1)
PROOF
  BY MatchAssumption DEF Clients

LEMMA InitSafe == Init => StatsInv
PROOF
<1> SUFFICES ASSUME Init PROVE StatsInv
  OBVIOUS
<1>1. TypeOK
  BY FirstValues DEF Init, TypeOK, Phases
<1> QED
  BY <1>1 DEF Init, StatsInv, StatsReachAllButLast

(* The sending begins anew with the slots in use just now. *)
LEMMA RestartSafe ==
  ASSUME StatsInv, GoToIntermission, UNCHANGED <<used, changing>>
  PROVE  StatsInv'
PROOF
<1>1. TypeOK'
  BY FirstValues DEF StatsInv, TypeOK, GoToIntermission, Phases
<1> QED
  BY <1>1 DEF StatsInv, StatsReachAllButLast, GoToIntermission

(* A slice of the players: all slots before its end have now been sent.    *)
LEMMA SliceSafe ==
  ASSUME StatsInv, SendPlayers, wait' = 1,
         UNCHANGED <<due, gameOver, used, elapsed, buttonHit>>, changing' \in BOOLEAN
  PROVE  StatsInv'
PROOF
<1> DEFINE last == SliceEnd(statsPlayer)
<1>1. statsPlayer \in Clients /\ last \in Clients
  BY SliceAdvances DEF StatsInv, TypeOK
<1>2. /\ phase = "SendPlayers"
      /\ sent' = sent \cup (used \cap statsPlayer..last)
      /\ statsPlayer' = last
      /\ phase' = IF MaxClients <= last + 1 THEN "OpenMenu" ELSE phase
  BY DEF SendPlayers
<1> HIDE DEF last
<1>3. TypeOK'
  BY <1>1, <1>2 DEF StatsInv, TypeOK, Phases
<1>4. due \cap 1..last \subseteq sent'
  <2> SUFFICES ASSUME NEW p \in due, p \in 1..last PROVE p \in sent'
    OBVIOUS
  <2>1. CASE p < statsPlayer
    <3>1. p \in 1..(statsPlayer - 1)
      BY <1>1, <2>1 DEF Clients
    <3> QED
      BY <1>2, <3>1 DEF StatsInv
  <2>2. CASE p >= statsPlayer
    <3>1. p \in statsPlayer..last
      BY <1>1, <2>2 DEF Clients
    <3> QED
      BY <1>2, <3>1 DEF StatsInv
  <2> QED
    BY <1>1, <2>1, <2>2 DEF Clients
<1>5. phase' = "SendPlayers" => due' \cap 1..(statsPlayer' - 1) \subseteq sent'
  <2>1. 1..(last - 1) \subseteq 1..last
    BY <1>1 DEF Clients
  <2> QED
    BY <1>2, <1>4, <2>1
<1>6. StatsReachAllButLast'
  <2> SUFFICES ASSUME phase' = "OpenMenu", NEW p \in due, p # MaxClients PROVE p \in sent'
    BY DEF StatsReachAllButLast
  <2>1. MaxClients <= last + 1
    BY <1>2
  <2>2. p \in 1..last
    BY <1>1, <2>1, MatchAssumption DEF StatsInv, TypeOK, Clients
  <2> QED
    BY <1>4, <2>2
<1> QED
  BY <1>2, <1>3, <1>5, <1>6 DEF StatsInv

LEMMA SendSafe ==
  ASSUME StatsInv, IntermissionThink
  PROVE  StatsInv'
PROOF
<1> USE DEF IntermissionThink
<1>0. changing' \in BOOLEAN
  BY DEF StatsInv, TypeOK, MayLeave
<1>1. CASE NoStats
  BY <1>0, <1>1 DEF NoStats, statsVars, StatsInv, TypeOK, StatsReachAllButLast
<1>2. CASE SendStats
  <2>1. CASE SendPlayers
    BY <1>0, <1>2, <2>1, SliceSafe DEF SendStats
  <2>2. CASE /\ phase \in DOMAIN NextPhase
             /\ phase' = NextPhase[phase]
             /\ UNCHANGED <<statsPlayer, sent>>
    <3>1. \/ phase = "SendTeam0" /\ phase' = "SendTeam1"
          \/ phase = "SendTeam1" /\ phase' = "SendTeam2"
          \/ phase = "SendTeam2" /\ phase' = "SendPlayers"
          \/ phase = "OpenMenu" /\ phase' = "Nothing"
      BY <2>2 DEF NextPhase
    <3> QED
      BY <1>0, <1>2, <2>2, <3>1
      DEF SendStats, StatsInv, TypeOK, StatsReachAllButLast, Clients, Phases
  <2> QED
    BY <1>2, <2>1, <2>2 DEF SendStats
<1> QED
  BY <1>1, <1>2

LEMMA NextSafe == StatsInv /\ [Next]_vars => StatsInv'
PROOF
<1> SUFFICES ASSUME StatsInv, [Next]_vars PROVE StatsInv'
  OBVIOUS
<1>1. CASE IntermissionThink
  BY <1>1, SendSafe
<1>2. CASE LimitReached
  BY <1>2, RestartSafe DEF LimitReached
<1>3. CASE GameEnd
  BY <1>3, RestartSafe DEF GameEnd
<1>4. CASE PressButton
  BY <1>4 DEF PressButton, statsVars, StatsInv, TypeOK, StatsReachAllButLast
<1>5. ASSUME NEW p \in Clients, ClientPutInServer(p)
      PROVE  StatsInv'
  BY <1>5 DEF ClientPutInServer, statsVars, matchVars, StatsInv, TypeOK, StatsReachAllButLast
<1>6. CASE Tick
  BY <1>6, MatchAssumption DEF Tick, StatsInv, TypeOK, StatsReachAllButLast
<1>7. CASE NewLevel
  <2>1. TypeOK'
    BY <1>7, FirstValues DEF NewLevel, TypeOK, Phases
  <2> QED
    BY <1>7, <2>1 DEF NewLevel, StatsInv, StatsReachAllButLast
<1>8. CASE UNCHANGED vars
  BY <1>8 DEF vars, statsVars, matchVars, StatsInv, TypeOK, StatsReachAllButLast
<1> QED
  BY <1>1, <1>2, <1>3, <1>4, <1>5, <1>6, <1>7, <1>8 DEF Next

-----------------------------------------------------------------------------
(* The results. *)

LEMMA StatsInvariance == Spec => []StatsInv
PROOF
  BY InitSafe, NextSafe, PTL DEF Spec

(* Every variable keeps its type: in particular m_iStatsPlayer is always a *)
(* slot, although each slice computes it anew.                             *)
THEOREM TypeCorrect == Spec => []TypeOK
PROOF
<1>1. StatsInv => TypeOK
  BY DEF StatsInv
<1> QED
  BY <1>1, StatsInvariance, PTL

(* No slot but the last one is left out of the statistics, however many    *)
(* slots there are and however they are spread over the slices, with       *)
(* players entering and a second end of the match at any moment.           *)
THEOREM StatsReach == Spec => []StatsReachAllButLast
PROOF
<1>1. StatsInv => StatsReachAllButLast
  BY DEF StatsInv
<1> QED
  BY <1>1, StatsInvariance, PTL

(* Every slice of the statistics takes the sending on: m_iStatsPlayer      *)
(* grows or the menu opens, although a slice begins with the slot the last *)
(* one ended with.  Sending does not go round in one place.                *)
SlicesMoveOn ==
  [][IntermissionThink /\ phase = "SendPlayers" /\ wait = 0
       => statsPlayer' > statsPlayer \/ phase' = "OpenMenu"]_vars

THEOREM SlicesAdvance == Spec => SlicesMoveOn
PROOF
<1>1. StatsInv => (IntermissionThink /\ phase = "SendPlayers" /\ wait = 0
                     => statsPlayer' > statsPlayer \/ phase' = "OpenMenu")
  <2> SUFFICES ASSUME StatsInv, IntermissionThink, phase = "SendPlayers", wait = 0
               PROVE  statsPlayer' > statsPlayer \/ phase' = "OpenMenu"
    OBVIOUS
  <2>1. SendPlayers
    BY DEF IntermissionThink, SendStats, NoStats, NextPhase
  <2>2. statsPlayer' = SliceEnd(statsPlayer)
        /\ phase' = IF MaxClients <= SliceEnd(statsPlayer) + 1 THEN "OpenMenu" ELSE phase
    BY <2>1 DEF SendPlayers
  <2>3. statsPlayer \in Clients
    BY DEF StatsInv, TypeOK
  <2>4. SliceEnd(statsPlayer) > statsPlayer \/ SliceEnd(statsPlayer) = MaxClients
    BY <2>3, SliceAdvances
  <2> QED
    BY <2>2, <2>4, MatchAssumption
<1> QED
  BY <1>1, StatsInvariance, PTL DEF SlicesMoveOn

(* Until the engine is asked for the next level an intermission goes on,   *)
(* and its clock never goes back: an end of the match by game_end or a     *)
(* limit during an intermission does not begin it anew.  This is what      *)
(* IntermissionEnds adds fairness to.                                      *)
THEOREM IntermissionGoesOn ==
  Spec => [][gameOver /\ ~changing => gameOver' /\ elapsed' >= elapsed]_vars
PROOF
<1>1. StatsInv /\ [Next]_vars => [gameOver /\ ~changing => gameOver' /\ elapsed' >= elapsed]_vars
  <2> SUFFICES ASSUME StatsInv, Next, gameOver, ~changing PROVE gameOver' /\ elapsed' >= elapsed
    OBVIOUS
  <2>1. elapsed \in Nat
    BY MatchAssumption DEF StatsInv, TypeOK
  <2>2. gameOver' /\ (elapsed' = elapsed \/ elapsed' = elapsed + 1)
    BY DEF Next, IntermissionThink, LimitReached, GameEnd, GoToIntermission, PressButton,
           ClientPutInServer, matchVars, Tick, NewLevel
  <2> QED
    BY <2>1, <2>2
<1> QED
  BY <1>1, StatsInvariance, PTL DEF Spec

-----------------------------------------------------------------------------
(* The next map. *)

CycleTypes ==
  /\ cycle \in [Cycle!Items -> Limits]
  /\ next_item \in Cycle!Items
  /\ current \in Cycle!Items \cup {0}

(* Any number of steps from an item of a circle lead to an item. *)
LEMMA AfterIsItem ==
  ASSUME Length \in Nat \ {0}, NEW i \in Cycle!Items, NEW k \in Nat
  PROVE  Cycle!After(i, k) \in Cycle!Items
PROOF
<1>1. i + k - 1 \in Nat
  BY DEF Cycle!Items
<1>2. (i + k - 1) % Length \in 0..(Length - 1)
  BY <1>1
<1> QED
  BY <1>2 DEF Cycle!After, Cycle!Items

(* When some item that was looked at suits the players, the walk ends at   *)
(* the first such item.                                                    *)
LEMMA ChosenIsFirst ==
  ASSUME NEW c, NEW from, NEW k \in 0..(Length - 2),
         Cycle!Suits(c[Cycle!After(from, k)])
  PROVE  \E j \in 0..k : /\ Cycle!Chosen(c, from) = Cycle!After(from, j)
                        /\ j \in 0..(Length - 2)
                        /\ Cycle!Suits(c[Cycle!After(from, j)])
PROOF
<1> DEFINE fits == {n \in 0..(Length - 2) : Cycle!Suits(c[Cycle!After(from, n)])}
<1>1. fits \in SUBSET Nat /\ k \in fits
  OBVIOUS
<1>2. \A n \in fits : n \in 0..(Length - 2) /\ Cycle!Suits(c[Cycle!After(from, n)])
  OBVIOUS
<1>3. fits # {} => Cycle!Chosen(c, from) = Cycle!After(from, Cycle!Min(fits))
  BY DEF Cycle!Chosen
<1> HIDE DEF fits
<1>4. \E m \in fits : \A n \in fits : m <= n
  BY <1>1, SmallestNumber
<1>5. PICK j \in fits : j = Cycle!Min(fits) /\ \A n \in fits : j <= n
  BY <1>4 DEF Cycle!Min
<1>6. j \in 0..k
  BY <1>1, <1>5
<1> QED
  BY <1>1, <1>2, <1>3, <1>5, <1>6

LEMMA ChosenIsItem ==
  ASSUME Length \in Nat \ {0}, NEW c, NEW from \in Cycle!Items
  PROVE  Cycle!Chosen(c, from) \in Cycle!Items
PROOF
<1> DEFINE fits == {n \in 0..(Length - 2) : Cycle!Suits(c[Cycle!After(from, n)])}
<1>1. CASE fits # {}
  <2>1. PICK k \in 0..(Length - 2) : Cycle!Suits(c[Cycle!After(from, k)])
    BY <1>1
  <2>2. PICK j \in 0..k : Cycle!Chosen(c, from) = Cycle!After(from, j)
    BY <2>1, ChosenIsFirst
  <2> QED
    BY <2>2, AfterIsItem
<1>2. CASE fits = {}
  <2>1. Cycle!Chosen(c, from) \in {Cycle!After(from, Length - 1), from}
    BY <1>2 DEF Cycle!Chosen
  <2> QED
    BY <2>1, AfterIsItem
<1> QED
  BY <1>1, <1>2

LEMMA CycleNextSafe ==
  ASSUME Cycle!MapCycleAssumption
  PROVE  CycleTypes /\ [Cycle!Next]_(Cycle!vars) => CycleTypes'
PROOF
<1> SUFFICES ASSUME CycleTypes, [Cycle!Next]_(Cycle!vars) PROVE CycleTypes'
  OBVIOUS
<1>1. CASE Cycle!ChangeLevel
  <2>1. PICK c \in [Cycle!Items -> Limits] :
          /\ cycle' = c
          /\ current' = Cycle!Chosen(c, IF renamed THEN 1 ELSE next_item)
          /\ next_item' = Cycle!After(current', 1)
    BY <1>1 DEF Cycle!ChangeLevel
  <2>2. Length \in Nat \ {0} /\ 1 \in Cycle!Items
    BY DEF Cycle!MapCycleAssumption, Cycle!Items
  <2>3. (IF renamed THEN 1 ELSE next_item) \in Cycle!Items
    BY <2>2 DEF CycleTypes
  <2>4. current' \in Cycle!Items
    BY <2>1, <2>2, <2>3, ChosenIsItem
  <2>5. next_item' \in Cycle!Items
    BY <2>1, <2>2, <2>4, AfterIsItem
  <2> QED
    BY <2>1, <2>4, <2>5 DEF CycleTypes
<1>2. CASE UNCHANGED <<cycle, next_item, current>>
  BY <1>2 DEF CycleTypes
<1> QED
  BY <1>1, <1>2 DEF Cycle!Next, Cycle!PlayersChange, Cycle!SetFile, Cycle!vars

(* The walk over the cycle always ends at an item of the list, and so does *)
(* the pointer it leaves behind.                                           *)
THEOREM CycleTypeCorrect ==
  ASSUME Cycle!MapCycleAssumption
  PROVE  Cycle!Spec => []CycleTypes
PROOF
<1>1. Cycle!Init => CycleTypes
  BY DEF Cycle!MapCycleAssumption, Cycle!Init, Cycle!Items, CycleTypes
<1> QED
  BY <1>1, CycleNextSafe, PTL DEF Cycle!Spec

(* A change of level that stays with the same file passes over no item     *)
(* that suits the players, except possibly the last one of the circle, for *)
(* any list of maps with any limits.                                       *)
THEOREM NoMapIsPassedOver ==
  Cycle!Spec => Cycle!NoSuitableMapIsPassedOver
PROOF
<1> DEFINE NotPassed ==
      Cycle!ChangeLevel /\ ~renamed =>
        \A k \in 0..(Length - 2) :
          Cycle!Suits(cycle[Cycle!After(next_item, k)])
            => \E j \in 0..k : current' = Cycle!After(next_item, j)
<1>1. NotPassed
  <2> SUFFICES ASSUME Cycle!ChangeLevel, ~renamed, NEW k \in 0..(Length - 2),
                      Cycle!Suits(cycle[Cycle!After(next_item, k)])
               PROVE  \E j \in 0..k : current' = Cycle!After(next_item, j)
    OBVIOUS
  <2>1. current' = Cycle!Chosen(cycle, next_item)
    BY DEF Cycle!ChangeLevel
  <2> QED
    BY <2>1, ChosenIsFirst
<1> HIDE DEF NotPassed
<1>2. Cycle!Spec => [][NotPassed]_(Cycle!vars)
  BY <1>1, PTL DEF Cycle!Spec
<1> QED
  BY <1>2 DEF NotPassed, Cycle!NoSuitableMapIsPassedOver

=============================================================================
