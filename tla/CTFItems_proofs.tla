---------------------------- MODULE CTFItems_proofs ----------------------------
(***************************************************************************)
(* Theorems about CTFItems, for any number of client slots and any items   *)
(* of any classes and teams: a powerup is always backed by an item that    *)
(* its player owns, and only players who fight have one, although the      *)
(* handlers that take powerups away may take the item of somebody else.    *)
(*                                                                         *)
(* Whoever touches an item robs nobody, because an item that may be        *)
(* touched has no owner (LyingUnowned); and whoever may touch one is in a  *)
(* team (Sided).  An item that is alone of its class and for everybody is  *)
(* never owned without the bit (LoneOwnerHasBit), as every handler finds   *)
(* it.  And no item is lost: it is looked after while it is owned, and can *)
(* be touched while it is not (Watched).                                   *)
(***************************************************************************)
EXTENDS CTFItems, WellFoundedInduction, TLAPS

LyingUnowned == \A i \in lying : owner[i] = NoPlayer
Sided == \A p \in Players : life[p] \in {"alive", "dead"} => team[p] # NoTeam
IInv == TypeOK /\ LyingUnowned /\ Sided /\ PowerupIsBacked /\ PowerupCarrierFights

LEMMA PlayerFacts == NoPlayer \notin Players /\ NoTeam \in Teams /\ NoPlayer = 0
BY ItemsAssumption DEF NoPlayer, Players, NoTeam, Teams

LEMMA InitialInvariant == Init => IInv
<1> SUFFICES ASSUME Init PROVE IInv
  OBVIOUS
<1>1. TypeOK
  BY PlayerFacts DEF Init, TypeOK, Lives, Thinks
<1>2. LyingUnowned /\ Sided /\ PowerupIsBacked /\ PowerupCarrierFights
  BY DEF Init, LyingUnowned, Sided, PowerupIsBacked, PowerupCarrierFights
<1> QED BY <1>1, <1>2 DEF IInv

-----------------------------------------------------------------------------
(* The items of R are let go, and nothing else happens to items.           *)
LEMMA LetGoFacts ==
  ASSUME IInv, NEW R \in SUBSET Items, LetGo(R)
  PROVE  /\ owner' \in [Items -> Players \cup {NoPlayer}]
         /\ lying' \subseteq Items /\ LyingUnowned'
         /\ \A i \in Items : i \notin R => owner'[i] = owner[i]
BY DEF IInv, TypeOK, LyingUnowned, LetGo

(* ScatterPowerups takes all powerups from p, and from the others those    *)
(* whose item it lets go.                                                  *)
LEMMA ScatterFacts ==
  ASSUME IInv, NEW p \in Players, NEW t, ScatterPowerups(p, t)
  PROVE  /\ bits' \in [Players -> SUBSET Classes]
         /\ owner' \in [Items -> Players \cup {NoPlayer}]
         /\ lying' \subseteq Items /\ LyingUnowned'
         /\ think' \in [Items -> Thinks]
         /\ barred' \in [Items -> Players \cup {NoPlayer}]
         /\ bits'[p] = {}
         /\ \A q \in Players : q # p =>
              /\ bits'[q] \subseteq bits[q]
              /\ \A i \in Items : ClassOf[i] \in bits'[q] /\ owner[i] = q => owner'[i] = q
<1> DEFINE R == Found(bits[p], t)
<1>1. R \in SUBSET Items
  BY DEF Found
<1>2. /\ LetGo(R)
      /\ bits' = [q \in Players |-> IF q = p THEN {} ELSE bits[q] \ Lost(q, R)]
      /\ think' = [i \in Items |-> IF i \in R THEN "DropPreThink" ELSE think[i]]
      /\ barred' = [i \in Items |-> IF i \in R THEN p ELSE barred[i]]
  BY DEF ScatterPowerups
<1> HIDE DEF R
<1>3. /\ owner' \in [Items -> Players \cup {NoPlayer}]
      /\ lying' \subseteq Items /\ LyingUnowned'
      /\ \A i \in Items : i \notin R => owner'[i] = owner[i]
  BY <1>1, <1>2, LetGoFacts
<1>4. bits' \in [Players -> SUBSET Classes]
  BY <1>2 DEF IInv, TypeOK
<1>5. think' \in [Items -> Thinks] /\ barred' \in [Items -> Players \cup {NoPlayer}]
  BY <1>2 DEF IInv, TypeOK, Thinks
<1>6. ASSUME NEW q \in Players, q # p
      PROVE  /\ bits'[q] \subseteq bits[q]
             /\ \A i \in Items : ClassOf[i] \in bits'[q] /\ owner[i] = q => owner'[i] = q
  <2>1. bits'[q] = bits[q] \ Lost(q, R)
    BY <1>2, <1>6
  <2>2. \A i \in Items : i \in R /\ owner[i] = q => ClassOf[i] \in Lost(q, R)
    BY DEF Lost
  <2> QED BY <1>3, <2>1, <2>2
<1> QED BY <1>2, <1>3, <1>4, <1>5, <1>6

(* A handler takes the powerups of p, unless the game is over, and gives   *)
(* its player another life and team.                                       *)
LEMMA HandlerStep ==
  ASSUME IInv, NEW p \in Players, NEW t, ScatterUnlessOver(p, t),
         NEW l \in Lives, NEW s \in Teams,
         life' = [life EXCEPT ![p] = l], team' = [team EXCEPT ![p] = s],
         l \in {"alive", "dead"} => s # NoTeam, UNCHANGED gameOver
  PROVE  IInv'
<1>1. /\ life' \in [Players -> Lives] /\ team' \in [Players -> Teams] /\ gameOver' \in BOOLEAN
      /\ \A q \in Players : q # p => life'[q] = life[q] /\ team'[q] = team[q]
      /\ life'[p] = l /\ team'[p] = s
  BY DEF IInv, TypeOK
<1>2. Sided'
  BY <1>1 DEF IInv, Sided
<1>3. CASE ~gameOver /\ ScatterPowerups(p, t)
  <2>1. /\ bits' \in [Players -> SUBSET Classes]
        /\ owner' \in [Items -> Players \cup {NoPlayer}]
        /\ lying' \subseteq Items /\ LyingUnowned'
        /\ think' \in [Items -> Thinks]
        /\ barred' \in [Items -> Players \cup {NoPlayer}]
        /\ bits'[p] = {}
        /\ \A q \in Players : q # p =>
             /\ bits'[q] \subseteq bits[q]
             /\ \A i \in Items : ClassOf[i] \in bits'[q] /\ owner[i] = q => owner'[i] = q
    BY <1>3, ScatterFacts
  <2>2. PowerupIsBacked'
    <3>1. SUFFICES ASSUME NEW q \in Players, NEW c \in bits'[q]
                   PROVE  \E i \in Items : /\ ClassOf[i] = c /\ owner'[i] = q
                                           /\ ~gameOver' => ForTeam(i, team'[q])
      BY DEF PowerupIsBacked, ForTeam
    <3>2. q # p /\ c \in bits[q]
      BY <2>1, <3>1
    <3>3. PICK i \in Items : /\ ClassOf[i] = c /\ owner[i] = q
                             /\ ~gameOver => ForTeam(i, team[q])
      BY <3>2 DEF IInv, PowerupIsBacked
    <3> QED BY <1>1, <2>1, <3>1, <3>2, <3>3
  <2>3. PowerupCarrierFights'
    BY <1>1, <2>1 DEF IInv, PowerupCarrierFights
  <2> QED BY <1>1, <1>2, <2>1, <2>2, <2>3 DEF IInv, TypeOK
<1>4. CASE gameOver /\ UNCHANGED itemVars
  <2>1. UNCHANGED <<bits, owner, lying, think, barred>> /\ gameOver'
    BY <1>4 DEF itemVars
  <2>2. TypeOK' /\ LyingUnowned'
    BY <1>1, <2>1 DEF IInv, TypeOK, LyingUnowned
  <2>3. PowerupIsBacked' /\ PowerupCarrierFights'
    BY <2>1 DEF IInv, PowerupIsBacked, PowerupCarrierFights
  <2> QED BY <1>2, <2>2, <2>3 DEF IInv
<1> QED BY <1>3, <1>4 DEF ScatterUnlessOver

(* A player without powerups lives on, and no item is touched.             *)
LEMMA IdleStep ==
  ASSUME IInv, NEW p \in Players, NEW l \in Lives, NEW s \in Teams,
         life' = [life EXCEPT ![p] = l], team' = [team EXCEPT ![p] = s],
         l \in {"alive", "dead"} => s # NoTeam,
         ~gameOver => bits[p] = {}, UNCHANGED gameOver, UNCHANGED itemVars
  PROVE  IInv'
<1>1. /\ life' \in [Players -> Lives] /\ team' \in [Players -> Teams] /\ gameOver' \in BOOLEAN
      /\ \A q \in Players : q # p => life'[q] = life[q] /\ team'[q] = team[q]
      /\ life'[p] = l /\ team'[p] = s
  BY DEF IInv, TypeOK
<1>2. UNCHANGED <<bits, owner, lying, think, barred>>
  BY DEF itemVars
<1>3. TypeOK' /\ LyingUnowned' /\ Sided'
  BY <1>1, <1>2 DEF IInv, TypeOK, LyingUnowned, Sided
<1>4. PowerupIsBacked'
  BY <1>1, <1>2 DEF IInv, PowerupIsBacked, ForTeam
<1>5. PowerupCarrierFights'
  BY <1>1, <1>2 DEF IInv, PowerupCarrierFights
<1> QED BY <1>3, <1>4, <1>5 DEF IInv

-----------------------------------------------------------------------------
LEMMA TakeStep ==
  ASSUME IInv, NEW i \in Items, NEW p \in Players, NEW multipower, TakeItem(i, p, multipower)
  PROVE  IInv'
<1>1. /\ i \in lying /\ life[p] = "alive" /\ ForTeam(i, team[p])
      /\ bits' = [bits EXCEPT ![p] = @ \cup {ClassOf[i]}]
      /\ owner' = [owner EXCEPT ![i] = p]
      /\ lying' = lying \ {i}
      /\ think' = [think EXCEPT ![i] = "CarryThink"]
      /\ barred' = [barred EXCEPT ![i] = NoPlayer]
      /\ UNCHANGED <<gameOver, life, team>>
  BY DEF TakeItem, Touches, MyTouch, playerVars
<1>2. ClassOf[i] \in Classes
  BY ItemsAssumption
<1>3. TypeOK'
  <2>1. bits' \in [Players -> SUBSET Classes]
    BY <1>1, <1>2 DEF IInv, TypeOK
  <2>2. think' \in [Items -> Thinks]
    BY <1>1 DEF IInv, TypeOK, Thinks
  <2> QED BY <1>1, <2>1, <2>2 DEF IInv, TypeOK
<1>4. LyingUnowned' /\ Sided'
  BY <1>1 DEF IInv, TypeOK, LyingUnowned, Sided
<1>5. PowerupIsBacked'
  <2>1. SUFFICES ASSUME NEW q \in Players, NEW c \in bits'[q]
                 PROVE  \E j \in Items : /\ ClassOf[j] = c /\ owner'[j] = q
                                         /\ ~gameOver' => ForTeam(j, team'[q])
    BY DEF PowerupIsBacked, ForTeam
  <2>2. CASE q = p /\ c = ClassOf[i]
    BY <1>1, <2>2 DEF IInv, TypeOK
  <2>3. CASE ~(q = p /\ c = ClassOf[i])
    <3>1. c \in bits[q]
      BY <1>1, <2>1, <2>3 DEF IInv, TypeOK
    <3>2. PICK j \in Items : /\ ClassOf[j] = c /\ owner[j] = q
                             /\ ~gameOver => ForTeam(j, team[q])
      BY <3>1 DEF IInv, PowerupIsBacked
    <3>3. j # i
      BY <1>1, <3>2, PlayerFacts DEF IInv, LyingUnowned
    <3> QED BY <1>1, <3>2, <3>3 DEF IInv, TypeOK
  <2> QED BY <2>2, <2>3
<1>6. PowerupCarrierFights'
  BY <1>1 DEF IInv, TypeOK, PowerupCarrierFights, Sided
<1> QED BY <1>3, <1>4, <1>5, <1>6 DEF IInv

(* CarryThink sends home only what its owner has no bit for.               *)
LEMMA ThinkStep ==
  ASSUME IInv, NEW i \in Items, Think(i)
  PROVE  IInv'
<1> USE DEF IInv
<1>1. CASE CarryThink(i) /\ UNCHANGED itemVars
  BY <1>1 DEF CarryThink, itemVars, playerVars, TypeOK, LyingUnowned, Sided,
              PowerupIsBacked, PowerupCarrierFights, ForTeam
<1>2. CASE CarryThink(i) /\ SendHome({i}) /\ UNCHANGED bits
           /\ (owner[i] # NoPlayer => ClassOf[i] \notin bits[owner[i]])
  <2>1. LetGo({i}) /\ UNCHANGED <<gameOver, life, team, bits, barred>>
        /\ think' = [j \in Items |-> IF j \in {i} THEN "None" ELSE think[j]]
    BY <1>2 DEF CarryThink, SendHome, playerVars
  <2>2. /\ owner' \in [Items -> Players \cup {NoPlayer}]
        /\ lying' \subseteq Items /\ LyingUnowned'
        /\ \A j \in Items : j \notin {i} => owner'[j] = owner[j]
    BY <2>1, LetGoFacts
  <2>3. think' \in [Items -> Thinks]
    BY <2>1 DEF TypeOK, Thinks
  <2>4. PowerupIsBacked'
    <3>1. SUFFICES ASSUME NEW q \in Players, NEW c \in bits[q]
                   PROVE  \E j \in Items : /\ ClassOf[j] = c /\ owner'[j] = q
                                           /\ ~gameOver => ForTeam(j, team[q])
      BY <2>1 DEF PowerupIsBacked, ForTeam
    <3>2. PICK j \in Items : /\ ClassOf[j] = c /\ owner[j] = q
                             /\ ~gameOver => ForTeam(j, team[q])
      BY <3>1 DEF PowerupIsBacked
    <3>3. j # i
      BY <1>2, <3>1, <3>2, PlayerFacts
    <3> QED BY <2>2, <3>2, <3>3
  <2> QED BY <2>1, <2>2, <2>3, <2>4 DEF TypeOK, Sided, PowerupCarrierFights
<1>3. CASE DropPreThink(i) \/ DropThink(i)
  <2>1. UNCHANGED <<gameOver, life, team, bits, owner, lying>>
    BY <1>3 DEF DropPreThink, DropThink, playerVars
  <2>2. think' \in [Items -> Thinks]
    BY <1>3 DEF DropPreThink, DropThink, TypeOK, Thinks
  <2>3. barred' \in [Items -> Players \cup {NoPlayer}]
    BY <1>3 DEF DropPreThink, DropThink, TypeOK
  <2> QED BY <2>1, <2>2, <2>3 DEF TypeOK, LyingUnowned, Sided, PowerupIsBacked,
                                  PowerupCarrierFights, ForTeam
<1> QED BY <1>1, <1>2, <1>3 DEF Think, CarryThink

(* A touch that is turned down, and a bar that ends.                       *)
LEMMA BarStep ==
  ASSUME IInv, NEW i \in Items,
         BarEnds(i) \/ \E p \in Players, multipower \in BOOLEAN : RefuseItem(i, p, multipower)
  PROVE  IInv'
<1>1. barred' = [barred EXCEPT ![i] = NoPlayer]
      /\ UNCHANGED <<gameOver, life, team, bits, owner, lying, think>>
  BY DEF BarEnds, RefuseItem, playerVars
<1> QED BY <1>1 DEF IInv, TypeOK, LyingUnowned, Sided, PowerupIsBacked,
                    PowerupCarrierFights, ForTeam

LEMMA ConnectStep ==
  ASSUME IInv, NEW p \in Players, ClientConnect(p)
  PROVE  IInv'
<1>1. life[p] \in {"empty", "left"} /\ life' = [life EXCEPT ![p] = "connecting"]
      /\ UNCHANGED <<gameOver, team>>
  BY DEF ClientConnect
<1>2. team' = [team EXCEPT ![p] = team[p]] /\ team[p] \in Teams /\ "connecting" \in Lives
  BY <1>1 DEF IInv, TypeOK, Lives
<1>3. CASE UNCHANGED itemVars
  <2>1. ~gameOver => bits[p] = {}
    BY <1>1 DEF IInv, PowerupCarrierFights
  <2> QED BY <1>1, <1>2, <1>3, <2>1, IdleStep
<1>4. CASE ~UNCHANGED itemVars
  <2> DEFINE R == UNION {Found(Reset[q], team[q]) : q \in Players}
  <2>1. SendHome(R) /\ bits' = [q \in Players |-> {}]
    BY <1>4 DEF ClientConnect
  <2>2. R \in SUBSET Items
    BY DEF Found
  <2> HIDE DEF R
  <2>3. LetGo(R) /\ think' = [i \in Items |-> IF i \in R THEN "None" ELSE think[i]]
        /\ UNCHANGED barred
    BY <2>1 DEF SendHome
  <2>4. /\ owner' \in [Items -> Players \cup {NoPlayer}]
        /\ lying' \subseteq Items /\ LyingUnowned'
    BY <2>2, <2>3, LetGoFacts
  <2>5. think' \in [Items -> Thinks]
    BY <2>3 DEF IInv, TypeOK, Thinks
  <2>6. TypeOK'
    BY <1>1, <2>1, <2>3, <2>4, <2>5 DEF IInv, TypeOK, Lives
  <2>7. Sided'
    BY <1>1 DEF IInv, TypeOK, Sided
  <2>8. PowerupIsBacked' /\ PowerupCarrierFights'
    BY <2>1 DEF PowerupIsBacked, PowerupCarrierFights
  <2> QED BY <2>4, <2>6, <2>7, <2>8 DEF IInv
<1> QED BY <1>3, <1>4

LEMMA PutInServerStep ==
  ASSUME IInv, NEW p \in Players, ClientPutInServer(p)
  PROVE  IInv'
<1>1. /\ life' = [life EXCEPT ![p] = "observer"] /\ team' = [team EXCEPT ![p] = NoTeam]
      /\ bits' = [bits EXCEPT ![p] = {}]
      /\ UNCHANGED <<gameOver, owner, lying, think, barred>>
  BY DEF ClientPutInServer
<1>2. TypeOK'
  BY <1>1, PlayerFacts DEF IInv, TypeOK, Lives
<1>3. LyingUnowned' /\ Sided'
  BY <1>1 DEF IInv, TypeOK, LyingUnowned, Sided
<1>4. PowerupIsBacked'
  <2>1. SUFFICES ASSUME NEW q \in Players, NEW c \in bits'[q]
                 PROVE  \E j \in Items : /\ ClassOf[j] = c /\ owner'[j] = q
                                         /\ ~gameOver' => ForTeam(j, team'[q])
    BY DEF PowerupIsBacked, ForTeam
  <2>2. q # p /\ c \in bits[q] /\ team'[q] = team[q]
    BY <1>1, <2>1 DEF IInv, TypeOK
  <2> QED BY <1>1, <2>2 DEF IInv, PowerupIsBacked
<1>5. PowerupCarrierFights'
  BY <1>1 DEF IInv, TypeOK, PowerupCarrierFights
<1> QED BY <1>2, <1>3, <1>4, <1>5 DEF IInv

LEMMA ClientStep ==
  ASSUME IInv, NEW p \in Players,
         \/ ThrowPowerup(p) \/ ClientDisconnect(p) \/ Spectate(p) \/ PlayerKilled(p) \/ Respawn(p)
         \/ \E t \in Teams \ {NoTeam} : JoinTeam(p, t)
  PROVE  IInv'
<1>1. /\ life = [life EXCEPT ![p] = life[p]] /\ team = [team EXCEPT ![p] = team[p]]
      /\ life[p] \in Lives /\ team[p] \in Teams /\ NoTeam \in Teams
      /\ life[p] \in {"alive", "dead"} => team[p] # NoTeam
  BY PlayerFacts DEF IInv, TypeOK, Sided
<1>2. "left" \in Lives /\ "alive" \in Lives /\ "dead" \in Lives /\ "observer" \in Lives
  BY DEF Lives
<1>3. CASE ThrowPowerup(p)
  <2>1. ScatterUnlessOver(p, team[p]) /\ UNCHANGED <<gameOver, life, team>>
    BY <1>3 DEF ThrowPowerup, ScatterUnlessOver, playerVars
  <2> QED BY <1>1, <2>1, HandlerStep
<1>4. CASE ClientDisconnect(p)
  <2> DEFINE s == IF gameOver THEN team[p] ELSE NoTeam
  <2>1. /\ ScatterUnlessOver(p, team[p]) /\ UNCHANGED gameOver
        /\ life' = [life EXCEPT ![p] = "left"] /\ team' = [team EXCEPT ![p] = s] /\ s \in Teams
    BY <1>1, <1>4 DEF ClientDisconnect
  <2> HIDE DEF s
  <2> QED BY <1>2, <2>1, HandlerStep
<1>5. CASE Spectate(p)
  <2>1. /\ ScatterUnlessOver(p, NoTeam) /\ UNCHANGED gameOver
        /\ life' = [life EXCEPT ![p] = "observer"] /\ team' = [team EXCEPT ![p] = NoTeam]
    BY <1>5 DEF Spectate
  <2> QED BY <1>1, <1>2, <2>1, HandlerStep
<1>6. CASE PlayerKilled(p)
  <2>1. /\ ScatterUnlessOver(p, team[p]) /\ UNCHANGED gameOver /\ life[p] = "alive"
        /\ life' = [life EXCEPT ![p] = "dead"] /\ UNCHANGED team
    BY <1>6 DEF PlayerKilled
  <2> QED BY <1>1, <1>2, <2>1, HandlerStep
<1>7. CASE Respawn(p)
  <2>1. /\ UNCHANGED gameOver /\ UNCHANGED itemVars /\ life[p] = "dead"
        /\ life' = [life EXCEPT ![p] = "alive"] /\ UNCHANGED team
    BY <1>7 DEF Respawn
  <2>2. ~gameOver => bits[p] = {}
    BY <2>1 DEF IInv, PowerupCarrierFights
  <2> QED BY <1>1, <1>2, <2>1, <2>2, IdleStep
<1>8. ASSUME NEW t \in Teams \ {NoTeam}, JoinTeam(p, t) PROVE IInv'
  <2>1. team' = [team EXCEPT ![p] = t] /\ UNCHANGED gameOver
    BY <1>8 DEF JoinTeam
  <2>2. CASE life[p] = "observer"
    <3>1. life' = [life EXCEPT ![p] = "alive"] /\ UNCHANGED itemVars
      BY <1>8, <2>2 DEF JoinTeam
    <3>2. ~gameOver => bits[p] = {}
      BY <2>2 DEF IInv, PowerupCarrierFights
    <3> QED BY <1>2, <2>1, <3>1, <3>2, IdleStep
  <2>3. CASE life[p] # "observer"
    <3>1. life' = [life EXCEPT ![p] = "dead"] /\ ScatterUnlessOver(p, team[p])
      BY <1>8, <2>3 DEF JoinTeam
    <3> QED BY <1>2, <2>1, <3>1, HandlerStep
  <2> QED BY <2>2, <2>3
<1> QED BY <1>3, <1>4, <1>5, <1>6, <1>7, <1>8

LEMMA Step == IInv /\ [Next]_vars => IInv'
<1> SUFFICES ASSUME IInv, [Next]_vars PROVE IInv'
  OBVIOUS
<1>1. CASE UNCHANGED vars
  BY <1>1 DEF vars, playerVars, itemVars, IInv, TypeOK, LyingUnowned, Sided, PowerupIsBacked,
              PowerupCarrierFights, ForTeam
<1>2. CASE ItemNext
  <2>1. ASSUME NEW i \in Items, NEW p \in Players, NEW multipower \in BOOLEAN,
               TakeItem(i, p, multipower)
        PROVE  IInv'
    BY <2>1, TakeStep
  <2>2. ASSUME NEW i \in Items, NEW p \in Players, NEW multipower \in BOOLEAN,
               RefuseItem(i, p, multipower)
        PROVE  IInv'
    BY <2>2, BarStep
  <2>3. ASSUME NEW i \in Items, Think(i) \/ BarEnds(i) PROVE IInv'
    BY <2>3, ThinkStep, BarStep
  <2> QED BY <1>2, <2>1, <2>2, <2>3 DEF ItemNext
<1>3. CASE ClientNext
  BY <1>3, ConnectStep, PutInServerStep, ClientStep DEF ClientNext
<1>4. CASE GoToIntermission
  BY <1>4 DEF GoToIntermission, playerVars, itemVars, IInv, TypeOK, LyingUnowned, Sided,
              PowerupIsBacked, PowerupCarrierFights, ForTeam
<1> QED BY <1>1, <1>2, <1>3, <1>4 DEF Next

-----------------------------------------------------------------------------
(* The walk of ClientConnected over the slots, Reset, is a function whose  *)
(* value for a player depends on the players before.                       *)

LEMMA SmallestNumber ==
  ASSUME NEW T \in SUBSET Nat, T # {}
  PROVE  \E m \in T : \A n \in T : m <= n
<1>1. PICK m \in T : \A n \in T : <<n, m>> \notin OpToRel(<, Nat)
  BY NatLessThanWellFounded, WFMin
<1>2. \A n \in T : ~(n < m)
  BY <1>1 DEF OpToRel
<1> QED BY <1>2

(* What Reset[q] is, when g holds Reset for the players before q.          *)
FoundWith(g, q) ==
  {c \in bits[q] : \A r \in 1..(q - 1) :
                     \A i \in Found(g[r], team[r]) :
                       ClassOf[i] = c => owner[i] # q}

LEMMA FoundWithDepends ==
  ASSUME NEW g, NEW h, NEW q \in Nat, \A r \in 1..(q - 1) : g[r] = h[r]
  PROVE  FoundWith(g, q) = FoundWith(h, q)
<1>1. \A r \in 1..(q - 1) : Found(g[r], team[r]) = Found(h[r], team[r])
  OBVIOUS
<1> QED BY <1>1 DEF FoundWith

Walked(g, n) == g = [q \in 1..n |-> FoundWith(g, q)]

(* There is such a function, or there would be a first slot which the walk *)
(* does not get past.                                                      *)
LEMMA WalkExists == \E g : Walked(g, MaxClients)
<1> DEFINE T == {n \in 0..MaxClients : ~\E g : Walked(g, n)}
<1>1. SUFFICES ASSUME T # {} PROVE FALSE
  BY ItemsAssumption
<1>2. T \in SUBSET Nat
  OBVIOUS
<1>3. PICK m \in T : \A n \in T : m <= n
  <2> HIDE DEF T
  <2> QED BY <1>1, <1>2, SmallestNumber
<1>4. m # 0
  <2> DEFINE e == [q \in 1..0 |-> {}]
  <2>1. e = [q \in 1..0 |-> FoundWith(e, q)]
    OBVIOUS
  <2>2. Walked(e, 0)
    BY <2>1 DEF Walked
  <2> QED BY <2>2
<1>5. m - 1 \in 0..MaxClients /\ m - 1 \notin T
  BY <1>3, <1>4, ItemsAssumption
<1>6. PICK g : Walked(g, m - 1)
  BY <1>5
<1> DEFINE h == [q \in 1..m |-> IF q = m THEN FoundWith(g, m) ELSE g[q]]
<1>7. \A q \in 1..(m - 1) : h[q] = g[q] /\ g[q] = FoundWith(g, q)
  BY <1>6 DEF Walked
<1>8. \A q \in 1..m : h[q] = FoundWith(h, q)
  <2> SUFFICES ASSUME NEW q \in 1..m PROVE h[q] = FoundWith(h, q)
    OBVIOUS
  <2>1. h[q] = FoundWith(g, q)
    <3>1. CASE q = m
      BY <3>1
    <3>2. CASE q # m
      <4>1. q \in 1..(m - 1)
        BY <3>2
      <4> QED BY <1>7, <4>1
    <3> QED BY <3>1, <3>2
  <2>2. \A r \in 1..(q - 1) : g[r] = h[r]
    BY <1>7
  <2> HIDE DEF h
  <2>3. FoundWith(g, q) = FoundWith(h, q)
    BY <2>2, FoundWithDepends
  <2> QED BY <2>1, <2>3
<1>9. h = [q \in 1..m |-> h[q]]
  OBVIOUS
<1> HIDE DEF h
<1>10. Walked(h, m)
  BY <1>8, <1>9 DEF Walked
<1> QED BY <1>3, <1>10

LEMMA ResetUnfolds == \A q \in Players : Reset[q] = FoundWith(Reset, q)
<1>1. \E g : g = [q \in Players |-> {c \in bits[q] : \A r \in 1..(q - 1) :
                     \A i \in Found(g[r], team[r]) :
                       ClassOf[i] = c => owner[i] # q}]
  BY WalkExists DEF Walked, FoundWith, Players
<1>2. Reset = [q \in Players |-> {c \in bits[q] : \A r \in 1..(q - 1) :
                     \A i \in Found(Reset[r], team[r]) :
                       ClassOf[i] = c => owner[i] # q}]
  BY <1>1 DEF Reset
<1> QED BY <1>2 DEF FoundWith

-----------------------------------------------------------------------------
(* An item for everybody that is alone of its class is what every handler  *)
(* finds which looks for the class; while the match runs, its owner has    *)
(* the bit.                                                                *)
Single(i) == Lone(i) /\ TeamOf[i] = NoTeam

LoneOwnerHasBit ==
  ~gameOver => \A i \in Items, p \in Players :
                 Single(i) /\ owner[i] = p => ClassOf[i] \in bits[p]

LEMMA SingleIsFound ==
  ASSUME NEW i \in Items, Single(i), NEW C, NEW t, ClassOf[i] \in C
  PROVE  i \in Found(C, t)
<1>1. OfClass(ClassOf[i], t) = {i}
  BY DEF Single, Lone, OfClass, ForTeam
<1> QED BY <1>1, ItemsAssumption DEF Found, Items

(* The handlers leave it with an owner who keeps the bit, or take both.    *)
LEMMA ScatterAgrees ==
  ASSUME IInv, LoneOwnerHasBit, ~gameOver, NEW p \in Players, NEW t, ScatterPowerups(p, t),
         NEW i \in Items, NEW q \in Players, Single(i), owner'[i] = q
  PROVE  ClassOf[i] \in bits'[q]
<1> DEFINE R == Found(bits[p], t)
<1>1. /\ LetGo(R)
      /\ bits' = [r \in Players |-> IF r = p THEN {} ELSE bits[r] \ Lost(r, R)]
  BY DEF ScatterPowerups
<1>2. ClassOf[i] \in bits[p] => i \in R
  BY SingleIsFound
<1> HIDE DEF R
<1>3. i \notin R /\ owner[i] = q
  BY <1>1, PlayerFacts DEF LetGo
<1>4. ClassOf[i] \in bits[q]
  BY <1>3 DEF LoneOwnerHasBit
<1>5. q # p
  BY <1>2, <1>3, <1>4
<1>6. R \in SUBSET Items
  BY DEF R, Found
<1>7. ClassOf[i] \notin Lost(q, R)
  BY <1>3, <1>6 DEF Lost, Single, Lone
<1> QED BY <1>1, <1>4, <1>5, <1>7

(* ClientConnected takes every bit, and finds every such item: no earlier  *)
(* slot of its walk takes the class from the owner, as only the owner has  *)
(* the bit.                                                                *)
LEMMA ConnectFindsSingles ==
  ASSUME IInv, NEW i \in Items, NEW q \in Players, Single(i), owner[i] = q,
         ClassOf[i] \in bits[q]
  PROVE  i \in Found(Reset[q], team[q])
<1>1. ClassOf[i] \in Reset[q]
  <2>1. SUFFICES ASSUME NEW r \in 1..(q - 1), NEW j \in Found(Reset[r], team[r]),
                        ClassOf[j] = ClassOf[i], owner[j] = q
                 PROVE  FALSE
    BY ResetUnfolds DEF FoundWith
  <2>2. r \in Players /\ r # q
    BY ItemsAssumption DEF Players
  <2>3. ClassOf[j] \in Reset[r]
    BY DEF Found
  <2>4. ClassOf[i] \in bits[r]
    BY <2>1, <2>2, <2>3, ResetUnfolds DEF FoundWith
  <2>5. PICK k \in Items : ClassOf[k] = ClassOf[i] /\ owner[k] = r
    BY <2>2, <2>4 DEF IInv, PowerupIsBacked
  <2>6. k = i
    BY <2>5 DEF Single, Lone
  <2> QED BY <2>2, <2>5, <2>6
<1> QED BY <1>1, SingleIsFound

LEMMA LoneStep == IInv /\ LoneOwnerHasBit /\ [Next]_vars => LoneOwnerHasBit'
<1> SUFFICES ASSUME IInv, LoneOwnerHasBit, [Next]_vars, ~gameOver',
                    NEW i \in Items, NEW q \in Players, Single(i), owner'[i] = q
             PROVE  ClassOf[i] \in bits'[q]
  BY DEF LoneOwnerHasBit, Single, Lone
<1>1. ASSUME ~gameOver, owner[i] = q PROVE ClassOf[i] \in bits[q]
  BY <1>1 DEF LoneOwnerHasBit
<1>2. CASE UNCHANGED vars
  BY <1>1, <1>2 DEF vars, itemVars
<1>3. ASSUME NEW j \in Items, NEW p \in Players, NEW multipower, TakeItem(j, p, multipower)
      PROVE  ClassOf[i] \in bits'[q]
  <2>1. /\ bits' = [bits EXCEPT ![p] = @ \cup {ClassOf[j]}]
        /\ owner' = [owner EXCEPT ![j] = p] /\ UNCHANGED gameOver
    BY <1>3 DEF TakeItem
  <2>2. CASE i = j
    BY <2>1, <2>2 DEF IInv, TypeOK
  <2>3. CASE i # j
    BY <1>1, <2>1, <2>3 DEF IInv, TypeOK
  <2> QED BY <2>2, <2>3
<1>4. ASSUME NEW j \in Items, CarryThink(j)
      PROVE  ClassOf[i] \in bits'[q]
  <2>1. UNCHANGED <<gameOver, bits>> /\ (UNCHANGED owner \/ LetGo({j}))
    BY <1>4 DEF CarryThink, itemVars, SendHome
  <2>2. owner[i] = q
    BY <2>1, PlayerFacts DEF LetGo
  <2> QED BY <1>1, <2>1, <2>2
<1>5. ASSUME NEW j \in Items,
             \/ DropPreThink(j) \/ DropThink(j) \/ BarEnds(j)
             \/ \E p \in Players, multipower \in BOOLEAN : RefuseItem(j, p, multipower)
      PROVE  ClassOf[i] \in bits'[q]
  BY <1>1, <1>5 DEF DropPreThink, DropThink, BarEnds, RefuseItem
<1>6. ASSUME NEW p \in Players, NEW t, ScatterUnlessOver(p, t), UNCHANGED gameOver
      PROVE  ClassOf[i] \in bits'[q]
  BY <1>1, <1>6, ScatterAgrees DEF ScatterUnlessOver
<1>7. ASSUME UNCHANGED <<gameOver, itemVars>>
      PROVE  ClassOf[i] \in bits'[q]
  BY <1>1, <1>7 DEF itemVars
<1>8. ASSUME NEW p \in Players, ClientConnect(p)
      PROVE  ClassOf[i] \in bits'[q]
  <2>1. UNCHANGED gameOver
    BY <1>8 DEF ClientConnect
  <2>2. CASE UNCHANGED itemVars
    BY <1>7, <2>1, <2>2
  <2>3. CASE ~UNCHANGED itemVars
    <3> DEFINE R == UNION {Found(Reset[r], team[r]) : r \in Players}
    <3>1. LetGo(R)
      BY <1>8, <2>3 DEF ClientConnect, SendHome
    <3>2. i \notin R /\ owner[i] = q
      <4> HIDE DEF R
      <4> QED BY <3>1, PlayerFacts DEF LetGo
    <3>3. ClassOf[i] \in bits[q]
      BY <1>1, <2>1, <3>2
    <3>4. i \in Found(Reset[q], team[q])
      BY <3>2, <3>3, ConnectFindsSingles
    <3> QED BY <3>2, <3>4
  <2> QED BY <2>2, <2>3
<1>9. ASSUME NEW p \in Players, ClientPutInServer(p)
      PROVE  ClassOf[i] \in bits'[q]
  <2>1. /\ UNCHANGED <<gameOver, owner>> /\ bits' = [bits EXCEPT ![p] = {}]
        /\ life[p] = "connecting"
    BY <1>9 DEF ClientPutInServer
  <2>2. bits[p] = {}
    BY <2>1 DEF IInv, PowerupCarrierFights
  <2> QED BY <1>1, <2>1, <2>2 DEF IInv, TypeOK
<1>10. ASSUME NEW p \in Players,
              \/ ThrowPowerup(p) \/ ClientDisconnect(p) \/ Spectate(p) \/ PlayerKilled(p)
              \/ Respawn(p) \/ \E t \in Teams \ {NoTeam} : JoinTeam(p, t)
       PROVE  ClassOf[i] \in bits'[q]
  <2>1. UNCHANGED gameOver
    BY <1>10 DEF ThrowPowerup, ClientDisconnect, Spectate, PlayerKilled, Respawn, JoinTeam
  <2>2. UNCHANGED itemVars \/ \E t : ScatterUnlessOver(p, t)
    BY <1>10 DEF ThrowPowerup, ClientDisconnect, Spectate, PlayerKilled, Respawn, JoinTeam,
                 ScatterUnlessOver
  <2> QED BY <1>6, <1>7, <2>1, <2>2
<1>11. CASE ItemNext
  BY <1>3, <1>4, <1>5, <1>11 DEF ItemNext, Think
<1>12. CASE ClientNext
  BY <1>8, <1>9, <1>10, <1>12 DEF ClientNext
<1>13. CASE GoToIntermission
  BY <1>13 DEF GoToIntermission
<1> QED BY <1>2, <1>11, <1>12, <1>13 DEF Next

-----------------------------------------------------------------------------
(* An item is owned while it looks after its owner, and can be touched     *)
(* while it is not owned.                                                  *)
Watched ==
  \A i \in Items : /\ owner[i] # NoPlayer <=> think[i] = "CarryThink"
                   /\ i \in lying <=> owner[i] = NoPlayer

(* Letting items go takes their owner and their CarryThink together.       *)
LEMMA LetGoWatched ==
  ASSUME IInv, Watched, NEW R \in SUBSET Items, LetGo(R), NEW th \in Thinks, th # "CarryThink",
         think' = [i \in Items |-> IF i \in R THEN th ELSE think[i]]
  PROVE  Watched'
<1> SUFFICES ASSUME NEW i \in Items
             PROVE  /\ owner'[i] # NoPlayer <=> think'[i] = "CarryThink"
                    /\ i \in lying' <=> owner'[i] = NoPlayer
  BY DEF Watched
<1>1. CASE i \in R
  BY <1>1 DEF LetGo
<1>2. CASE i \notin R
  BY <1>2 DEF LetGo, Watched
<1> QED BY <1>1, <1>2

LEMMA WatchedStep == IInv /\ Watched /\ [Next]_vars => Watched'
<1> SUFFICES ASSUME IInv, Watched, [Next]_vars PROVE Watched'
  OBVIOUS
<1>0. "None" \in Thinks /\ "DropPreThink" \in Thinks
  BY DEF Thinks
<1>1. ASSUME UNCHANGED <<owner, lying, think>> PROVE Watched'
  BY <1>1 DEF Watched
<1>2. ASSUME NEW R \in SUBSET Items, SendHome(R) PROVE Watched'
  BY <1>0, <1>2, LetGoWatched DEF SendHome
<1>3. ASSUME NEW p \in Players, NEW t, ScatterUnlessOver(p, t) PROVE Watched'
  <2>1. CASE ScatterPowerups(p, t)
    <3> DEFINE R == Found(bits[p], t)
    <3>1. /\ R \in SUBSET Items /\ LetGo(R)
          /\ think' = [i \in Items |-> IF i \in R THEN "DropPreThink" ELSE think[i]]
      BY <2>1 DEF ScatterPowerups, Found
    <3> HIDE DEF R
    <3> QED BY <1>0, <3>1, LetGoWatched
  <2> QED BY <1>1, <1>3, <2>1 DEF ScatterUnlessOver, itemVars
<1>4. ASSUME NEW i \in Items, NEW p \in Players, NEW multipower, TakeItem(i, p, multipower)
      PROVE  Watched'
  BY <1>4, PlayerFacts DEF TakeItem, Watched, IInv, TypeOK
<1>5. ASSUME NEW i \in Items, CarryThink(i) PROVE Watched'
  <2>1. CASE SendHome({i})
    BY <1>2, <2>1
  <2> QED BY <1>1, <1>5, <2>1 DEF CarryThink, itemVars
<1>6. ASSUME NEW i \in Items, DropPreThink(i) \/ DropThink(i) PROVE Watched'
  <2>1. PICK th \in {"None", "DropThink"} : think' = [think EXCEPT ![i] = th]
    BY <1>6 DEF DropPreThink, DropThink
  <2>2. think[i] # "CarryThink" /\ UNCHANGED <<owner, lying>>
    BY <1>6 DEF DropPreThink, DropThink
  <2> QED BY <2>1, <2>2 DEF Watched, IInv, TypeOK
<1>7. ASSUME NEW p \in Players, ClientConnect(p) PROVE Watched'
  <2> DEFINE R == UNION {Found(Reset[q], team[q]) : q \in Players}
  <2>1. UNCHANGED itemVars \/ SendHome(R)
    BY <1>7 DEF ClientConnect
  <2>2. R \in SUBSET Items
    BY DEF Found
  <2> HIDE DEF R
  <2> QED BY <1>1, <1>2, <2>1, <2>2 DEF itemVars
<1>8. ASSUME NEW p \in Players,
             \/ ThrowPowerup(p) \/ ClientDisconnect(p) \/ Spectate(p) \/ PlayerKilled(p)
             \/ Respawn(p) \/ \E t \in Teams \ {NoTeam} : JoinTeam(p, t)
      PROVE  Watched'
  <2>1. UNCHANGED itemVars \/ \E t : ScatterUnlessOver(p, t)
    BY <1>8 DEF ThrowPowerup, ClientDisconnect, Spectate, PlayerKilled, Respawn, JoinTeam,
                ScatterUnlessOver
  <2> QED BY <1>1, <1>3, <2>1 DEF itemVars
<1>9. CASE UNCHANGED vars
  BY <1>1, <1>9 DEF vars, itemVars
<1>10. ASSUME NEW i \in Items,
              BarEnds(i) \/ \E p \in Players, multipower \in BOOLEAN : RefuseItem(i, p, multipower)
       PROVE  Watched'
  BY <1>1, <1>10 DEF BarEnds, RefuseItem
<1>11. CASE ItemNext
  BY <1>4, <1>5, <1>6, <1>10, <1>11 DEF ItemNext, Think
<1>12. ASSUME NEW p \in Players, ClientPutInServer(p) PROVE Watched'
  BY <1>1, <1>12 DEF ClientPutInServer
<1>13. CASE ClientNext
  BY <1>7, <1>8, <1>12, <1>13 DEF ClientNext
<1>14. CASE GoToIntermission
  BY <1>1, <1>14 DEF GoToIntermission, itemVars
<1> QED BY <1>9, <1>11, <1>13, <1>14 DEF Next

-----------------------------------------------------------------------------
(* The inductive invariant holds in every reachable state.                 *)
THEOREM Invariance == Spec => []IInv
BY InitialInvariant, Step, PTL DEF Spec

(* Players and items keep their types.                                     *)
THEOREM TypeCorrect == Spec => []TypeOK
<1>1. IInv => TypeOK
  BY DEF IInv
<1> QED BY <1>1, Invariance, PTL

(* Every powerup bit of m_iItems is backed by an item of its class that    *)
(* the player owns, whatever item the handlers find.                       *)
THEOREM PowerupsAreBacked == Spec => []PowerupIsBacked
<1>1. IInv => PowerupIsBacked
  BY DEF IInv
<1> QED BY <1>1, Invariance, PTL

(* No dead body, spectator or departed client keeps a powerup while the    *)
(* match runs.                                                             *)
THEOREM CarriersFight == Spec => []PowerupCarrierFights
<1>1. IInv => PowerupCarrierFights
  BY DEF IInv
<1> QED BY <1>1, Invariance, PTL

(* While the match runs, the bit of a class with one item is with the      *)
(* owner of the item, and the item, if it is for everybody, is never owned *)
(* without the bit: the handlers that look a powerup up by its class find  *)
(* the right one.                                                          *)
THEOREM LonePowerupsAgree == Spec => []LonePowerupAgrees
<1>1. Init => LoneOwnerHasBit
  BY PlayerFacts DEF Init, LoneOwnerHasBit
<1>2. IInv /\ LoneOwnerHasBit => LonePowerupAgrees
  <2> SUFFICES ASSUME IInv, LoneOwnerHasBit, ~gameOver,
                      NEW i \in Items, NEW p \in Players, Lone(i)
               PROVE  /\ ClassOf[i] \in bits[p] => owner[i] = p
                      /\ owner[i] = p /\ TeamOf[i] = NoTeam => ClassOf[i] \in bits[p]
    BY DEF LonePowerupAgrees
  <2>1. ClassOf[i] \in bits[p] => owner[i] = p
    BY DEF IInv, PowerupIsBacked, Lone
  <2>2. owner[i] = p /\ TeamOf[i] = NoTeam => ClassOf[i] \in bits[p]
    BY DEF LoneOwnerHasBit, Single
  <2> QED BY <2>1, <2>2
<1> QED BY <1>1, <1>2, LoneStep, Invariance, PTL DEF Spec

(* A powerup that is owned has a CarryThink pending, which notices that    *)
(* its owner has lost the bit, and one that is not owned lies where it can *)
(* be taken, whichever item the handlers let go: no item is lost to both   *)
(* its callbacks.  This is what LostItemReturns adds fairness to.          *)
THEOREM ItemsAreWatched == Spec => []Watched
<1>1. Init => Watched
  BY DEF Init, Watched
<1> QED BY <1>1, WatchedStep, Invariance, PTL DEF Spec
=============================================================================
