------------------------------ MODULE CTFItems ------------------------------
(***************************************************************************)
(* The powerups of a CTF match: CItemCTF (dlls/ctf/CItemCTF.cpp) and the   *)
(* handlers that take them from a player (ForEachPlayerCTFPowerup in       *)
(* dlls/ctf/ctfplay_gamerules.cpp).                                        *)
(*                                                                         *)
(* An item knows its owner; the owner has one bit of m_iItems for each     *)
(* class of item.  The handlers that take powerups from a player know the  *)
(* player and its bits, and look for the item by its class name: they take *)
(* the first one in the map that is for the player's team, whoever owns    *)
(* it.  The two records part when the map has several items of one class,  *)
(* and CarryThink is there to bring them together again.                   *)
(*                                                                         *)
(* The info_ctfspawn_powerup points an item might return to do not exist:  *)
(* the class that should provide them is linked as info_ctfspawn_pickup    *)
(* (dlls/ctf/CItemSpawnCTF.cpp).  Left out are the effects of a powerup    *)
(* and the items that fall out of the world; alive players have the suit.  *)
(***************************************************************************)
EXTENDS Integers, FiniteSets

CONSTANTS
  MaxClients,   (* gpGlobals->maxClients                                   *)
  NumItems,     (* how many powerups the map has, in the order in which    *)
                (* UTIL_FindEntityByClassname finds them                   *)
  Classes,      (* the bits of ItemsMask that are in use                   *)
  ClassOf,      (* m_iItemFlag of each item                                *)
  TeamOf        (* team_no of each item                                    *)

Players  == 1..MaxClients
NoPlayer == 0
Items    == 1..NumItems
NoTeam   == 0
Teams    == {NoTeam, 1, 2}

ASSUME ItemsAssumption ==
  /\ MaxClients \in Nat /\ NumItems \in Nat
  /\ ClassOf \in [Items -> Classes]
  /\ TeamOf \in [Items -> Teams]

Lives  == {"empty", "connecting", "observer", "alive", "dead", "left"}
Thinks == {"None", "DropPreThink", "DropThink", "CarryThink"}

VARIABLES
  gameOver,   (* g_fGameOver                                               *)
  life,       (* what each slot holds, as in CTFFlag                       *)
  team,       (* m_iTeamNum                                                *)
  bits,       (* the powerup bits of m_iItems, as the set of their classes *)
  owner,      (* pev->owner of each item                                   *)
  lying,      (* the items whose touch function is ItemTouch and that are  *)
              (* triggers                                                  *)
  think,      (* the pending think function of each item                   *)
  barred      (* m_iLastTouched while m_flNextTouchTime is still to come   *)

playerVars == <<life, team>>
itemVars   == <<bits, owner, lying, think, barred>>
vars       == <<gameOver, playerVars, itemVars>>

Init ==
  /\ gameOver = FALSE
  /\ life   = [p \in Players |-> "empty"]
  /\ team   = [p \in Players |-> NoTeam]
  /\ bits   = [p \in Players |-> {}]
  /\ owner  = [i \in Items |-> NoPlayer]
  /\ lying  = Items
  /\ think  = [i \in Items |-> "None"]
  /\ barred = [i \in Items |-> NoPlayer]

-----------------------------------------------------------------------------
(* Which item a handler takes. *)

ForTeam(i, t) == TeamOf[i] = NoTeam \/ TeamOf[i] = t

OfClass(c, t) == {i \in Items : ClassOf[i] = c /\ ForTeam(i, t)}

(* The first item of each of the classes C that is for team t. *)
Found(C, t) ==
  {i \in Items : /\ ClassOf[i] \in C
                 /\ i \in OfClass(ClassOf[i], t)
                 /\ \A j \in OfClass(ClassOf[i], t) : i <= j}

(* The classes whose bit leaves q when the items of R are let go. *)
Lost(q, R) == {ClassOf[i] : i \in {j \in R : owner[j] = q}}

(* What DropItem, ScatterItem and ThrowItem have in common: the items of R *)
(* lie on the ground, and it is their owners who lose the bits.            *)
LetGo(R) ==
  /\ owner' = [i \in Items |-> IF i \in R THEN NoPlayer ELSE owner[i]]
  /\ lying' = lying \cup R

(* DropItem with bForceRespawn, which runs DropThink: straight home. *)
SendHome(R) ==
  /\ LetGo(R)
  /\ think' = [i \in Items |-> IF i \in R THEN "None" ELSE think[i]]
  /\ UNCHANGED barred

(* Mutant: the bits of the player are left to the items. *)
ScatterKeepsBits(p, t) ==
  LET R == Found(bits[p], t)
  IN  /\ LetGo(R)
      /\ bits'   = [q \in Players |-> bits[q] \ Lost(q, R)]
      /\ think'  = [i \in Items |-> IF i \in R THEN "DropPreThink" ELSE think[i]]
      /\ barred' = [i \in Items |-> IF i \in R THEN p ELSE barred[i]]

(* Mutant: the owner of the item is forgotten. *)
ScatterForgetsOwner(p, t) ==
  LET R == Found(bits[p], t)
  IN  /\ LetGo(R)
      /\ bits'   = [bits EXCEPT ![p] = {}]
      /\ think'  = [i \in Items |-> IF i \in R THEN "DropPreThink" ELSE think[i]]
      /\ barred' = [i \in Items |-> IF i \in R THEN p ELSE barred[i]]

(* ForEachPlayerCTFPowerup with ScatterItem or ThrowItem, for a player of  *)
(* team t.                                                                 *)
ScatterPowerups(p, t) ==
  LET R == Found(bits[p], t)
  IN  /\ LetGo(R)
      /\ bits'   = [q \in Players |-> IF q = p THEN {} ELSE bits[q] \ Lost(q, R)]
      /\ think'  = [i \in Items |-> IF i \in R THEN "DropPreThink" ELSE think[i]]
      /\ barred' = [i \in Items |-> IF i \in R THEN p ELSE barred[i]]

ScatterUnlessOver(p, t) ==
  \/ ~gameOver /\ ScatterPowerups(p, t)
  \/ gameOver /\ UNCHANGED itemVars

-----------------------------------------------------------------------------
(* The callbacks of an item. *)

(* MyTouch of the classes, mp_multipower being what it is just now. *)
MyTouch(i, p, multipower) ==
  /\ ClassOf[i] \notin bits[p]
  /\ multipower \/ bits[p] = {}
  /\ ForTeam(i, team[p])

Touches(i, p) == i \in lying /\ life[p] = "alive" /\ barred[i] # p

TakeItem(i, p, multipower) ==
  /\ Touches(i, p) /\ MyTouch(i, p, multipower)
  /\ bits'   = [bits EXCEPT ![p] = @ \cup {ClassOf[i]}]
  /\ owner'  = [owner EXCEPT ![i] = p]
  /\ lying'  = lying \ {i}
  /\ think'  = [think EXCEPT ![i] = "CarryThink"]
  /\ barred' = [barred EXCEPT ![i] = NoPlayer]
  /\ UNCHANGED <<gameOver, playerVars>>

(* A touch that MyTouch turns down still lifts the bar. *)
RefuseItem(i, p, multipower) ==
  /\ Touches(i, p) /\ ~MyTouch(i, p, multipower)
  /\ barred' = [barred EXCEPT ![i] = NoPlayer]
  /\ UNCHANGED <<gameOver, playerVars, bits, owner, lying, think>>

(* Mutant: content with any owner. *)
CarryThinkAnyOwner(i) ==
  /\ think[i] = "CarryThink" /\ owner[i] = NoPlayer
  /\ SendHome({i})
  /\ UNCHANGED <<gameOver, playerVars, bits>>

(* CarryThink, every 20 seconds: an item whose owner has lost the bit goes *)
(* home.                                                                   *)
CarryThink(i) ==
  /\ think[i] = "CarryThink"
  /\ \/ /\ owner[i] # NoPlayer /\ ClassOf[i] \in bits[owner[i]]
        /\ UNCHANGED itemVars
     \/ /\ owner[i] # NoPlayer => ClassOf[i] \notin bits[owner[i]]
        /\ SendHome({i})
        /\ UNCHANGED bits
  /\ UNCHANGED <<gameOver, playerVars>>

(* Mutant: the function sets itself again. *)
DropPreThinkAgain(i) ==
  /\ think[i] = "DropPreThink"
  /\ barred' = [barred EXCEPT ![i] = NoPlayer]
  /\ UNCHANGED <<gameOver, playerVars, bits, owner, lying, think>>

(* Five seconds after the item was let go, when the bar ends too: home at  *)
(* once out of lava, slime, the sky or a wall, else later.                 *)
DropPreThink(i) ==
  /\ think[i] = "DropPreThink"
  /\ \E next \in {"None", "DropThink"} : think' = [think EXCEPT ![i] = next]
  /\ barred' = [barred EXCEPT ![i] = NoPlayer]
  /\ UNCHANGED <<gameOver, playerVars, bits, owner, lying>>

(* The way home, where no spawn point is found. *)
DropThink(i) ==
  /\ think[i] = "DropThink"
  /\ think' = [think EXCEPT ![i] = "None"]
  /\ UNCHANGED <<gameOver, playerVars, bits, owner, lying, barred>>

(* m_flNextTouchTime passes for an item that was sent home meanwhile. *)
BarEnds(i) ==
  /\ barred[i] # NoPlayer /\ think[i] # "DropPreThink"
  /\ barred' = [barred EXCEPT ![i] = NoPlayer]
  /\ UNCHANGED <<gameOver, playerVars, bits, owner, lying, think>>

-----------------------------------------------------------------------------
(* The handlers of the players. *)

(* impulse 205: DropPlayerCTFPowerup. *)
ThrowPowerup(p) ==
  /\ life[p] = "alive" /\ ~gameOver
  /\ ScatterPowerups(p, team[p])
  /\ UNCHANGED <<gameOver, playerVars>>

(* The classes for which player q is found with a bit when ClientConnected *)
(* comes to q in its walk over the slots: an earlier player may have let   *)
(* go of the item q owns.                                                  *)
Reset[q \in Players] ==
  {c \in bits[q] : \A r \in 1..(q - 1) :
                     \A i \in Found(Reset[r], team[r]) :
                       ClassOf[i] = c => owner[i] # q}

(* ClientConnected: with at most one player in the teams the powerups of   *)
(* all players are sent home.                                              *)
ClientConnect(p) ==
  /\ life[p] \in {"empty", "left"}
  /\ life' = [life EXCEPT ![p] = "connecting"]
  /\ \/ /\ Cardinality({q \in Players : team[q] # NoTeam}) <= 1
        /\ SendHome(UNION {Found(Reset[q], team[q]) : q \in Players})
        /\ bits' = [q \in Players |-> {}]
     \/ /\ Cardinality({q \in Players : team[q] # NoTeam}) > 1
        /\ UNCHANGED itemVars
  /\ UNCHANGED <<gameOver, team>>

(* A fresh CBasePlayer, spawned as an observer. *)
ClientPutInServer(p) ==
  /\ life[p] = "connecting"
  /\ life' = [life EXCEPT ![p] = "observer"]
  /\ team' = [team EXCEPT ![p] = NoTeam]
  /\ bits' = [bits EXCEPT ![p] = {}]
  /\ UNCHANGED <<gameOver, owner, lying, think, barred>>

(* Mutant: the bits are wiped and the items forgotten. *)
ClientDisconnectWipes(p) ==
  /\ life[p] \in {"connecting", "observer", "alive", "dead"}
  /\ life' = [life EXCEPT ![p] = "left"]
  /\ team' = [team EXCEPT ![p] = NoTeam]
  /\ bits' = [bits EXCEPT ![p] = {}]
  /\ UNCHANGED <<gameOver, owner, lying, think, barred>>

(* ClientDisconnect, which does nothing once the game is over. *)
ClientDisconnect(p) ==
  /\ life[p] \in {"connecting", "observer", "alive", "dead"}
  /\ life' = [life EXCEPT ![p] = "left"]
  /\ team' = IF gameOver THEN team ELSE [team EXCEPT ![p] = NoTeam]
  /\ ScatterUnlessOver(p, team[p])
  /\ UNCHANGED gameOver

(* ChangePlayerTeam: a player who changes sides scatters, as a member of   *)
(* the old team, and dies.                                                 *)
JoinTeam(p, t) ==
  /\ life[p] \in {"observer", "alive", "dead"}
  /\ team[p] # t
  /\ team' = [team EXCEPT ![p] = t]
  /\ \/ /\ life[p] = "observer"
        /\ life' = [life EXCEPT ![p] = "alive"]
        /\ UNCHANGED itemVars
     \/ /\ life[p] # "observer"
        /\ life' = [life EXCEPT ![p] = "dead"]
        /\ ScatterUnlessOver(p, team[p])
  /\ UNCHANGED gameOver

(* ChangePlayerTeam to the spectators: here the team is gone before the    *)
(* powerups are scattered, and an item for one team is not found.          *)
Spectate(p) ==
  /\ life[p] \in {"observer", "alive", "dead"}
  /\ life' = [life EXCEPT ![p] = "observer"]
  /\ team' = [team EXCEPT ![p] = NoTeam]
  /\ ScatterUnlessOver(p, NoTeam)
  /\ UNCHANGED gameOver

PlayerKilled(p) ==
  /\ life[p] = "alive"
  /\ life' = [life EXCEPT ![p] = "dead"]
  /\ ScatterUnlessOver(p, team[p])
  /\ UNCHANGED <<gameOver, team>>

Respawn(p) ==
  /\ life[p] = "dead"
  /\ life' = [life EXCEPT ![p] = "alive"]
  /\ UNCHANGED <<gameOver, team, itemVars>>

GoToIntermission ==
  /\ ~gameOver
  /\ gameOver' = TRUE
  /\ UNCHANGED <<playerVars, itemVars>>

-----------------------------------------------------------------------------
Think(i) == CarryThink(i) \/ DropPreThink(i) \/ DropThink(i)

ItemNext ==
  \E i \in Items :
    \/ \E p \in Players, multipower \in BOOLEAN :
         TakeItem(i, p, multipower) \/ RefuseItem(i, p, multipower)
    \/ Think(i)
    \/ BarEnds(i)

ClientNext ==
  \E p \in Players :
    \/ ThrowPowerup(p)
    \/ ClientConnect(p)
    \/ ClientPutInServer(p)
    \/ ClientDisconnect(p)
    \/ \E t \in Teams \ {NoTeam} : JoinTeam(p, t)
    \/ Spectate(p)
    \/ PlayerKilled(p)
    \/ Respawn(p)

Next == ItemNext \/ ClientNext \/ GoToIntermission

(* The engine runs every pending think once its time has come. *)
Fairness == \A i \in Items : WF_vars(Think(i))

Spec == Init /\ [][Next]_vars /\ Fairness

-----------------------------------------------------------------------------
(* Properties. *)

TypeOK ==
  /\ gameOver \in BOOLEAN
  /\ life   \in [Players -> Lives]
  /\ team   \in [Players -> Teams]
  /\ bits   \in [Players -> SUBSET Classes]
  /\ owner  \in [Items -> Players \cup {NoPlayer}]
  /\ lying  \subseteq Items
  /\ think  \in [Items -> Thinks]
  /\ barred \in [Items -> Players \cup {NoPlayer}]

(* Nobody enjoys a powerup out of thin air: whoever has the bit of a class *)
(* owns an item of it, which the team may have while the match runs.  The  *)
(* handlers that take powerups away may take the item of somebody else.    *)
PowerupIsBacked ==
  \A p \in Players : \A c \in bits[p] :
    \E i \in Items : /\ ClassOf[i] = c /\ owner[i] = p
                     /\ ~gameOver => ForTeam(i, team[p])

(* While the match runs, only players who are alive and in a team have     *)
(* powerups: no dead body, spectator or departed client keeps one.         *)
PowerupCarrierFights ==
  ~gameOver => \A p \in Players : bits[p] # {} => life[p] = "alive" /\ team[p] # NoTeam

Lone(i) == \A j \in Items : ClassOf[j] = ClassOf[i] => j = i

(* While the match runs, the two records agree about an item that is the   *)
(* only one of its class: the bit is with its owner, and an item for       *)
(* everybody is never owned without the bit.                               *)
LonePowerupAgrees ==
  ~gameOver =>
    \A i \in Items, p \in Players :
      Lone(i) =>
        /\ ClassOf[i] \in bits[p] => owner[i] = p
        /\ owner[i] = p /\ TeamOf[i] = NoTeam => ClassOf[i] \in bits[p]

(* An item that is the only one of its class does not lie around for ever  *)
(* once it was let go: somebody takes it or it goes home.  (One of several *)
(* may: each time a player loses the powerup of another item of the class, *)
(* the handler may find this one instead and let it go anew.)              *)
DroppedItemMoves ==
  \A i \in Items :
    Lone(i) /\ think[i] \in {"DropPreThink", "DropThink"}
      ~> owner[i] # NoPlayer \/ think[i] = "None"

(* An item whose owner lost the bit - because a handler took another item  *)
(* of the class, or because the team was gone when it looked - comes home, *)
(* unless the owner gets the bit again.                                    *)
LostItemReturns ==
  \A i \in Items, p \in Players :
    owner[i] = p /\ ClassOf[i] \notin bits[p]
      ~> owner[i] # p \/ ClassOf[i] \in bits[p]

=============================================================================
