------------------------------ MODULE MapCycle ------------------------------
(***************************************************************************)
(* Which map comes next: CHalfLifeMultiplay::ChangeLevel                   *)
(* (dlls/multiplay_gamerules.cpp).                                         *)
(*                                                                         *)
(* The map cycle is a circular list.  Each item may ask for a least and a  *)
(* largest number of players, 0 meaning no limit.  ChangeLevel walks the   *)
(* list from next_item to the first item that suits the players on the     *)
(* server, and stops one item short of a full circle.  Positions in the    *)
(* list are numbered 1..Length; names, rules and the parsing of the file   *)
(* are left out, and every file has the same number of valid maps.         *)
(***************************************************************************)
EXTENDS Integers, FiniteSetsExt

CONSTANTS
  Length,      (* the number of valid maps in the mapcycle file            *)
  MaxClients,  (* gpGlobals->maxClients, which also caps both limits       *)
  Limits,      (* the pairs of limits a map of the file may ask for        *)
  MaxFiles     (* a bound on how often the admin names another file        *)

ASSUME MapCycleAssumption ==
  /\ Length \in Nat \ {0} /\ MaxClients \in Nat /\ MaxFiles \in Nat
  /\ Limits \subseteq [min : 0..MaxClients, max : 0..MaxClients]

VARIABLES
  cycle,       (* the limits of the items, in the order of the file        *)
  next_item,
  current,     (* the item of the map that runs, 0 before the first change *)
  players,     (* CountPlayers(), which counts the edicts of clients that  *)
               (* left as well: it may be any number when a level ends     *)
  files,       (* how many files were named so far                         *)
  renamed      (* "mapcyclefile" is not szPreviousMapCycleFile             *)

vars == <<cycle, next_item, current, players, files, renamed>>

Items     == 1..Length
Unlimited == [min |-> 0, max |-> 0]

Init ==
  /\ cycle \in [Items -> Limits]
  /\ next_item = 1 /\ current = 0
  /\ players = 0 /\ files = 0 /\ renamed = FALSE

-----------------------------------------------------------------------------
(* The item k steps after item i in a circle. *)
After(i, k) == ((i + k - 1) % Length) + 1

MinFits(l) == l.min # 0 /\ players >= l.min
MaxFits(l) == l.max # 0 /\ players <= l.max

(* keeplooking stays FALSE: neither limit objects. *)
Suits(l) == (l.min = 0 \/ MinFits(l)) /\ (l.max = 0 \/ MaxFits(l))

(* found, which a single limit that agrees sets for good.                  *)
SetsFound(l) == Suits(l) \/ MinFits(l) \/ MaxFits(l)

(* Mutant: the walk goes on after it has found an item. *)
ChosenLast(c, from) ==
  LET fits == {k \in 0..(Length - 2) : Suits(c[After(from, k)])}
  IN  IF fits # {} THEN After(from, Max(fits)) ELSE from

(* The item the walk over list c from item "from" ends at.  The last item  *)
(* of the circle is not looked at; the walk ends there anyway when some    *)
(* other item set "found" and was passed over.                             *)
Chosen(c, from) ==
  LET looked == 0..(Length - 2)
      fits   == {k \in looked : Suits(c[After(from, k)])}
  IN  IF fits # {} THEN After(from, Min(fits))
      ELSE IF \E k \in looked : SetsFound(c[After(from, k)])
           THEN After(from, Length - 1)
           ELSE from

(* Mutant: the walk starts where the last one ended. *)
ChangeLevelStays ==
  /\ \E c \in [Items -> Limits] :
       LET from == IF renamed THEN 1 ELSE next_item
       IN  /\ ~renamed => c = cycle
           /\ cycle'     = c
           /\ current'   = Chosen(c, from)
           /\ next_item' = current'
  /\ renamed' = FALSE
  /\ UNCHANGED <<players, files>>

(* A file with another name is loaded first, and starts at its first item. *)
ChangeLevel ==
  /\ \E c \in [Items -> Limits] :
       LET from == IF renamed THEN 1 ELSE next_item
       IN  /\ ~renamed => c = cycle
           /\ cycle'     = c
           /\ current'   = Chosen(c, from)
           /\ next_item' = After(current', 1)
  /\ renamed' = FALSE
  /\ UNCHANGED <<players, files>>

(* Clients come and go, and the admin sets the mapcyclefile cvar. *)
PlayersChange(n) ==
  /\ players' = n
  /\ UNCHANGED <<cycle, next_item, current, files, renamed>>

SetFile ==
  /\ files < MaxFiles
  /\ files' = files + 1 /\ renamed' = TRUE
  /\ UNCHANGED <<cycle, next_item, current, players>>

Next ==
  \/ ChangeLevel
  \/ \E n \in 0..MaxClients : PlayersChange(n)
  \/ SetFile

(* Every match ends (see CTFMatch), and with it the level. *)
Fairness == WF_vars(ChangeLevel)

Spec == Init /\ [][Next]_vars /\ Fairness

-----------------------------------------------------------------------------
(* Properties. *)

(* A map that no count of players can keep out is played again and again,  *)
(* whatever the limits of the other maps and however the players come and  *)
(* go: the walk, which skips items and may end on one it never looked at,  *)
(* does not jump over it for ever.                                         *)
UnlimitedMapsRecur ==
  \A i \in Items :
    <>[](cycle[i] = Unlimited /\ ~renamed) => []<>(current = i)

(* A change of level that stays with the same file plays the next item     *)
(* that suits the players, or, when one was left unlooked at, at worst the *)
(* one before next_item.                                                   *)
NoSuitableMapIsPassedOver ==
  [][ChangeLevel /\ ~renamed =>
       \A k \in 0..(Length - 2) :
         Suits(cycle[After(next_item, k)])
           => \E j \in 0..k : current' = After(next_item, j)]_vars

=============================================================================
