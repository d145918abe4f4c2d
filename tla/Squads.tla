-------------------------------- MODULE Squads --------------------------------
(***************************************************************************)
(* The squads of monsters: CSquadMonster (squadmonster.cpp), and its copy  *)
(* for the allied soldiers, COFSquadTalkMonster.                           *)
(*                                                                         *)
(* A monster that starts gathers monsters of its kind and leads them.  The *)
(* leader keeps a list of its followers and a word of slots: a member that *)
(* picks a new schedule gives the slot it holds back and may take another, *)
(* so that only so many members shoot or charge at a time.  The record is  *)
(* kept on both sides: a follower knows its leader and its own slot, the   *)
(* leader its followers and the slots taken.  Members die, are removed by  *)
(* the map (killtarget) at any time, and the game is saved and restored,   *)
(* m_iMySlot with it but not m_afSquadSlots.                               *)
(*                                                                         *)
(* Where the monsters stand, what they see and which schedule they pick    *)
(* are left open.                                                          *)
(***************************************************************************)
EXTENDS Naturals, FiniteSets

CONSTANTS
  Monsters,      (* entities of one class, each spawned at most once        *)
  NoOne,         (* a null EHANDLE                                          *)
  Enemies,       (* whom the monsters may fight                             *)
  Slots,         (* the bits of m_afSquadSlots this kind of monster uses    *)
  MaxFollowers   (* MAX_SQUAD_MEMBERS - 1: 4 in the code                    *)

NoSlot == 0      \* bits_NO_SLOT
Split  == 99     \* bits_SLOT_SQUAD_SPLIT

ASSUME MonsterAssumption == IsFiniteSet(Monsters)
ASSUME NoOneAssumption  == NoOne \notin Monsters \cup Enemies
ASSUME SlotsAssumption  == Slots \subseteq Nat \ {NoSlot, Split}
ASSUME FollowAssumption == MaxFollowers \in Nat \ {0}

VARIABLES
  named,    (* the map gave the monsters a common netname                  *)
  flagged,  (* those with SF_SQUADMONSTER_LEADER, if it did                *)
  life,     (* not spawned yet, alive, a corpse, removed                   *)
  started,  (* the monsters that have executed StartMonster                *)
  leader,   (* m_hSquadLeader                                              *)
  members,  (* m_hSquadMember of each monster, a set: its order is not used *)
  taken,    (* m_afSquadSlots                                              *)
  slot,     (* m_iMySlot                                                   *)
  enemy,    (* m_hEnemy                                                    *)
  spoilt    (* history: the leaders whose slots are no longer reliable,    *)
            (* see Carries, SetSchedule and RemoveMonster                  *)

vars == <<named, flagged, life, started, leader, members, taken, slot, enemy, spoilt>>

Exists(m)      == life[m] \in {"alive", "dead"}
InSquad(m)     == leader[m] # NoOne
MySquadLeader(m) == IF InSquad(m) THEN leader[m] ELSE m

(* What the loops over MySquadMember visit: its index MAX_SQUAD_MEMBERS - 1 *)
(* is the leader itself.                                                   *)
SquadOf(l) == members[l] \cup {l}

Init ==
  /\ named   \in BOOLEAN
  /\ flagged \in IF named THEN SUBSET Monsters ELSE {{}}
  /\ life    = [m \in Monsters |-> "unborn"]
  /\ started = {}
  /\ leader  = [m \in Monsters |-> NoOne]
  /\ members = [m \in Monsters |-> {}]
  /\ taken   = [m \in Monsters |-> {}]
  /\ slot    = [m \in Monsters |-> NoSlot]
  /\ enemy   = [m \in Monsters |-> NoOne]
  /\ spoilt  = {}

-----------------------------------------------------------------------------
(* Squads form. *)

(* By the map or by a monstermaker. *)
Spawn(m) ==
  /\ life[m] = "unborn"
  /\ life' = [life EXCEPT ![m] = "alive"]
  /\ UNCHANGED <<named, flagged, started, leader, members, taken, slot, enemy, spoilt>>

(* Mutant: whoever is near, in a squad or not. *)
CandidatesAnySquad(m) ==
  {r \in Monsters \ {m} : IF named THEN Exists(r) ELSE life[r] = "alive"}

(* Whom SquadRecruit looks for: everyone with the same netname, corpses    *)
(* included, or without netnames the living.                               *)
Candidates(m) ==
  {r \in Monsters \ {m} : /\ ~InSquad(r)
                          /\ IF named THEN Exists(r) ELSE life[r] = "alive"}

(* Those that SquadAdd finds a free place for: with netnames all, or as    *)
(* many as fit, without those of them in sight.                            *)
Recruits(m, recruits) ==
  /\ recruits \subseteq Candidates(m)
  /\ Cardinality(recruits) <= MaxFollowers
  /\ named => \/ recruits = Candidates(m)
              \/ Cardinality(recruits) = MaxFollowers

(* Some of ms hold a slot from before, which was not taken in this squad. *)
Carries(ms) == \E m \in ms : slot[m] \in Slots

(* StartMonster with SquadRecruit.  It runs in the first think of a        *)
(* monster, which a corpse executes too.  Nobody found: no squad.          *)
StartMonster(m) ==
  /\ Exists(m) /\ m \notin started
  /\ started' = started \cup {m}
  /\ \/ /\ InSquad(m) \/ (named /\ m \notin flagged)
        /\ UNCHANGED <<leader, members, spoilt>>
     \/ /\ ~InSquad(m) /\ (named => m \in flagged)
        /\ \E recruits \in SUBSET Candidates(m) :
             /\ Recruits(m, recruits)
             /\ members' = [members EXCEPT ![m] = @ \cup recruits]
             /\ leader'  = [x \in Monsters |->
                              IF x \in recruits \/ (x = m /\ recruits # {}) THEN m
                              ELSE leader[x]]
             /\ spoilt'  = IF Carries(recruits) THEN spoilt \cup {m} ELSE spoilt
  /\ UNCHANGED <<named, flagged, life, taken, slot, enemy>>

-----------------------------------------------------------------------------
(* Members fight. *)

(* Look, GetEnemy, CheckEnemy: a monster finds or loses an enemy.          *)
SetEnemy(m, e) ==
  /\ life[m] = "alive" /\ m \in started /\ enemy[m] # e
  /\ enemy' = [enemy EXCEPT ![m] = e]
  /\ UNCHANGED <<named, flagged, life, started, leader, members, taken, slot, spoilt>>

(* The enemies after SquadMakeEnemy told those of the squad who see none   *)
(* of theirs about the enemy of m.                                         *)
SquadMakeEnemy(m, told) ==
  /\ told \subseteq SquadOf(MySquadLeader(m))
  /\ told # {} => InSquad(m) /\ enemy[m] # NoOne
  /\ enemy' = [x \in Monsters |-> IF x \in told THEN enemy[m] ELSE enemy[x]]

(* The members of the squad of m do not all fight the enemy of the leader, *)
(* given the enemies en.                                                   *)
SquadEnemySplit(m, en) ==
  /\ InSquad(m)
  /\ \E x \in SquadOf(leader[m]) : en[x] # NoOne /\ en[x] # en[leader[m]]

(* The slots of leader[m] after VacateSlot of m. *)
VacatedSlots(m) ==
  IF slot[m] # NoSlot /\ InSquad(m)
    THEN [taken EXCEPT ![leader[m]] = @ \ {slot[m]}]
    ELSE taken

(* m_iMySlot after VacateSlot of m: a monster without a squad keeps it. *)
VacatedSlot(m) == IF InSquad(m) THEN [slot EXCEPT ![m] = NoSlot] ELSE slot

(* Mutant: the leader counts the split as a slot that is taken. *)
OccupySlotMarksSplit(m, desired, sl, tk) ==
  /\ desired # {} /\ SquadEnemySplit(m, enemy')
  /\ slot'  = [sl EXCEPT ![m] = Split]
  /\ taken' = [tk EXCEPT ![leader[m]] = @ \cup {Split}]

(* Mutant: does not look whether the slot is taken. *)
OccupySlotBlindly(m, desired, sl, tk) ==
  \/ /\ desired = {} \/ ~InSquad(m)
     /\ slot' = sl /\ taken' = tk
  \/ /\ InSquad(m) /\ ~SquadEnemySplit(m, enemy')
     /\ \E s \in desired :
          /\ slot'  = [sl EXCEPT ![m] = s]
          /\ taken' = [tk EXCEPT ![leader[m]] = @ \cup {s}]

(* OccupySlot, given the slots sl held and tk taken so far in the step     *)
(* (and enemy', which has been told already): m takes the lowest of the    *)
(* slots it desires that is free; all stays as it is when none is.  A      *)
(* squad that is split needs no slots, a monster without a squad neither.  *)
OccupySlot(m, desired, sl, tk) ==
  \/ /\ \/ desired = {} \/ ~InSquad(m)
        \/ InSquad(m) /\ desired \subseteq tk[leader[m]] /\ ~SquadEnemySplit(m, enemy')
     /\ slot' = sl /\ taken' = tk
  \/ /\ desired # {} /\ SquadEnemySplit(m, enemy')
     /\ slot' = [sl EXCEPT ![m] = Split] /\ taken' = tk
  \/ /\ InSquad(m) /\ ~SquadEnemySplit(m, enemy')
     /\ \E s \in desired \ tk[leader[m]] :
          /\ \A t \in desired \ tk[leader[m]] : s <= t
          /\ slot'  = [sl EXCEPT ![m] = s]
          /\ taken' = [tk EXCEPT ![leader[m]] = @ \cup {s}]

(* MaintainSchedule picks a new schedule: ScheduleChange gives the slot    *)
(* back, GetIdealState may tell the squad of a new enemy, GetSchedule asks *)
(* for the slots it desires.  A corpse only gives back.                    *)
NewSchedule(m, desired, told) ==
  /\ Exists(m) /\ m \in started
  /\ life[m] = "dead" => desired = {} /\ told = {}
  /\ desired # {} => enemy[m] # NoOne
  /\ SquadMakeEnemy(m, told)
  /\ OccupySlot(m, desired, VacatedSlot(m), VacatedSlots(m))
  /\ UNCHANGED <<named, flagged, life, started, leader, members, spoilt>>

(* Having tossed a grenade, for which it holds one of the slots desired or *)
(* Split, a soldier goes on with TASK_SET_SCHEDULE.  There is no           *)
(* ScheduleChange before the new schedule, and CAN_RANGE_ATTACK2 may still *)
(* be set when the enemy has gone out of sight meanwhile: then it takes a  *)
(* second slot, forgets the first, and this one stays taken.               *)
SetSchedule(m, desired) ==
  /\ life[m] = "alive" /\ m \in started
  /\ slot[m] \in desired \cup {Split}
  /\ enemy' = enemy
  /\ OccupySlot(m, desired, slot, taken)
  /\ spoilt' = IF InSquad(m) /\ Carries({m}) /\ slot'[m] # slot[m]
                 THEN spoilt \cup {leader[m]} ELSE spoilt
  /\ UNCHANGED <<named, flagged, life, started, leader, members>>

-----------------------------------------------------------------------------
(* Members die and disappear. *)

(* TakeDamage of as much as a monster has: those of the squad who have no  *)
(* enemy may find one, also when the monster is a corpse or alone.         *)
Alarm(m, e, alarmed) ==
  /\ alarmed \subseteq {x \in SquadOf(MySquadLeader(m)) : enemy[x] = NoOne}
  /\ enemy' = [x \in Monsters |-> IF x \in alarmed THEN e ELSE enemy[x]]

(* Mutant: the followers of a leader that dies keep their m_hSquadLeader.  *)
SquadRemoveKeepsOrphans(m) ==
  /\ leader'  = [leader EXCEPT ![m] = NoOne]
  /\ members' = [members EXCEPT ![m] = {}]

(* SquadRemove of m by its leader.  A leader dissolves its squad.  For a   *)
(* follower the list is searched for the leader and not for the follower,  *)
(* and so it stays as it is.                                               *)
SquadRemove(m) ==
  /\ leader'  = [x \in Monsters |->
                   IF x = m \/ (leader[m] = m /\ x \in members[m]) THEN NoOne ELSE leader[x]]
  /\ members' = [members EXCEPT ![m] = IF leader[m] = m THEN {} ELSE @]

Killed(m, e, alarmed) ==
  /\ life[m] = "alive"
  /\ Alarm(m, e, alarmed)
  /\ life'  = [life EXCEPT ![m] = "dead"]
  /\ taken' = VacatedSlots(m)
  /\ slot'  = VacatedSlot(m)
  /\ IF InSquad(m) THEN SquadRemove(m) ELSE UNCHANGED <<leader, members>>
  /\ UNCHANGED <<named, flagged, started, spoilt>>

(* The corpse is shot. *)
ShootCorpse(m, e, alarmed) ==
  /\ life[m] = "dead" /\ alarmed # {}
  /\ Alarm(m, e, alarmed)
  /\ UNCHANGED <<named, flagged, life, started, leader, members, taken, slot, spoilt>>

(* UTIL_Remove: a corpse is gibbed or fades, or killtarget removes a       *)
(* monster whatever it is doing.  Every EHANDLE to it is null from now on; *)
(* a slot that it held stays taken.                                        *)
RemoveMonster(m) ==
  /\ Exists(m)
  /\ life'    = [life EXCEPT ![m] = "removed"]
  /\ leader'  = [x \in Monsters |-> IF x = m \/ leader[x] = m THEN NoOne ELSE leader[x]]
  /\ members' = [x \in Monsters |-> IF x = m THEN {} ELSE members[x] \ {m}]
  /\ spoilt'  = IF InSquad(m) /\ Carries({m}) THEN spoilt \cup {leader[m]} ELSE spoilt
  /\ slot'    = [slot EXCEPT ![m] = NoSlot]
  /\ enemy'   = [enemy EXCEPT ![m] = NoOne]
  /\ UNCHANGED <<named, flagged, started, taken>>

(* The game is saved and restored, or the players enter the next map with  *)
(* the squad: m_afSquadSlots is not among the fields that are saved.       *)
Restore ==
  /\ taken'  = [m \in Monsters |-> {}]
  /\ spoilt' = spoilt \cup {leader[m] : m \in {x \in Monsters : InSquad(x) /\ Carries({x})}}
  /\ UNCHANGED <<named, flagged, life, started, leader, members, slot, enemy>>

Next ==
  \/ \E m \in Monsters :
       \/ Spawn(m)
       \/ StartMonster(m)
       \/ RemoveMonster(m)
       \/ \E e \in Enemies \cup {NoOne} : SetEnemy(m, e)
       \/ \E desired \in SUBSET Slots, told \in SUBSET Monsters : NewSchedule(m, desired, told)
       \/ \E desired \in SUBSET Slots : SetSchedule(m, desired)
       \/ \E e \in Enemies, alarmed \in SUBSET Monsters :
            Killed(m, e, alarmed) \/ ShootCorpse(m, e, alarmed)
  \/ Restore

Spec == Init /\ [][Next]_vars

-----------------------------------------------------------------------------
(* Properties. *)

TypeOK ==
  /\ named \in BOOLEAN /\ flagged \in SUBSET Monsters
  /\ life    \in [Monsters -> {"unborn", "alive", "dead", "removed"}]
  /\ started \in SUBSET Monsters
  /\ leader  \in [Monsters -> Monsters \cup {NoOne}]
  /\ members \in [Monsters -> SUBSET Monsters]
  /\ taken   \in [Monsters -> SUBSET Slots]
  /\ slot    \in [Monsters -> Slots \cup {NoSlot, Split}]
  /\ enemy   \in [Monsters -> Enemies \cup {NoOne}]
  /\ spoilt  \in SUBSET Monsters
  /\ \A m \in Monsters : Cardinality(members[m]) <= MaxFollowers

(* Both sides of a squad agree: a living monster with a leader is on the   *)
(* list of this leader, and on no list of a living monster but its own     *)
(* leader's; among the living, those who lead others lead themselves.  (A  *)
(* monster killed before its first think may lead as a corpse.)            *)
SquadsAgree ==
  \A m, l \in {x \in Monsters : Exists(x)} :
    life[m] = "alive" =>
      /\ leader[m] = l => m \in SquadOf(l)
      /\ life[l] = "alive" => /\ leader[m] = l    => leader[l] = l
                              /\ m \in members[l] => leader[m] = l /\ m # l

(* A member keeps its leader until one of them dies or disappears: no one  *)
(* is recruited away from a squad, and no squad dissolves by itself.       *)
SquadsLast ==
  [][\A m \in Monsters :
       life[m] = "alive" /\ InSquad(m) /\ leader'[m] # leader[m]
         => leader'[m] = NoOne /\ \E x \in {m, leader[m]} : life'[x] # life[x]]_vars

(* The members of the squad of l that hold a slot. *)
Holders(l) == {m \in Monsters : leader[m] = l /\ slot[m] \in Slots}

(* As long as no member brought a slot along from an earlier squad or from *)
(* a saved game, none disappeared with its slot and none took a second     *)
(* one, the word of the leader says exactly which slots are held, each of  *)
(* them by one member.                                                     *)
SlotsAreBacked ==
  \A l \in Monsters \ spoilt :
    leader[l] = l => /\ taken[l] = {slot[m] : m \in Holders(l)}
                     /\ \A x, y \in Holders(l) : slot[x] = slot[y] => x = y

(* What makes the three properties above inductive: handles point to       *)
(* existing monsters, leaders have started, a monster that has not holds   *)
(* and keeps nothing yet, nor does one keep slots that leads nobody; and a *)
(* corpse in a squad that is not spoilt holds no slot.                     *)
Records ==
  /\ \A m \in Monsters :
       InSquad(m) => Exists(m) /\ Exists(leader[m]) /\ leader[m] \in started
  /\ \A l \in Monsters : \A m \in members[l] : Exists(m) /\ Exists(l) /\ m # l
  /\ \A m \in Monsters \ started :
       members[m] = {} /\ taken[m] = {} /\ slot[m] = NoSlot
  /\ \A m \in Monsters :
       life[m] = "dead" /\ InSquad(m) /\ leader[m] \notin spoilt => slot[m] \notin Slots

(* What the comment of SquadEnemySplit says: a monster that fights without *)
(* a slot, because the squad is split, has two living members of its squad *)
(* with different enemies (or with and without one).                       *)
SplitIsReal ==
  [][\A m \in Monsters :
       slot[m] # Split /\ slot'[m] = Split
         => \E x, y \in Monsters : /\ leader[x] = leader[m] /\ leader[y] = leader[m]
                                   /\ life[x] = "alive" /\ life[y] = "alive"
                                   /\ enemy'[x] # enemy'[y]]_vars

=============================================================================
