---------------------------- MODULE Squads_proofs ----------------------------
(***************************************************************************)
(* The safety of Squads for any number of monsters, slots and enemies.     *)
(*                                                                         *)
(* SquadsAgree and SlotsAreBacked lean on each other and on Records.  When *)
(* a leader dies it lets go of everybody on its list; that no slot of      *)
(* another squad is lost by this needs SquadsAgree for the living and, for *)
(* the corpses its list may still name, that a corpse holds no slot.  When *)
(* a squad forms its word of slots is all zero because its leader has just *)
(* started, and nobody led by it can hold a slot yet.                      *)
(***************************************************************************)
EXTENDS Squads, FiniteSetTheorems, TLAPS

Types ==
  /\ named \in BOOLEAN /\ flagged \in SUBSET Monsters
  /\ life    \in [Monsters -> {"unborn", "alive", "dead", "removed"}]
  /\ started \in SUBSET Monsters
  /\ leader  \in [Monsters -> Monsters \cup {NoOne}]
  /\ members \in [Monsters -> SUBSET Monsters]
  /\ taken   \in [Monsters -> SUBSET Slots]
  /\ slot    \in [Monsters -> Slots \cup {NoSlot, Split}]
  /\ enemy   \in [Monsters -> Enemies \cup {NoOne}]
  /\ spoilt  \in SUBSET Monsters

SquadSizes == \A m \in Monsters : Cardinality(members[m]) <= MaxFollowers

IInv == Types /\ SquadsAgree /\ SlotsAreBacked /\ Records

(* The slots are bits: none of them is "no slot" or "squad split". *)
LEMMA SlotsAreBits == NoSlot \notin Slots /\ Split \notin Slots
PROOF
  BY SlotsAssumption DEF NoSlot, Split

LEMMA InitSafe == Init => IInv
PROOF
<1> SUFFICES ASSUME Init PROVE IInv
  OBVIOUS
<1> USE NoOneAssumption, SlotsAreBits
<1>1. Types
  BY DEF Init, Types, NoSlot
<1>2. SquadsAgree
  BY DEF Init, SquadsAgree, Exists
<1>3. SlotsAreBacked
  BY DEF Init, SlotsAreBacked
<1>4. Records
  BY DEF Init, Records, InSquad
<1> QED
  BY <1>1, <1>2, <1>3, <1>4 DEF IInv

-----------------------------------------------------------------------------
(* The operations keep the invariant. *)

LEMMA SpawnSafe ==
  ASSUME IInv, NEW m \in Monsters, Spawn(m)
  PROVE  IInv'
PROOF
<1> USE NoOneAssumption DEF Spawn
<1>1. Types'
  BY DEF IInv, Types
<1>2. Records'
  BY DEF IInv, Types, Records, InSquad, Exists
<1>3. SquadsAgree'
  <2> SUFFICES ASSUME NEW x \in Monsters, NEW l \in Monsters,
                      Exists(x)', Exists(l)', life'[x] = "alive"
               PROVE  /\ leader[x] = l => x \in members[l] \cup {l}
                      /\ life'[l] = "alive" => /\ leader[x] = l => leader[l] = l
                                               /\ x \in members[l] => leader[x] = l /\ x # l
    BY DEF SquadsAgree, SquadOf
  <2>1. CASE x = m \/ l = m
    BY <2>1 DEF IInv, Types, Records, InSquad, Exists
  <2>2. CASE x # m /\ l # m
    BY <2>2 DEF IInv, Types, SquadsAgree, SquadOf, Exists
  <2> QED
    BY <2>1, <2>2
<1>4. SlotsAreBacked'
  BY DEF IInv, SlotsAreBacked, Holders
<1> QED
  BY <1>1, <1>2, <1>3, <1>4 DEF IInv

LEMMA StartMonsterSafe ==
  ASSUME IInv, NEW m \in Monsters, StartMonster(m)
  PROVE  IInv'
PROOF
<1> USE NoOneAssumption, SlotsAreBits
<1>0. /\ Exists(m) /\ m \notin started /\ started' = started \cup {m}
      /\ UNCHANGED <<named, flagged, life, taken, slot, enemy>>
  BY DEF StartMonster
<1>1. CASE UNCHANGED <<leader, members, spoilt>>
  <2>1. Types' /\ SquadsAgree' /\ SlotsAreBacked'
    BY <1>0, <1>1 DEF IInv, Types, SquadsAgree, SquadOf, Exists, SlotsAreBacked, Holders
  <2>2. Records'
    BY <1>0, <1>1 DEF IInv, Types, Records, InSquad, Exists
  <2> QED
    BY <2>1, <2>2 DEF IInv
<1>2. ASSUME ~InSquad(m),
             NEW recruits \in SUBSET Candidates(m),
             members' = [members EXCEPT ![m] = @ \cup recruits],
             leader'  = [x \in Monsters |->
                           IF x \in recruits \/ (x = m /\ recruits # {}) THEN m
                           ELSE leader[x]],
             spoilt'  = IF Carries(recruits) THEN spoilt \cup {m} ELSE spoilt
      PROVE  IInv'
  <2>1. /\ \A r \in recruits : r \in Monsters /\ r # m /\ ~InSquad(r) /\ Exists(r)
        /\ members[m] = {} /\ taken[m] = {} /\ slot[m] = NoSlot
    BY <1>0, <1>2 DEF IInv, Types, Records, Candidates, Exists
  <2>2. Types'
    BY <1>0, <1>2, <2>1 DEF IInv, Types
  <2>3. Records'
    BY <1>0, <1>2, <2>1 DEF IInv, Types, Records, InSquad, Exists, Carries
  <2>4. SquadsAgree'
    BY <1>0, <1>2, <2>1 DEF IInv, Types, SquadsAgree, SquadOf, InSquad, Exists
  <2>5. SlotsAreBacked'
    <3> SUFFICES ASSUME NEW l \in Monsters, l \notin spoilt', leader'[l] = l
                 PROVE  /\ taken'[l] = {slot'[x] : x \in Holders(l)'}
                        /\ \A x, y \in Holders(l)' : slot'[x] = slot'[y] => x = y
      BY DEF SlotsAreBacked
    <3>1. CASE l = m /\ recruits # {}
      <4>1. \A x \in Monsters : leader[x] # m
        BY <1>0 DEF IInv, Types, Records, InSquad
      <4>2. Holders(l)' = {}
        BY <1>0, <1>2, <2>1, <3>1, <4>1 DEF Holders, Carries
      <4> QED
        BY <1>0, <2>1, <3>1, <4>2
    <3>2. CASE l # m \/ recruits = {}
      <4>1. Holders(l)' = Holders(l)
        BY <1>0, <1>2, <2>1, <3>2 DEF Holders, InSquad
      <4>2. leader[l] = l /\ l \notin spoilt
        BY <1>2, <3>2
      <4> QED
        BY <1>0, <4>1, <4>2 DEF IInv, SlotsAreBacked
    <3> QED
      BY <3>1, <3>2
  <2> QED
    BY <2>2, <2>3, <2>4, <2>5 DEF IInv
<1> QED
  BY <1>1, <1>2 DEF StartMonster

-----------------------------------------------------------------------------
(* A member takes a slot that is free, or marks the squad split, or changes *)
(* nothing.                                                                *)
LEMMA Occupied ==
  ASSUME NEW m \in Monsters, NEW desired \in SUBSET Slots, NEW sl, NEW tk,
         sl \in [Monsters -> Slots \cup {NoSlot, Split}],
         OccupySlot(m, desired, sl, tk)
  PROVE  \E s \in Slots \cup {NoSlot, Split} :
           /\ slot' = [sl EXCEPT ![m] = s]
           /\ \/ taken' = tk /\ (s = sl[m] \/ (InSquad(m) /\ desired # {} /\ s = Split))
              \/ /\ InSquad(m) /\ s \in desired /\ s \notin tk[leader[m]]
                 /\ taken' = [tk EXCEPT ![leader[m]] = @ \cup {s}]
PROOF
<1>1. CASE slot' = sl /\ taken' = tk
  <2>1. sl = [sl EXCEPT ![m] = sl[m]] /\ sl[m] \in Slots \cup {NoSlot, Split}
    OBVIOUS
  <2> QED
    BY <1>1, <2>1
<1>2. CASE /\ desired # {} /\ SquadEnemySplit(m, enemy')
           /\ slot' = [sl EXCEPT ![m] = Split] /\ taken' = tk
  BY <1>2 DEF SquadEnemySplit
<1>3. ASSUME InSquad(m), NEW s \in desired \ tk[leader[m]],
             slot' = [sl EXCEPT ![m] = s],
             taken' = [tk EXCEPT ![leader[m]] = @ \cup {s}]
      PROVE  \E t \in Slots \cup {NoSlot, Split} :
               /\ slot' = [sl EXCEPT ![m] = t]
               /\ InSquad(m) /\ t \in desired /\ t \notin tk[leader[m]]
               /\ taken' = [tk EXCEPT ![leader[m]] = @ \cup {t}]
  BY <1>3
<1> QED
  BY <1>1, <1>2, <1>3 DEF OccupySlot

(* The word of a leader without the slot of m. *)
LEMMA Vacated ==
  ASSUME IInv, NEW m \in Monsters
  PROVE  /\ VacatedSlots(m) \in [Monsters -> SUBSET Slots]
         /\ \A l \in Monsters :
              VacatedSlots(m)[l] = IF leader[m] = l THEN taken[l] \ {slot[m]} ELSE taken[l]
         /\ \A l \in Monsters \ spoilt :
              leader[l] = l => VacatedSlots(m)[l] = {slot[y] : y \in Holders(l) \ {m}}
PROOF
<1> USE NoOneAssumption, SlotsAreBits
<1>1. /\ VacatedSlots(m) \in [Monsters -> SUBSET Slots]
      /\ \A l \in Monsters :
           VacatedSlots(m)[l] = IF leader[m] = l THEN taken[l] \ {slot[m]} ELSE taken[l]
  <2>1. CASE ~InSquad(m)
    BY <2>1 DEF IInv, Types, VacatedSlots, InSquad
  <2>2. CASE InSquad(m) /\ slot[m] = NoSlot
    <3>1. \A l \in Monsters : taken[l] \ {slot[m]} = taken[l]
      BY <2>2 DEF IInv, Types
    <3> QED
      BY <2>2, <3>1 DEF IInv, Types, VacatedSlots
  <2>3. CASE InSquad(m) /\ slot[m] # NoSlot
    BY <2>3 DEF IInv, Types, VacatedSlots, InSquad
  <2> QED
    BY <2>1, <2>2, <2>3
<1>2. ASSUME NEW l \in Monsters \ spoilt, leader[l] = l
      PROVE  VacatedSlots(m)[l] = {slot[y] : y \in Holders(l) \ {m}}
  <2>1. /\ taken[l] = {slot[y] : y \in Holders(l)}
        /\ \A x, y \in Holders(l) : slot[x] = slot[y] => x = y
    BY <1>2 DEF IInv, SlotsAreBacked
  <2>2. CASE m \in Holders(l)
    BY <1>1, <2>1, <2>2 DEF Holders
  <2>3. CASE m \notin Holders(l)
    BY <1>1, <2>1, <2>3 DEF Holders
  <2> QED
    BY <2>2, <2>3
<1> QED
  BY <1>1, <1>2

LEMMA NewScheduleSafe ==
  ASSUME IInv, NEW m \in Monsters, NEW desired \in SUBSET Slots,
         NEW told \in SUBSET Monsters, NewSchedule(m, desired, told)
  PROVE  IInv'
PROOF
<1> USE NoOneAssumption, SlotsAreBits
<1> DEFINE tk == VacatedSlots(m)
<1> DEFINE sl == VacatedSlot(m)
<1>0. /\ Exists(m) /\ m \in started
      /\ life[m] = "dead" => desired = {}
      /\ enemy' = [x \in Monsters |-> IF x \in told THEN enemy[m] ELSE enemy[x]]
      /\ OccupySlot(m, desired, sl, tk)
      /\ UNCHANGED <<named, flagged, life, started, leader, members, spoilt>>
  BY DEF NewSchedule, SquadMakeEnemy
<1>1. PICK s \in Slots \cup {NoSlot, Split} :
        /\ slot' = [slot EXCEPT ![m] = s]
        /\ s \notin Slots \/ ~InSquad(m) => taken' = tk
        /\ ~InSquad(m) => s = slot[m]
        /\ InSquad(m) /\ s \in Slots => /\ desired # {} /\ s \notin tk[leader[m]]
                                        /\ taken' = [tk EXCEPT ![leader[m]] = @ \cup {s}]
  <2>1. /\ sl \in [Monsters -> Slots \cup {NoSlot, Split}]
        /\ sl[m] = IF InSquad(m) THEN NoSlot ELSE slot[m]
        /\ \A s \in Slots \cup {NoSlot, Split} :
             [sl EXCEPT ![m] = s] = [slot EXCEPT ![m] = s]
    BY DEF IInv, Types, VacatedSlot
  <2> HIDE DEF tk, sl
  <2>2. OccupySlot(m, desired, sl, tk)
    BY <1>0
  <2>3. sl \in [Monsters -> Slots \cup {NoSlot, Split}]
    BY <2>1
  <2>4. PICK s \in Slots \cup {NoSlot, Split} :
          /\ slot' = [sl EXCEPT ![m] = s]
          /\ \/ /\ taken' = tk
                /\ s = sl[m] \/ (InSquad(m) /\ desired # {} /\ s = Split)
             \/ /\ InSquad(m) /\ s \in desired /\ s \notin tk[leader[m]]
                /\ taken' = [tk EXCEPT ![leader[m]] = @ \cup {s}]
    BY ONLY <2>2, <2>3, Occupied
  <2>5. slot' = [slot EXCEPT ![m] = s]
    BY <2>1, <2>4
  <2> QED
    BY <2>1, <2>4, <2>5
<1>2. /\ tk \in [Monsters -> SUBSET Slots]
      /\ \A l \in Monsters :
           tk[l] = IF leader[m] = l THEN taken[l] \ {slot[m]} ELSE taken[l]
      /\ \A l \in Monsters \ spoilt :
           leader[l] = l => tk[l] = {slot[y] : y \in Holders(l) \ {m}}
  BY Vacated
<1> HIDE DEF tk, sl
<1>3. InSquad(m) => leader[m] \in Monsters /\ leader[m] \in started
  BY DEF IInv, Types, Records, InSquad
<1>9. \/ taken' = tk
      \/ /\ InSquad(m) /\ s \in Slots
         /\ taken' = [tk EXCEPT ![leader[m]] = @ \cup {s}]
  BY <1>1
<1>4. Types'
  <2>1. taken' \in [Monsters -> SUBSET Slots]
    BY <1>2, <1>3, <1>9
  <2>2. slot' \in [Monsters -> Slots \cup {NoSlot, Split}]
    BY <1>1 DEF IInv, Types
  <2>3. enemy' \in [Monsters -> Enemies \cup {NoOne}]
    BY <1>0 DEF IInv, Types
  <2> QED
    BY <1>0, <2>1, <2>2, <2>3 DEF IInv, Types
<1>5. SquadsAgree'
  BY <1>0 DEF IInv, SquadsAgree, SquadOf, Exists
<1>6. Records'
  <2>1. \A x \in Monsters \ started : slot'[x] = NoSlot
    BY <1>0, <1>1 DEF IInv, Types, Records
  <2>2. \A x \in Monsters \ started : taken'[x] = {}
    <3> SUFFICES ASSUME NEW x \in Monsters \ started PROVE taken'[x] = {}
      OBVIOUS
    <3>1. taken[x] = {} /\ leader[m] # x
      BY <1>0 DEF IInv, Records, InSquad
    <3>2. tk[x] = {}
      BY <1>2, <3>1
    <3> QED
      BY <1>2, <1>9, <3>1, <3>2
  <2>3. ASSUME NEW x \in Monsters, life[x] = "dead", InSquad(x), leader[x] \notin spoilt
        PROVE  slot'[x] \notin Slots
    <3>1. CASE x = m
      BY <1>0, <1>1, <2>3, <3>1 DEF IInv, Types
    <3>2. CASE x # m
      BY <1>1, <2>3, <3>2 DEF IInv, Types, Records
    <3> QED
      BY <3>1, <3>2
  <2> QED
    BY <1>0, <2>1, <2>2, <2>3 DEF IInv, Records, InSquad, Exists
<1>7. SlotsAreBacked'
  <2> SUFFICES ASSUME NEW l \in Monsters, l \notin spoilt, leader[l] = l
               PROVE  /\ taken'[l] = {slot'[x] : x \in Holders(l)'}
                      /\ \A x, y \in Holders(l)' : slot'[x] = slot'[y] => x = y
    BY <1>0 DEF SlotsAreBacked
  <2>1. /\ tk[l] = {slot[y] : y \in Holders(l) \ {m}}
        /\ \A x, y \in Holders(l) : slot[x] = slot[y] => x = y
    BY <1>2 DEF IInv, SlotsAreBacked
  <2>2. /\ \A x \in Monsters \ {m} : slot'[x] = slot[x]
        /\ slot'[m] = s
    BY <1>1 DEF IInv, Types
  <2>3. CASE leader[m] = l /\ s \in Slots
    <3>1. Holders(l)' = (Holders(l) \ {m}) \cup {m}
      BY <1>0, <2>2, <2>3 DEF Holders
    <3>2. taken'[l] = tk[l] \cup {s} /\ s \notin tk[l]
      BY <1>1, <1>2, <2>3 DEF InSquad
    <3>3. \A x \in Holders(l) \ {m} : slot'[x] = slot[x] /\ slot[x] # s
      BY <2>1, <2>2, <3>2 DEF Holders
    <3> QED
      BY <2>1, <2>2, <3>1, <3>2, <3>3
  <2>4. CASE leader[m] = l /\ s \notin Slots
    <3>1. Holders(l)' = Holders(l) \ {m}
      BY <1>0, <2>2, <2>4 DEF Holders
    <3>2. taken'[l] = tk[l]
      BY <1>1, <2>4
    <3>3. \A x \in Holders(l) \ {m} : slot'[x] = slot[x]
      BY <2>2 DEF Holders
    <3> QED
      BY <2>1, <3>1, <3>2, <3>3
  <2>5. CASE leader[m] # l
    <3>1. Holders(l)' = Holders(l) /\ m \notin Holders(l)
      BY <1>0, <2>2, <2>5 DEF Holders
    <3>2. taken'[l] = tk[l]
      BY <1>1, <1>2, <1>3, <2>5
    <3>3. \A x \in Holders(l) : slot'[x] = slot[x]
      BY <2>2, <3>1 DEF Holders
    <3> QED
      BY <2>1, <3>1, <3>2, <3>3
  <2> QED
    BY <2>3, <2>4, <2>5
<1> QED
  BY <1>4, <1>5, <1>6, <1>7 DEF IInv

(* A member that takes a second slot spoils its squad, and changes nothing *)
(* in the others.                                                          *)
LEMMA SetScheduleSafe ==
  ASSUME IInv, NEW m \in Monsters, NEW desired \in SUBSET Slots, SetSchedule(m, desired)
  PROVE  IInv'
PROOF
<1> USE NoOneAssumption, SlotsAreBits
<1>0. /\ life[m] = "alive" /\ m \in started
      /\ OccupySlot(m, desired, slot, taken)
      /\ spoilt' = IF InSquad(m) /\ Carries({m}) /\ slot'[m] # slot[m]
                     THEN spoilt \cup {leader[m]} ELSE spoilt
      /\ UNCHANGED <<named, flagged, life, started, leader, members, enemy>>
  BY DEF SetSchedule
<1>1. PICK s \in Slots \cup {NoSlot, Split} :
        /\ slot' = [slot EXCEPT ![m] = s]
        /\ \/ taken' = taken /\ (s = slot[m] \/ (InSquad(m) /\ desired # {} /\ s = Split))
           \/ /\ InSquad(m) /\ s \in desired /\ s \notin taken[leader[m]]
              /\ taken' = [taken EXCEPT ![leader[m]] = @ \cup {s}]
  <2>1. slot \in [Monsters -> Slots \cup {NoSlot, Split}]
    BY DEF IInv, Types
  <2> QED
    BY <1>0, <2>1, Occupied
<1>2. /\ slot'[m] = s
      /\ \A x \in Monsters \ {m} : slot'[x] = slot[x]
      /\ InSquad(m) => leader[m] \in Monsters /\ leader[m] \in started
  BY <1>1 DEF IInv, Types, Records, InSquad
<1>3. /\ taken' \in [Monsters -> SUBSET Slots]
      /\ \A l \in Monsters : leader[m] # l => taken'[l] = taken[l]
      /\ taken' = taken \/ (InSquad(m) /\ s \in Slots)
  BY <1>1, <1>2 DEF IInv, Types
<1>4. Types'
  <2>1. spoilt' \in SUBSET Monsters
    BY <1>0, <1>2 DEF IInv, Types
  <2>2. slot' \in [Monsters -> Slots \cup {NoSlot, Split}]
    BY <1>1 DEF IInv, Types
  <2> QED
    BY <1>0, <1>3, <2>1, <2>2 DEF IInv, Types
<1>5. SquadsAgree'
  BY <1>0 DEF IInv, SquadsAgree, SquadOf, Exists
<1>6. Records'
  <2>1. \A x \in Monsters \ started : taken'[x] = {} /\ slot'[x] = NoSlot
    <3>1. \A x \in Monsters \ started : x # m /\ leader[m] # x
      BY <1>0 DEF IInv, Records, InSquad
    <3> QED
      BY <1>2, <1>3, <3>1 DEF IInv, Records
  <2>2. \A x \in Monsters :
          life[x] = "dead" /\ InSquad(x) /\ leader[x] \notin spoilt' => slot'[x] \notin Slots
    <3>1. spoilt \subseteq spoilt'
      BY <1>0
    <3>2. \A x \in Monsters : life[x] = "dead" => x # m
      BY <1>0
    <3> QED
      BY <1>2, <3>1, <3>2 DEF IInv, Records
  <2> QED
    BY <1>0, <2>1, <2>2 DEF IInv, Records, InSquad, Exists
<1>7. SlotsAreBacked'
  <2> SUFFICES ASSUME NEW l \in Monsters, l \notin spoilt', leader[l] = l
               PROVE  /\ taken'[l] = {slot'[x] : x \in Holders(l)'}
                      /\ \A x, y \in Holders(l)' : slot'[x] = slot'[y] => x = y
    BY <1>0 DEF SlotsAreBacked
  <2>1. /\ l \notin spoilt
        /\ taken[l] = {slot[x] : x \in Holders(l)}
        /\ \A x, y \in Holders(l) : slot[x] = slot[y] => x = y
    BY <1>0 DEF IInv, SlotsAreBacked
  <2>2. CASE leader[m] # l
    <3>1. Holders(l)' = Holders(l) /\ m \notin Holders(l)
      BY <1>0, <1>2, <2>2 DEF Holders
    <3>2. taken'[l] = taken[l]
      BY <1>3, <2>2
    <3>3. \A x \in Holders(l) : slot'[x] = slot[x]
      BY <1>2, <3>1 DEF Holders
    <3> QED
      BY <2>1, <3>1, <3>2, <3>3
  <2>3. CASE leader[m] = l /\ slot[m] = s
    <3>1. slot' = slot
      BY <1>1, <2>3 DEF IInv, Types
    <3>2. taken'[l] = taken[l]
      <4>1. CASE taken' = taken
        BY <4>1
      <4>2. CASE taken' # taken
        <5>1. m \in Holders(l)
          BY <1>3, <2>3, <4>2 DEF Holders
        <5>2. s \in taken[l]
          BY <2>1, <2>3, <5>1
        <5> QED
          BY <1>1, <2>3, <4>2, <5>2
      <4> QED
        BY <4>1, <4>2
    <3>3. Holders(l)' = Holders(l)
      BY <1>0, <3>1 DEF Holders
    <3> QED
      BY <2>1, <3>1, <3>2, <3>3
  <2>4. CASE leader[m] = l /\ slot[m] # s
    <3>1. InSquad(m) /\ slot[m] \notin Slots
      BY <1>0, <1>2, <2>4 DEF InSquad, Carries
    <3>2. m \notin Holders(l)
      BY <3>1 DEF Holders
    <3>3. \A x \in Holders(l) : slot'[x] = slot[x]
      BY <1>2, <3>2 DEF Holders
    <3>4. CASE s \in Slots
      <4>1. s \notin taken[l] /\ taken'[l] = taken[l] \cup {s}
        BY <1>1, <2>4, <3>4 DEF IInv, Types
      <4>2. Holders(l)' = Holders(l) \cup {m}
        BY <1>0, <1>2, <2>4, <3>2, <3>4 DEF Holders
      <4>3. \A x \in Holders(l) : slot[x] # s
        BY <2>1, <4>1
      <4> QED
        BY <1>2, <2>1, <3>3, <4>1, <4>2, <4>3
    <3>5. CASE s \notin Slots
      <4>1. taken'[l] = taken[l]
        BY <1>3, <3>5
      <4>2. Holders(l)' = Holders(l)
        BY <1>0, <1>2, <3>1, <3>2, <3>5 DEF Holders
      <4> QED
        BY <2>1, <3>3, <4>1, <4>2
    <3> QED
      BY <3>4, <3>5
  <2> QED
    BY <2>2, <2>3, <2>4
<1> QED
  BY <1>4, <1>5, <1>6, <1>7 DEF IInv

-----------------------------------------------------------------------------
LEMMA KilledSafe ==
  ASSUME IInv, NEW m \in Monsters, NEW e \in Enemies,
         NEW alarmed \in SUBSET Monsters, Killed(m, e, alarmed)
  PROVE  IInv'
PROOF
<1> USE NoOneAssumption, SlotsAreBits
<1>0. /\ life[m] = "alive" /\ life' = [life EXCEPT ![m] = "dead"]
      /\ taken' = VacatedSlots(m) /\ slot' = VacatedSlot(m)
      /\ enemy' = [x \in Monsters |-> IF x \in alarmed THEN e ELSE enemy[x]]
      /\ UNCHANGED <<named, flagged, started, spoilt>>
  BY DEF Killed, Alarm
<1>1. /\ leader' \in [Monsters -> Monsters \cup {NoOne}]
      /\ members' \in [Monsters -> SUBSET Monsters]
      /\ leader'[m] = NoOne
      /\ \A x \in Monsters \ {m} :
           leader'[x] = IF leader[m] = m /\ x \in members[m] THEN NoOne ELSE leader[x]
      /\ \A x \in Monsters :
           members'[x] = IF x = m /\ leader[m] = m THEN {} ELSE members[x]
  <2>1. CASE InSquad(m)
    BY <2>1 DEF Killed, SquadRemove, IInv, Types
  <2>2. CASE ~InSquad(m)
    BY <2>2 DEF Killed, IInv, Types, InSquad
  <2> QED
    BY <2>1, <2>2
<1>2. /\ taken' \in [Monsters -> SUBSET Slots]
      /\ \A x \in Monsters : taken'[x] \subseteq taken[x]
      /\ \A l \in Monsters \ spoilt :
           leader[l] = l => taken'[l] = {slot[y] : y \in Holders(l) \ {m}}
  BY <1>0, Vacated
<1>3. /\ slot' \in [Monsters -> Slots \cup {NoSlot, Split}]
      /\ slot'[m] \in {slot[m], NoSlot}
      /\ \A x \in Monsters \ {m} : slot'[x] = slot[x]
  BY <1>0 DEF IInv, Types, VacatedSlot
<1>4. \A x \in members[m] : life[x] = "alive" => leader[x] = m /\ x # m
  BY <1>0 DEF IInv, Types, SquadsAgree, Exists
<1>5. /\ \A x \in Monsters : Exists(x)' <=> Exists(x)
      /\ life'[m] = "dead"
      /\ \A x \in Monsters \ {m} : life'[x] = life[x]
  BY <1>0 DEF IInv, Types, Exists
<1>6. Types'
  BY <1>0, <1>1, <1>2, <1>3 DEF IInv, Types
<1>7. Records'
  <2>1. \A x \in Monsters : leader'[x] # NoOne => leader'[x] = leader[x]
    BY <1>1
  <2>2. \A x \in Monsters : InSquad(x)' => Exists(x)' /\ Exists(leader[x])' /\ leader'[x] \in started'
    BY <1>0, <1>1, <1>5, <2>1 DEF IInv, Types, Records, InSquad
  <2>3. \A l \in Monsters : \A x \in members'[l] : Exists(x)' /\ Exists(l)' /\ x # l
    BY <1>1, <1>5 DEF IInv, Types, Records
  <2>4. \A x \in Monsters \ started : members'[x] = {} /\ taken'[x] = {} /\ slot'[x] = NoSlot
    BY <1>1, <1>2, <1>3 DEF IInv, Records
  <2>5. \A x \in Monsters :
          life'[x] = "dead" /\ InSquad(x)' /\ leader'[x] \notin spoilt => slot'[x] \notin Slots
    BY <1>1, <1>3, <1>5, <2>1 DEF IInv, Records, InSquad
  <2> QED
    BY <1>0, <2>1, <2>2, <2>3, <2>4, <2>5 DEF Records, InSquad, Exists
<1>8. SquadsAgree'
  <2> SUFFICES ASSUME NEW x \in Monsters, NEW l \in Monsters,
                      Exists(x), Exists(l), life'[x] = "alive"
               PROVE  /\ leader'[x] = l => x \in members'[l] \cup {l}
                      /\ life'[l] = "alive" => /\ leader'[x] = l => leader'[l] = l
                                               /\ x \in members'[l] => leader'[x] = l /\ x # l
    BY <1>5 DEF SquadsAgree, SquadOf
  <2>1. x # m /\ life[x] = "alive"
    BY <1>5
  <2>2. /\ leader[x] = l => x \in members[l] \cup {l}
        /\ life[l] = "alive" => /\ leader[x] = l => leader[l] = l
                                /\ x \in members[l] => leader[x] = l /\ x # l
    BY <2>1 DEF IInv, SquadsAgree, SquadOf
  <2>3. leader'[x] = l => x \in members'[l] \cup {l}
    BY <1>1, <2>1, <2>2
  <2>4. ASSUME life'[l] = "alive"
        PROVE  /\ leader'[x] = l => leader'[l] = l
               /\ x \in members'[l] => leader'[x] = l /\ x # l
    <3>1. l # m /\ life[l] = "alive"
      BY <1>5, <2>4
    <3> QED
      BY <1>1, <1>4, <2>1, <2>2, <3>1
  <2> QED
    BY <2>3, <2>4
<1>9. SlotsAreBacked'
  <2> SUFFICES ASSUME NEW l \in Monsters, l \notin spoilt, leader'[l] = l
               PROVE  /\ taken'[l] = {slot'[x] : x \in Holders(l)'}
                      /\ \A x, y \in Holders(l)' : slot'[x] = slot'[y] => x = y
    BY <1>0 DEF SlotsAreBacked
  <2>1. l # m /\ leader[l] = l
    BY <1>1
  <2>2. \A y \in Holders(l) : life[y] = "alive"
    BY <2>1 DEF Holders, IInv, Types, Records, InSquad, Exists
  <2>3. Holders(l)' = Holders(l) \ {m}
    <3>1. \A y \in Holders(l) \ {m} : leader'[y] = l
      BY <1>1, <1>4, <2>1, <2>2 DEF Holders
    <3> QED
      BY <1>1, <1>3, <2>1, <3>1 DEF Holders
  <2>4. \A y \in Holders(l) \ {m} : slot'[y] = slot[y]
    BY <1>3 DEF Holders
  <2>5. \A x, y \in Holders(l) : slot[x] = slot[y] => x = y
    BY <2>1 DEF IInv, SlotsAreBacked
  <2> QED
    BY <1>2, <2>1, <2>3, <2>4, <2>5
<1> QED
  BY <1>6, <1>7, <1>8, <1>9 DEF IInv

LEMMA RemoveMonsterSafe ==
  ASSUME IInv, NEW m \in Monsters, RemoveMonster(m)
  PROVE  IInv'
PROOF
<1> USE NoOneAssumption, SlotsAreBits DEF RemoveMonster
<1>1. Types'
  BY DEF IInv, Types, InSquad
<1>2. SquadsAgree'
  BY DEF IInv, Types, SquadsAgree, SquadOf, Exists
<1>3. Records'
  <2>1. \A x \in Monsters \ {m} : life'[x] = life[x] /\ slot'[x] = slot[x]
    BY DEF IInv, Types
  <2>2. \A x \in Monsters : leader'[x] # NoOne => x # m /\ leader'[x] = leader[x] /\ leader[x] # m
    OBVIOUS
  <2>3. \A x \in Monsters : InSquad(x)' => Exists(x)' /\ Exists(leader[x])' /\ leader'[x] \in started'
    BY <2>1, <2>2 DEF IInv, Types, Records, InSquad, Exists
  <2>4. \A l \in Monsters : \A x \in members'[l] : Exists(x)' /\ Exists(l)' /\ x # l
    BY <2>1 DEF IInv, Types, Records, Exists
  <2>5. \A x \in Monsters \ started : members'[x] = {} /\ taken'[x] = {} /\ slot'[x] = NoSlot
    BY DEF IInv, Types, Records
  <2>6. \A x \in Monsters :
          life'[x] = "dead" /\ InSquad(x)' /\ leader'[x] \notin spoilt' => slot'[x] \notin Slots
    BY <2>1, <2>2 DEF IInv, Records, InSquad
  <2> QED
    BY <2>2, <2>3, <2>4, <2>5, <2>6 DEF Records, InSquad, Exists
<1>4. SlotsAreBacked'
  <2> SUFFICES ASSUME NEW l \in Monsters, l \notin spoilt', leader'[l] = l
               PROVE  /\ taken'[l] = {slot'[x] : x \in Holders(l)'}
                      /\ \A x, y \in Holders(l)' : slot'[x] = slot'[y] => x = y
    BY DEF SlotsAreBacked
  <2>1. l # m /\ leader[l] = l /\ l \notin spoilt
    OBVIOUS
  <2>2. m \notin Holders(l)
    BY <2>1 DEF Holders, Carries, InSquad
  <2>3. \A x \in Monsters \ {m} : slot'[x] = slot[x]
    BY DEF IInv, Types
  <2>4. Holders(l)' = Holders(l)
    BY <2>1, <2>2, <2>3 DEF Holders
  <2>5. \A x \in Holders(l) : slot'[x] = slot[x]
    BY <2>2, <2>3 DEF Holders
  <2>6. /\ taken[l] = {slot[x] : x \in Holders(l)}
        /\ \A x, y \in Holders(l) : slot[x] = slot[y] => x = y
    BY <2>1 DEF IInv, SlotsAreBacked
  <2> QED
    BY <2>4, <2>5, <2>6
<1> QED
  BY <1>1, <1>2, <1>3, <1>4 DEF IInv

LEMMA RestoreSafe ==
  ASSUME IInv, Restore
  PROVE  IInv'
PROOF
<1> USE NoOneAssumption, SlotsAreBits DEF Restore
<1>1. Types'
  <2>1. \A x \in Monsters : InSquad(x) => leader[x] \in Monsters
    BY DEF IInv, Types, InSquad
  <2>2. taken' \in [Monsters -> SUBSET Slots]
    OBVIOUS
  <2>3. spoilt' \in SUBSET Monsters
    <3>1. \A l \in spoilt' : l \in spoilt \/ \E x \in Monsters : InSquad(x) /\ l = leader[x]
      OBVIOUS
    <3>2. spoilt \subseteq Monsters
      BY DEF IInv, Types
    <3> HIDE DEF Restore
    <3> QED
      BY <2>1, <3>1, <3>2
  <2> QED
    BY <2>2, <2>3 DEF IInv, Types
<1>2. SquadsAgree'
  BY DEF IInv, SquadsAgree, SquadOf, Exists
<1>3. Records'
  BY DEF IInv, Records, InSquad, Exists
<1>4. SlotsAreBacked'
  <2> SUFFICES ASSUME NEW l \in Monsters, l \notin spoilt', leader[l] = l
               PROVE  Holders(l) = {} /\ taken'[l] = {}
    BY DEF SlotsAreBacked, Holders
  <2>1. \A x \in Holders(l) : l \in spoilt'
    BY DEF Holders, Carries, InSquad
  <2> QED
    BY <2>1
<1> QED
  BY <1>1, <1>2, <1>3, <1>4 DEF IInv

-----------------------------------------------------------------------------
(* What neither touches squads nor slots. *)
LEMMA OnlyEnemiesSafe ==
  ASSUME IInv, enemy' \in [Monsters -> Enemies \cup {NoOne}],
         UNCHANGED <<named, flagged, life, started, leader, members, taken, slot, spoilt>>
  PROVE  IInv'
PROOF
  BY DEF IInv, Types, SquadsAgree, SquadOf, SlotsAreBacked, Holders, Records, InSquad, Exists

LEMMA NextSafe == IInv /\ [Next]_vars => IInv'
PROOF
<1> SUFFICES ASSUME IInv, [Next]_vars PROVE IInv'
  OBVIOUS
<1>1. ASSUME NEW m \in Monsters, Spawn(m) PROVE IInv'
  BY <1>1, SpawnSafe
<1>2. ASSUME NEW m \in Monsters, StartMonster(m) PROVE IInv'
  BY <1>2, StartMonsterSafe
<1>3. ASSUME NEW m \in Monsters, RemoveMonster(m) PROVE IInv'
  BY <1>3, RemoveMonsterSafe
<1>4. ASSUME NEW m \in Monsters, NEW e \in Enemies \cup {NoOne}, SetEnemy(m, e) PROVE IInv'
  <2>1. enemy' \in [Monsters -> Enemies \cup {NoOne}]
    BY <1>4 DEF SetEnemy, IInv, Types
  <2> QED
    BY <1>4, <2>1, OnlyEnemiesSafe DEF SetEnemy
<1>5. ASSUME NEW m \in Monsters, NEW desired \in SUBSET Slots, NEW told \in SUBSET Monsters,
             NewSchedule(m, desired, told)
      PROVE  IInv'
  BY <1>5, NewScheduleSafe
<1>10. ASSUME NEW m \in Monsters, NEW desired \in SUBSET Slots, SetSchedule(m, desired)
       PROVE  IInv'
  BY <1>10, SetScheduleSafe
<1>6. ASSUME NEW m \in Monsters, NEW e \in Enemies, NEW alarmed \in SUBSET Monsters,
             Killed(m, e, alarmed)
      PROVE  IInv'
  BY <1>6, KilledSafe
<1>7. ASSUME NEW m \in Monsters, NEW e \in Enemies, NEW alarmed \in SUBSET Monsters,
             ShootCorpse(m, e, alarmed)
      PROVE  IInv'
  <2>1. enemy' \in [Monsters -> Enemies \cup {NoOne}]
    BY <1>7 DEF ShootCorpse, Alarm, IInv, Types
  <2> QED
    BY <1>7, <2>1, OnlyEnemiesSafe DEF ShootCorpse
<1>8. CASE Restore
  BY <1>8, RestoreSafe
<1>9. CASE UNCHANGED vars
  <2>1. enemy' \in [Monsters -> Enemies \cup {NoOne}]
    BY <1>9 DEF vars, IInv, Types
  <2> QED
    BY <1>9, <2>1, OnlyEnemiesSafe DEF vars
<1> QED
  BY <1>1, <1>2, <1>3, <1>4, <1>5, <1>6, <1>7, <1>8, <1>9, <1>10 DEF Next

(* The records of leaders and followers, their slots and what these rest   *)
(* on hold in every reachable state, however many monsters there are.      *)
THEOREM SquadInvariance == Spec => []IInv
PROOF
<1>1. Init => IInv
  BY InitSafe
<1>2. IInv /\ [Next]_vars => IInv'
  BY NextSafe
<1> QED
  BY <1>1, <1>2, PTL DEF Spec

-----------------------------------------------------------------------------
(* A list never outgrows MAX_SQUAD_MEMBERS - 1: SquadAdd fills the list of *)
(* a leader once, when it starts, and later it only shrinks.               *)
LEMMA SizesKept == IInv /\ SquadSizes /\ [Next]_vars => SquadSizes'
PROOF
<1> SUFFICES ASSUME IInv, SquadSizes, [Next]_vars, NEW l \in Monsters
             PROVE  Cardinality(members'[l]) <= MaxFollowers
  BY DEF SquadSizes
<1>0. IsFiniteSet(members[l]) /\ Cardinality(members[l]) <= MaxFollowers /\ MaxFollowers \in Nat
  BY MonsterAssumption, FollowAssumption, FS_Subset DEF IInv, Types, SquadSizes
<1>1. CASE members'[l] \subseteq members[l]
  <2>1. Cardinality(members'[l]) <= Cardinality(members[l]) /\ Cardinality(members'[l]) \in Nat
    BY <1>0, <1>1, FS_Subset, FS_CardinalityType
  <2>2. Cardinality(members[l]) \in Nat
    BY <1>0, FS_CardinalityType
  <2> QED
    BY <1>0, <2>1, <2>2
<1>2. ASSUME NEW m \in Monsters, StartMonster(m)
      PROVE  members'[l] \subseteq members[l] \/ Cardinality(members'[l]) <= MaxFollowers
  <2>1. CASE UNCHANGED members
    BY <2>1
  <2>2. ASSUME NEW recruits \in SUBSET Candidates(m), Recruits(m, recruits),
               members' = [members EXCEPT ![m] = @ \cup recruits]
        PROVE  members'[l] \subseteq members[l] \/ Cardinality(members'[l]) <= MaxFollowers
    <3>1. members[m] = {}
      BY <1>2 DEF StartMonster, IInv, Records
    <3>2. l = m => members'[l] = recruits
      BY <2>2, <3>1 DEF IInv, Types
    <3>3. l # m => members'[l] = members[l]
      BY <2>2 DEF IInv, Types
    <3> QED
      BY <2>2, <3>2, <3>3 DEF Recruits
  <2> QED
    BY <1>2, <2>1, <2>2 DEF StartMonster
<1>3. ASSUME NEW m \in Monsters, RemoveMonster(m) PROVE members'[l] \subseteq members[l]
  BY <1>3 DEF RemoveMonster
<1>4. ASSUME NEW m \in Monsters, NEW e \in Enemies, NEW alarmed \in SUBSET Monsters,
             Killed(m, e, alarmed)
      PROVE  members'[l] \subseteq members[l]
  BY <1>4 DEF Killed, SquadRemove, IInv, Types
<1>5. CASE UNCHANGED members
  BY <1>1, <1>5
<1> QED
  BY <1>1, <1>2, <1>3, <1>4, <1>5
  DEF Next, Spawn, SetEnemy, NewSchedule, SetSchedule, ShootCorpse, Restore, vars

(* Type correctness, the size of the squads included. *)
THEOREM TypeCorrect == Spec => []TypeOK
PROOF
<1>1. Init => SquadSizes
  BY FollowAssumption, FS_EmptySet DEF Init, SquadSizes
<1>2. IInv /\ SquadSizes => TypeOK
  BY DEF IInv, Types, SquadSizes, TypeOK
<1> QED
  BY <1>1, <1>2, SizesKept, SquadInvariance, PTL DEF Spec

(* Both sides of a squad agree in every reachable state. *)
THEOREM SquadAgreement == Spec => []SquadsAgree
PROOF
<1>1. IInv => SquadsAgree
  BY DEF IInv
<1> QED
  BY <1>1, SquadInvariance, PTL

(* The slots of a squad that nothing spoilt are the ones its members hold, *)
(* each held once, in every reachable state.                               *)
THEOREM SlotBacking == Spec => []SlotsAreBacked
PROOF
<1>1. IInv => SlotsAreBacked
  BY DEF IInv
<1> QED
  BY <1>1, SquadInvariance, PTL

(* A living member is neither recruited away nor set free while it and its *)
(* leader live.                                                            *)
THEOREM SquadsDoLast == Spec => SquadsLast
PROOF
<1> DEFINE Lasting ==
      \A m \in Monsters :
        life[m] = "alive" /\ InSquad(m) /\ leader'[m] # leader[m]
          => leader'[m] = NoOne /\ \E x \in {m, leader[m]} : life'[x] # life[x]
<1>1. ASSUME IInv, [Next]_vars, NEW x \in Monsters,
             life[x] = "alive", InSquad(x), leader'[x] # leader[x]
      PROVE  leader'[x] = NoOne /\ \E z \in {x, leader[x]} : life'[z] # life[z]
  <2>1. ASSUME NEW m \in Monsters, StartMonster(m) PROVE FALSE
    BY <1>1, <2>1 DEF StartMonster, Candidates
  <2>2. ASSUME NEW m \in Monsters, RemoveMonster(m)
        PROVE  leader'[x] = NoOne /\ \E z \in {x, leader[x]} : life'[z] # life[z]
    BY <1>1, <2>2 DEF RemoveMonster, Exists, IInv, Types
  <2>3. ASSUME NEW m \in Monsters, NEW e \in Enemies, NEW alarmed \in SUBSET Monsters,
               Killed(m, e, alarmed)
        PROVE  leader'[x] = NoOne /\ \E z \in {x, leader[x]} : life'[z] # life[z]
    <3>1. life'[m] # life[m]
      BY <1>1, <2>3 DEF Killed, IInv, Types
    <3>2. leader'[x] = NoOne /\ (x = m \/ x \in members[m])
      BY <1>1, <2>3 DEF Killed, SquadRemove
    <3>3. x \in members[m] => leader[x] = m
      BY <1>1, <2>3 DEF Killed, IInv, SquadsAgree, Exists
    <3> QED
      BY <3>1, <3>2, <3>3
  <2>4. CASE UNCHANGED leader
    BY <1>1, <2>4
  <2> QED
    BY <1>1, <2>1, <2>2, <2>3, <2>4
    DEF Next, Spawn, SetEnemy, NewSchedule, SetSchedule, ShootCorpse, Restore, vars
<1>2. IInv /\ [Next]_vars => [Lasting]_vars
  BY <1>1
<1>3. Spec => [][Lasting]_vars
  BY <1>2, SquadInvariance, PTL DEF Spec
<1> QED
  BY <1>3 DEF SquadsLast

=============================================================================
