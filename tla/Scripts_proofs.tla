---------------------------- MODULE Scripts_proofs ----------------------------
(***************************************************************************)
(* Theorems about Scripts, for any number of monsters and scripts, of any  *)
(* kinds and under any names: a script and its monster always agree on     *)
(* each other, a task of a script never runs without one, and the monsters *)
(* of one name start together.                                             *)
(*                                                                         *)
(* Two facts make the first two inductive.  A script with a monster has no *)
(* think function pending, so it neither looks for another monster nor is  *)
(* removed (Linked).  A monster that is told to take on the state SCRIPT   *)
(* and has no script has no schedule either, so that its next think finds  *)
(* out before any task runs (Commanded).                                   *)
(*                                                                         *)
(* The third needs a count: m_iDelay is never below the number of scripts  *)
(* of the name whose monster is on its way (Counted).  That an arrival     *)
(* takes one off the count for one that was on its way needs that a        *)
(* monster only ever walks for the script it has (Prompt).                 *)
(***************************************************************************)
EXTENDS Scripts, FiniteSetTheorems, TLAPS

Linked ==
  /\ \A m \in Monsters, s \in Scripts : cine[m] = s <=> target[s] = m
  /\ \A s \in Scripts : target[s] # None => think[s] = "none"
Commanded ==
  \A m \in Monsters : ideal[m] = "SCRIPT" /\ cine[m] = None => task[m] = "none"
IInv == TypeOK /\ Linked /\ Commanded

(* None is neither a monster nor a script.                                 *)
LEMMA NoneIsNone == None \notin Monsters /\ None \notin Scripts
  BY ScriptsAssumption

(* Whoever is let go, a possession stays mutual, and nobody else changes.  *)
LEMMA CleanupFacts ==
  ASSUME TypeOK, Linked, NEW C \in SUBSET Monsters
  PROVE  /\ CineAfter(C) \in [Monsters -> Scripts \cup {None}]
         /\ TargetAfter(C) \in [Scripts -> Monsters \cup {None}]
         /\ IdealAfter(C) \in [Monsters -> States]
         /\ StateAfter(C) \in [Monsters -> States]
         /\ DeadAfter(C) \in [Monsters -> {"NO", "DYING", "DEAD", "gone"}]
         /\ SpentAfter(C) \subseteq Monsters
         /\ \A m \in C : CineAfter(C)[m] = None /\ IdealAfter(C)[m] \in {"DEAD", "IDLE"}
         /\ \A m \in Monsters \ C :
              CineAfter(C)[m] = cine[m] /\ IdealAfter(C)[m] = ideal[m]
         /\ \A m \in Monsters, s \in Scripts :
              CineAfter(C)[m] = s <=> TargetAfter(C)[s] = m
         /\ \A s \in Scripts : TargetAfter(C)[s] \in {None, target[s]}
<1>1. /\ CineAfter(C) \in [Monsters -> Scripts \cup {None}]
      /\ \A m \in C : CineAfter(C)[m] = None
      /\ \A m \in Monsters \ C : CineAfter(C)[m] = cine[m]
  BY DEF CineAfter, TypeOK
<1>2. /\ TargetAfter(C) \in [Scripts -> Monsters \cup {None}]
      /\ \A s \in Scripts : TargetAfter(C)[s] \in {None, target[s]}
  BY DEF TargetAfter, TypeOK
<1>3. \A m \in Monsters : Released(m) \in {"DEAD", "IDLE"}
  BY DEF Released
<1>4. /\ IdealAfter(C) \in [Monsters -> States]
      /\ \A m \in C : IdealAfter(C)[m] \in {"DEAD", "IDLE"}
      /\ \A m \in Monsters \ C : IdealAfter(C)[m] = ideal[m]
  BY <1>3 DEF IdealAfter, TypeOK, States
<1>5. /\ StateAfter(C) \in [Monsters -> States]
      /\ DeadAfter(C) \in [Monsters -> {"NO", "DYING", "DEAD", "gone"}]
      /\ SpentAfter(C) \subseteq Monsters
  BY DEF StateAfter, DeadAfter, SpentAfter, TypeOK, States
<1>6. ASSUME NEW m \in Monsters, NEW s \in Scripts
      PROVE  CineAfter(C)[m] = s <=> TargetAfter(C)[s] = m
  BY NoneIsNone DEF CineAfter, TargetAfter, Linked
<1> QED
  BY <1>1, <1>2, <1>4, <1>5, <1>6

(* What MaintainSchedule does.                                             *)
LEMMA TakeOnFacts ==
  ASSUME IInv, NEW m \in Monsters, NEW C \in SUBSET Monsters, NEW i \in States,
         TakeOn(m, C, i), i = "SCRIPT" => m \notin C /\ cine[m] # None
  PROVE  IInv'
<1>1. /\ CineAfter(C) \in [Monsters -> Scripts \cup {None}]
      /\ TargetAfter(C) \in [Scripts -> Monsters \cup {None}]
      /\ IdealAfter(C) \in [Monsters -> States]
      /\ StateAfter(C) \in [Monsters -> States]
      /\ DeadAfter(C) \in [Monsters -> {"NO", "DYING", "DEAD", "gone"}]
      /\ SpentAfter(C) \subseteq Monsters
      /\ \A k \in C : CineAfter(C)[k] = None /\ IdealAfter(C)[k] \in {"DEAD", "IDLE"}
      /\ \A k \in Monsters \ C : CineAfter(C)[k] = cine[k] /\ IdealAfter(C)[k] = ideal[k]
      /\ \A k \in Monsters, s \in Scripts : CineAfter(C)[k] = s <=> TargetAfter(C)[s] = k
      /\ \A s \in Scripts : TargetAfter(C)[s] \in {None, target[s]}
  BY CleanupFacts DEF IInv
<1>2. i = "SCRIPT" => FirstTask(cine[m]) \in ScriptTasks
  BY DEF FirstTask, ScriptTasks
<1>3. TypeOK'
  <2>1. task' \in [Monsters -> ScriptTasks \cup {"none", "other", "die"}]
    BY <1>2 DEF TakeOn, NewTask, IInv, TypeOK
  <2>2. state' \in [Monsters -> States] /\ ideal' \in [Monsters -> States]
    BY <1>1 DEF TakeOn
  <2>3. deadflag' \in [Monsters -> {"NO", "DYING", "DEAD", "gone"}]
    BY <1>1 DEF TakeOn
  <2>4. /\ cine' \in [Monsters -> Scripts \cup {None}]
        /\ target' \in [Scripts -> Monsters \cup {None}]
        /\ spent' \subseteq Monsters /\ playing' \subseteq Monsters
    BY <1>1 DEF TakeOn, CineCleanup, IInv, TypeOK
  <2> QED
    BY <2>1, <2>2, <2>3, <2>4 DEF TakeOn, timing, IInv, TypeOK
<1>4. Linked'
  BY <1>1 DEF TakeOn, CineCleanup, timing, Linked, IInv
<1>5. Commanded'
  <2> SUFFICES ASSUME NEW k \in Monsters, ideal'[k] = "SCRIPT", cine'[k] = None
               PROVE  task'[k] = "none"
    BY DEF Commanded
  <2>1. CASE k = m
    BY <1>1, <2>1 DEF TakeOn, CineCleanup
  <2>2. CASE k # m
    BY <1>1, <2>2 DEF TakeOn, CineCleanup, IInv, Commanded, TypeOK
  <2> QED
    BY <2>1, <2>2
<1> QED
  BY <1>3, <1>4, <1>5 DEF IInv

(***************************************************************************)
(* Each step preserves IInv                                                *)
(***************************************************************************)
LEMMA PossessStep ==
  ASSUME IInv, NEW s \in Scripts, NEW m \in Able(s), think[s] = "CineThink",
         \A t \in Namesakes(s) : delay[t] < MaxDelay,
         Possess(s, m), think' = [think EXCEPT ![s] = "none"]
  PROVE  IInv'
<1>1. m \in Monsters /\ cine[m] = None /\ target[s] = None
  BY ScriptsAssumption DEF Able, CanPlaySequence, IInv, Linked
<1>2. TypeOK'
  <2>1. task' \in [Monsters -> ScriptTasks \cup {"none", "other", "die"}]
    BY <1>1 DEF Possess, NewTask, FirstTask, ScriptTasks, IInv, TypeOK
  <2>2. delay' \in [Scripts -> -1 .. MaxDelay]
    BY ScriptsAssumption DEF Possess, DelayMore, IInv, TypeOK
  <2>3. startTime' \in [Scripts -> {"past", "far"}] /\ playing' \subseteq Monsters
        /\ upset' \in BOOLEAN
    BY <1>1 DEF Possess, IInv, TypeOK
  <2>4. /\ cine' \in [Monsters -> Scripts \cup {None}]
        /\ target' \in [Scripts -> Monsters \cup {None}]
        /\ ideal' \in [Monsters -> States]
        /\ think' \in [Scripts -> {"none", "CineThink", "SUB_Remove", "gone"}]
    BY <1>1 DEF Possess, IInv, TypeOK, States
  <2> QED
    BY <2>1, <2>2, <2>3, <2>4 DEF Possess, IInv, TypeOK
<1>3. Linked'
  <2>1. /\ \A k \in Monsters : cine'[k] = IF k = m THEN s ELSE cine[k]
        /\ \A t \in Scripts : target'[t] = IF t = s THEN m ELSE target[t]
        /\ \A t \in Scripts : think'[t] = IF t = s THEN "none" ELSE think[t]
    BY <1>1 DEF Possess, IInv, TypeOK
  <2> QED
    BY <1>1, <2>1, NoneIsNone DEF IInv, Linked
<1>4. Commanded'
  <2>1. /\ \A k \in Monsters \ {m} :
             cine'[k] = cine[k] /\ ideal'[k] = ideal[k] /\ task'[k] = task[k]
        /\ cine'[m] = s
    BY <1>1 DEF Possess, IInv, TypeOK
  <2> QED
    BY <2>1, NoneIsNone DEF IInv, Commanded
<1> QED
  BY <1>2, <1>3, <1>4 DEF IInv

(* The monsters of C are let go.  Whoever gets another task or is told of  *)
(* another state has no task at all or is not told to take on SCRIPT.      *)
LEMMA CleanupStep ==
  ASSUME IInv, NEW C \in SUBSET Monsters, CineCleanup(C),
         state' \in [Monsters -> States],
         task' \in [Monsters -> ScriptTasks \cup {"none", "other", "die"}],
         ideal' \in [Monsters -> States],
         deadflag' \in [Monsters -> {"NO", "DYING", "DEAD", "gone"}],
         think' \in [Scripts -> {"none", "CineThink", "SUB_Remove", "gone"}],
         playing' \subseteq Monsters, killed' = killed, timing' = timing,
         upset' = upset,
         \A m \in Monsters : \/ task'[m] = "none" \/ ideal'[m] # "SCRIPT"
                             \/ ideal'[m] = ideal[m] /\ task'[m] = task[m] /\ m \notin C,
         \A s \in Scripts : target'[s] # None => think'[s] = think[s]
  PROVE  IInv'
<1>1. /\ CineAfter(C) \in [Monsters -> Scripts \cup {None}]
      /\ TargetAfter(C) \in [Scripts -> Monsters \cup {None}]
      /\ SpentAfter(C) \subseteq Monsters
      /\ \A k \in Monsters \ C : CineAfter(C)[k] = cine[k]
      /\ \A k \in Monsters, s \in Scripts : CineAfter(C)[k] = s <=> TargetAfter(C)[s] = k
      /\ \A s \in Scripts : TargetAfter(C)[s] \in {None, target[s]}
  BY CleanupFacts DEF IInv
<1>2. TypeOK'
  BY <1>1 DEF CineCleanup, timing, IInv, TypeOK
<1>3. Linked'
  BY <1>1 DEF CineCleanup, IInv, Linked
<1>4. Commanded'
  BY <1>1 DEF CineCleanup, IInv, Commanded
<1> QED
  BY <1>2, <1>3, <1>4 DEF IInv

LEMMA CineThinkStep ==
  ASSUME IInv, NEW s \in Scripts, CineThink(s)
  PROVE  IInv'
<1>1. CASE \E m \in Able(s) :
             /\ \A t \in Namesakes(s) : delay[t] < MaxDelay
             /\ Possess(s, m)
             /\ think' = [think EXCEPT ![s] = "none"]
  BY <1>1, PossessStep DEF CineThink
<1>2. CASE /\ CineCleanup(Cancelled(s))
           /\ ideal' = IdealAfter(Cancelled(s)) /\ state' = StateAfter(Cancelled(s))
           /\ deadflag' = DeadAfter(Cancelled(s))
           /\ playing' = playing \ Cancelled(s)
           /\ UNCHANGED <<task, killed, timing, think, upset>>
  <2>1. Cancelled(s) \in SUBSET Monsters
    BY DEF Cancelled
  <2>2. /\ IdealAfter(Cancelled(s)) \in [Monsters -> States]
        /\ StateAfter(Cancelled(s)) \in [Monsters -> States]
        /\ DeadAfter(Cancelled(s)) \in [Monsters -> {"NO", "DYING", "DEAD", "gone"}]
        /\ \A k \in Cancelled(s) : IdealAfter(Cancelled(s))[k] \in {"DEAD", "IDLE"}
        /\ \A k \in Monsters \ Cancelled(s) : IdealAfter(Cancelled(s))[k] = ideal[k]
    BY <2>1, CleanupFacts DEF IInv
  <2>3. /\ task' \in [Monsters -> ScriptTasks \cup {"none", "other", "die"}]
        /\ think' \in [Scripts -> {"none", "CineThink", "SUB_Remove", "gone"}]
        /\ playing' \subseteq Monsters /\ timing' = timing
    BY <1>2 DEF IInv, TypeOK
  <2> QED
    BY <1>2, <2>1, <2>2, <2>3, CleanupStep
<1> QED
  BY <1>1, <1>2 DEF CineThink

LEMMA TurnStep ==
  ASSUME IInv, NEW m \in Monsters, Turn(m)
  PROVE  IInv'
<1>1. ideal[m] \in States
  BY DEF IInv, TypeOK
<1> QED
  BY <1>1, TakeOnFacts DEF Turn

LEMMA ExitStep ==
  ASSUME IInv, NEW m \in Monsters, Exit(m)
  PROVE  IInv'
<1> DEFINE C == IF cine[m] = None THEN {} ELSE Cancelled(cine[m])
<1>1. C \in SUBSET Monsters
  BY DEF Cancelled
<1>2. CASE deadflag[m] = "DYING"
  BY <1>2, TakeOnFacts DEF Exit, States
<1>3. CASE deadflag[m] # "DYING"
  <2>1. /\ IdealAfter(C) \in [Monsters -> States]
        /\ \A k \in C : IdealAfter(C)[k] \in {"DEAD", "IDLE"}
        /\ \A k \in Monsters \ C : IdealAfter(C)[k] = ideal[k]
    BY <1>1, CleanupFacts DEF IInv
  <2>2. TakeOn(m, C, IdealAfter(C)[m])
    BY <1>3 DEF Exit
  <2>3. ASSUME IdealAfter(C)[m] = "SCRIPT"
        PROVE  m \notin C /\ cine[m] # None
    <3>1. m \notin C /\ ideal[m] = "SCRIPT"
      BY <2>1, <2>3
    <3>2. task[m] # "none"
      BY DEF Exit, ScriptTasks
    <3> QED
      BY <3>1, <3>2 DEF IInv, Commanded
  <2>4. IdealAfter(C)[m] \in States
    BY <2>1
  <2> HIDE DEF C
  <2> QED
    BY <1>1, <2>2, <2>3, <2>4, TakeOnFacts
<1> QED
  BY <1>2, <1>3

LEMMA RouseStep ==
  ASSUME IInv, NEW m \in Monsters, Rouse(m)
  PROVE  IInv'
  BY TakeOnFacts DEF Rouse, States

LEMMA ScriptFailedStep ==
  ASSUME IInv, NEW m \in Monsters, ScriptFailed(m)
  PROVE  IInv'
<1>1. {m} \in SUBSET Monsters
  OBVIOUS
<1>2. /\ IdealAfter({m}) \in [Monsters -> States]
      /\ DeadAfter({m}) \in [Monsters -> {"NO", "DYING", "DEAD", "gone"}]
      /\ IdealAfter({m})[m] \in {"DEAD", "IDLE"}
      /\ \A k \in Monsters \ {m} : IdealAfter({m})[k] = ideal[k]
  BY <1>1, CleanupFacts DEF IInv
<1>3. /\ task' \in [Monsters -> ScriptTasks \cup {"none", "other", "die"}]
      /\ state' \in [Monsters -> States]
      /\ playing' \subseteq Monsters
      /\ think' \in [Scripts -> {"none", "CineThink", "SUB_Remove", "gone"}]
      /\ \A k \in Monsters \ {m} : task'[k] = task[k]
  BY DEF ScriptFailed, NewTask, IInv, TypeOK, States
<1> QED
  BY <1>1, <1>2, <1>3, CleanupStep DEF ScriptFailed, timing

(* A task of the script runs only while the monster has one.               *)
LEMMA ObeyingHasScript ==
  ASSUME IInv, NEW m \in Monsters, Obeying(m), task[m] \in ScriptTasks
  PROVE  cine[m] \in Scripts /\ target[cine[m]] = m /\ think[cine[m]] = "none"
<1>1. cine[m] \in Scripts
  BY DEF IInv, TypeOK, Commanded, Obeying, ScriptTasks
<1> QED
  BY <1>1, NoneIsNone DEF IInv, Linked

LEMMA SequenceDoneStep ==
  ASSUME IInv, NEW m \in Monsters, SequenceDone(m), Obeying(m), task[m] \in ScriptTasks
  PROVE  IInv'
<1>1. {m} \in SUBSET Monsters
  OBVIOUS
<1>2. /\ IdealAfter({m}) \in [Monsters -> States]
      /\ StateAfter({m}) \in [Monsters -> States]
      /\ DeadAfter({m}) \in [Monsters -> {"NO", "DYING", "DEAD", "gone"}]
      /\ IdealAfter({m})[m] \in {"DEAD", "IDLE"}
      /\ \A k \in Monsters \ {m} : IdealAfter({m})[k] = ideal[k]
  BY <1>1, CleanupFacts DEF IInv
<1>3. /\ task' \in [Monsters -> ScriptTasks \cup {"none", "other", "die"}]
      /\ \A k \in Monsters \ {m} : task'[k] = task[k]
  BY DEF SequenceDone, IInv, TypeOK
<1>4. /\ think' \in [Scripts -> {"none", "CineThink", "SUB_Remove", "gone"}]
      /\ \A s \in Scripts \ {cine[m]} : think'[s] = think[s]
  BY DEF SequenceDone, IInv, TypeOK
<1>5. \A s \in Scripts : target'[s] # None => think'[s] = think[s]
  <2>1. TargetAfter({m})[cine[m]] = None
    BY ObeyingHasScript DEF TargetAfter
  <2> QED
    BY <1>4, <2>1 DEF SequenceDone, CineCleanup
<1>6. playing' \subseteq Monsters /\ timing' = timing
  BY DEF SequenceDone, IInv, TypeOK, timing
<1> QED
  BY <1>1, <1>2, <1>3, <1>4, <1>5, <1>6, CleanupStep DEF SequenceDone

LEMMA FollowStep ==
  ASSUME IInv, NEW m \in Monsters, Follow(m)
  PROVE  IInv'
<1> DEFINE C == IF cine[m] = None THEN {} ELSE Cancelled(cine[m])
<1>1. C \in SUBSET Monsters
  BY DEF Cancelled
<1>2. /\ IdealAfter(C) \in [Monsters -> States]
      /\ StateAfter(C) \in [Monsters -> States]
      /\ DeadAfter(C) \in [Monsters -> {"NO", "DYING", "DEAD", "gone"}]
      /\ \A k \in C : IdealAfter(C)[k] \in {"DEAD", "IDLE"}
      /\ \A k \in Monsters \ C : IdealAfter(C)[k] = ideal[k]
  BY <1>1, CleanupFacts DEF IInv
<1>3. /\ CineCleanup(C) /\ state' = StateAfter(C) /\ deadflag' = DeadAfter(C)
      /\ playing' = playing \ C
      /\ \E alert \in BOOLEAN :
           ideal' = [IdealAfter(C) EXCEPT ![m] = IF alert THEN "IDLE" ELSE @]
      /\ task' = [task EXCEPT ![m] = "none"]
      /\ UNCHANGED <<killed, timing, think, upset>>
  BY DEF Follow
<1> HIDE DEF C
<1>4. /\ ideal' \in [Monsters -> States]
      /\ \A k \in Monsters \ {m} : ideal'[k] = IdealAfter(C)[k]
  BY <1>2, <1>3 DEF States
<1>5. /\ task' \in [Monsters -> ScriptTasks \cup {"none", "other", "die"}]
      /\ task'[m] = "none"
      /\ \A k \in Monsters \ {m} : task'[k] = task[k]
      /\ think' \in [Scripts -> {"none", "CineThink", "SUB_Remove", "gone"}]
      /\ playing' \subseteq Monsters
  BY <1>3 DEF IInv, TypeOK
<1> QED
  BY <1>1, <1>2, <1>3, <1>4, <1>5, CleanupStep DEF timing

(* A step that leaves every possession and every pending think as it is.   *)
LEMMA UnlinkedStep ==
  ASSUME IInv, TypeOK', UNCHANGED <<link, think>>,
         \A m \in Monsters : \/ task'[m] = "none" \/ ideal'[m] # "SCRIPT"
                             \/ ideal'[m] = ideal[m] /\ cine[m] # None
                             \/ ideal'[m] = ideal[m] /\ task'[m] = task[m]
  PROVE  IInv'
  BY DEF link, IInv, Linked, Commanded

LEMMA UseStep ==
  ASSUME IInv, NEW s \in Scripts, Use(s)
  PROVE  IInv'
<1>1. TypeOK' /\ Commanded'
  BY DEF Use, mind, link, health, IInv, TypeOK, Commanded
<1>2. Linked'
  BY NoneIsNone DEF Use, link, IInv, Linked, TypeOK
<1> QED
  BY <1>1, <1>2 DEF IInv

LEMMA RemoveStep ==
  ASSUME IInv, NEW s \in Scripts, Remove(s)
  PROVE  IInv'
<1>1. TypeOK' /\ Commanded'
  BY ScriptsAssumption DEF Remove, mind, link, health, IInv, TypeOK, Commanded
<1>2. Linked'
  BY DEF Remove, link, IInv, Linked, TypeOK
<1> QED
  BY <1>1, <1>2 DEF IInv

LEMMA ArriveStep ==
  ASSUME IInv, NEW m \in Monsters, Arrive(m)
  PROVE  IInv'
<1>1. cine[m] \in Scripts
  BY ObeyingHasScript DEF Arrive, ScriptTasks
<1>2. delay' \in [Scripts -> -1 .. MaxDelay]
  BY ScriptsAssumption DEF Arrive, DelayLess, IInv, TypeOK
<1>3. startTime' \in [Scripts -> {"past", "far"}] /\ upset' \in BOOLEAN
  BY DEF Arrive, DelayLess, IInv, TypeOK
<1>4. /\ task' \in [Monsters -> ScriptTasks \cup {"none", "other", "die"}]
      /\ \A k \in Monsters \ {m} : task'[k] = task[k]
  BY DEF Arrive, IInv, TypeOK, ScriptTasks
<1>5. TypeOK'
  BY <1>2, <1>3, <1>4 DEF Arrive, link, IInv, TypeOK
<1> QED
  BY <1>1, <1>4, <1>5, NoneIsNone, UnlinkedStep DEF Arrive

LEMMA ProceedStep ==
  ASSUME IInv, NEW m \in Monsters, Proceed(m)
  PROVE  IInv'
<1>1. cine[m] \in Scripts
  BY ObeyingHasScript DEF Proceed, ScriptTasks
<1>2. /\ task' \in [Monsters -> ScriptTasks \cup {"none", "other", "die"}]
      /\ \A k \in Monsters \ {m} : task'[k] = task[k]
      /\ playing' \subseteq Monsters
  BY DEF Proceed, IInv, TypeOK, ScriptTasks
<1>3. TypeOK'
  BY <1>2 DEF Proceed, link, timing, IInv, TypeOK
<1> QED
  BY <1>1, <1>2, <1>3, NoneIsNone, UnlinkedStep DEF Proceed

LEMMA StartSequenceStep ==
  ASSUME IInv, NEW m \in Monsters, StartSequence(m)
  PROVE  IInv'
<1>1. CASE SequenceDone(m)
  BY <1>1, SequenceDoneStep DEF StartSequence, ScriptTasks
<1>2. CASE /\ task' = [task EXCEPT ![m] = "begun"]
           /\ UNCHANGED <<state, ideal, link, playing, health, timing, think, upset>>
  <2>1. cine[m] \in Scripts
    BY ObeyingHasScript DEF StartSequence, ScriptTasks
  <2>2. /\ task' \in [Monsters -> ScriptTasks \cup {"none", "other", "die"}]
        /\ \A k \in Monsters \ {m} : task'[k] = task[k]
    BY <1>2 DEF IInv, TypeOK, ScriptTasks
  <2>3. TypeOK'
    BY <1>2, <2>2 DEF link, health, timing, IInv, TypeOK
  <2> QED
    BY <1>2, <2>1, <2>2, <2>3, NoneIsNone, UnlinkedStep
<1> QED
  BY <1>1, <1>2 DEF StartSequence

(* What a monster does or suffers without a change of its tasks.           *)
LEMMA AloneStep ==
  ASSUME IInv, NEW m \in Monsters,
         AnimEvent(m) \/ Die(m) \/ TakeDamage(m) \/ Grab(m) \/ Release(m)
  PROVE  IInv'
<1>1. TypeOK'
  <2>1. CASE AnimEvent(m)
    BY <2>1 DEF AnimEvent, mind, link, timing, IInv, TypeOK
  <2>2. CASE Die(m)
    BY <2>2 DEF Die, mind, link, timing, IInv, TypeOK
  <2>3. CASE TakeDamage(m)
    BY <2>3 DEF TakeDamage, link, timing, IInv, TypeOK, States
  <2>4. CASE Grab(m) \/ Release(m)
    BY <2>4 DEF Grab, Release, link, health, timing, IInv, TypeOK, States
  <2> QED
    BY <2>1, <2>2, <2>3, <2>4
<1>2. task' = task /\ UNCHANGED <<link, think>>
  BY DEF AnimEvent, Die, TakeDamage, Grab, Release, mind
<1>3. \A k \in Monsters : ideal'[k] # "SCRIPT" \/ ideal'[k] = ideal[k]
  BY DEF AnimEvent, Die, TakeDamage, Grab, Release, mind, IInv, TypeOK
<1> QED
  BY <1>1, <1>2, <1>3, UnlinkedStep

LEMMA VanishStep ==
  ASSUME IInv, NEW m \in Monsters, Vanish(m)
  PROVE  IInv'
<1>1. /\ CineAfter({m}) \in [Monsters -> Scripts \cup {None}]
      /\ TargetAfter({m}) \in [Scripts -> Monsters \cup {None}]
      /\ \A k \in Monsters \ {m} : CineAfter({m})[k] = cine[k]
      /\ \A k \in Monsters, s \in Scripts :
           CineAfter({m})[k] = s <=> TargetAfter({m})[s] = k
      /\ \A s \in Scripts : TargetAfter({m})[s] \in {None, target[s]}
  BY CleanupFacts DEF IInv
<1>2. TypeOK'
  BY <1>1 DEF Vanish, timing, IInv, TypeOK, States
<1>3. Linked'
  <2>1. cine' = CineAfter({m}) /\ target' = TargetAfter({m}) /\ think' = think
    BY DEF Vanish
  <2> QED
    BY <1>1, <2>1 DEF IInv, Linked
<1>4. Commanded'
  BY <1>1 DEF Vanish, IInv, Commanded, TypeOK
<1> QED
  BY <1>2, <1>3, <1>4 DEF IInv

LEMMA RestoreStep ==
  ASSUME IInv, NEW L \in SUBSET Monsters, Restore(L)
  PROVE  IInv'
<1>1. /\ CineAfter(L) \in [Monsters -> Scripts \cup {None}]
      /\ TargetAfter(L) \in [Scripts -> Monsters \cup {None}]
      /\ \A k \in Monsters, s \in Scripts : CineAfter(L)[k] = s <=> TargetAfter(L)[s] = k
      /\ \A s \in Scripts : TargetAfter(L)[s] \in {None, target[s]}
  BY CleanupFacts DEF IInv
<1>2. TypeOK'
  BY <1>1 DEF Restore, timing, IInv, TypeOK
<1>3. Linked'
  BY <1>1 DEF Restore, IInv, Linked
<1>4. Commanded'
  BY DEF Restore, Commanded
<1> QED
  BY <1>2, <1>3, <1>4 DEF IInv

LEMMA InitIInv == ASSUME Init PROVE IInv
<1>1. TypeOK
  <2>1. delay \in [Scripts -> -1 .. MaxDelay]
    BY ScriptsAssumption DEF Init
  <2>2. state \in [Monsters -> States] /\ ideal \in [Monsters -> States]
    BY DEF Init, States
  <2> QED
    BY <2>1, <2>2 DEF Init, TypeOK
<1>2. Linked /\ Commanded
  BY NoneIsNone DEF Init, Linked, Commanded
<1> QED
  BY <1>1, <1>2 DEF IInv

LEMMA NextIInv == ASSUME IInv, [Next]_vars PROVE IInv'
<1>1. CASE \E s \in Scripts : Use(s) \/ CineThink(s) \/ Remove(s)
  BY <1>1, UseStep, CineThinkStep, RemoveStep
<1>2. ASSUME NEW m \in Monsters, Turn(m) \/ ScriptFailed(m) \/ Exit(m) \/ Arrive(m)
      PROVE  IInv'
  BY <1>2, TurnStep, ScriptFailedStep, ExitStep, ArriveStep
<1>3. ASSUME NEW m \in Monsters,
             Proceed(m) \/ StartSequence(m) \/ Finish(m) \/ Rouse(m) \/ Follow(m)
      PROVE  IInv'
  <2>1. Finish(m) => IInv'
    BY SequenceDoneStep DEF Finish, ScriptTasks
  <2> QED
    BY <1>3, <2>1, ProceedStep, StartSequenceStep, RouseStep, FollowStep
<1>4. ASSUME NEW m \in Monsters,
             AnimEvent(m) \/ Die(m) \/ TakeDamage(m) \/ Vanish(m) \/ Grab(m) \/ Release(m)
      PROVE  IInv'
  BY <1>4, AloneStep, VanishStep
<1>5. CASE \E L \in SUBSET Monsters : Restore(L)
  BY <1>5, RestoreStep
<1>6. CASE UNCHANGED vars
  BY <1>6 DEF vars, mind, link, health, timing, IInv, TypeOK, Linked, Commanded
<1> QED
  BY <1>1, <1>2, <1>3, <1>4, <1>5, <1>6 DEF Next

(* Types, links and commands fit in every reachable state.                 *)
THEOREM Invariance == Spec => []IInv
  BY InitIInv, NextIInv, PTL DEF Spec

(* The variables of Scripts keep their types.                              *)
THEOREM TypeCorrect == Spec => []TypeOK
<1>1. IInv => TypeOK
  BY DEF IInv
<1> QED
  BY Invariance, <1>1, PTL

(* A script and its monster agree on each other through every cancel,      *)
(* interruption, death, removal and change of level; nobody keeps a script *)
(* that SUB_Remove has taken away.                                         *)
THEOREM PossessionsAgree == Spec => []PossessionIsMutual
<1>1. ASSUME IInv PROVE PossessionIsMutual
  <2>1. ASSUME NEW m \in Monsters, cine[m] # None
        PROVE  Here(cine[m])
    BY <1>1, <2>1, NoneIsNone DEF Here, IInv, Linked, TypeOK
  <2> QED
    BY <1>1, <2>1 DEF PossessionIsMutual, IInv, Linked
<1> QED
  BY Invariance, <1>1, PTL

(* The tasks of a script never find m_pCine NULL.                          *)
THEOREM TasksHaveScript == Spec => []ScriptTasksHaveScript
<1>1. ASSUME IInv PROVE ScriptTasksHaveScript
  BY <1>1 DEF ScriptTasksHaveScript, Obeying, ScriptTasks, IInv, Commanded
<1> QED
  BY Invariance, <1>1, PTL

(***************************************************************************)
(* The count of DelayStart                                                 *)
(***************************************************************************)
Walkers(s) == {t \in Namesakes(s) : OnItsWay(t)}
Counted ==
  ~upset => \A s \in Classic : Here(s) => Cardinality(Walkers(s)) <= delay[s]
Prompt ==
  ~upset => \A m \in Monsters :
    state[m] = "SCRIPT" /\ ideal[m] = "SCRIPT" /\ cine[m] \in Classic
      => task[m] # "none" /\ (task[m] = "walk" => Move[cine[m]] = "walk")
CInv == IInv /\ Counted /\ Prompt

LEMMA WalkersFinite ==
  ASSUME NEW s
  PROVE  /\ Walkers(s) \subseteq Classic
         /\ IsFiniteSet(Walkers(s)) /\ Cardinality(Walkers(s)) \in Nat
<1>1. Walkers(s) \subseteq Classic
  BY DEF Walkers, Namesakes
<1>2. Walkers(s) \subseteq Scripts /\ IsFiniteSet(Scripts)
  BY <1>1, ScriptsAssumption
<1> QED
  BY <1>1, <1>2, FS_Subset, FS_CardinalityType

(* In this step no monster begins to walk for a scripted_sequence, and one *)
(* that takes on the state SCRIPT has the first task of its own script.    *)
Calm(m) ==
  \/ cine'[m] \notin Classic
  \/ ideal'[m] # "SCRIPT"
  \/ /\ cine'[m] = cine[m] /\ ideal'[m] = ideal[m]
     /\ IsAlive(m)' => IsAlive(m)
     /\ \/ state'[m] = state[m] /\ task'[m] = task[m]
        \/ state'[m] = state[m] /\ state[m] # "SCRIPT"
        \/ /\ state[m] # "SCRIPT" \/ task[m] \in {"walk", "other"}
              \/ task'[m] \notin {"walk", "other"}
           /\ state'[m] = "SCRIPT" /\ task'[m] # "none"
           /\ task'[m] = "walk" => Move[cine[m]] = "walk"

LEMMA CalmWalkers ==
  ASSUME IInv, IInv', NEW t \in Classic, OnItsWay(t)',
         target'[t] = target[t], \A m \in Monsters : Calm(m)
  PROVE  OnItsWay(t)
<1> DEFINE m == target[t]
<1>1. t \in Scripts /\ m \in Monsters
  BY ScriptsAssumption DEF OnItsWay, IInv, TypeOK
<1>2. cine[m] = t /\ cine'[m] = t
  BY <1>1 DEF IInv, Linked
<1>3. Calm(m)
  BY <1>1
<1> HIDE DEF m
<1>4. /\ Move[t] = "walk" /\ m # None
      /\ ideal'[m] = "SCRIPT" /\ IsAlive(m)'
      /\ state'[m] # "SCRIPT" \/ task'[m] \in {"walk", "other"}
  BY DEF OnItsWay, m
<1>5. /\ ideal[m] = "SCRIPT" /\ IsAlive(m)
      /\ state[m] # "SCRIPT" \/ task[m] \in {"walk", "other"}
  BY <1>2, <1>3, <1>4 DEF Calm
<1> QED
  BY <1>4, <1>5 DEF OnItsWay, m

LEMMA CalmPrompt ==
  ASSUME Prompt, upset' = upset, \A m \in Monsters : Calm(m)
  PROVE  Prompt'
<1> SUFFICES ASSUME ~upset, NEW m \in Monsters, state'[m] = "SCRIPT",
                    ideal'[m] = "SCRIPT", cine'[m] \in Classic
             PROVE  task'[m] # "none" /\ (task'[m] = "walk" => Move[cine'[m]] = "walk")
  BY DEF Prompt
<1> QED
  BY DEF Prompt, Calm

LEMMA CalmStep ==
  ASSUME CInv, IInv', upset' = upset,
         \A t \in Scripts : Here(t)' => Here(t) /\ delay'[t] = delay[t],
         \A t \in Scripts : target'[t] \in {None, target[t]},
         \A m \in Monsters : Calm(m)
  PROVE  CInv'
<1>1. ASSUME ~upset, NEW s \in Classic, Here(s)'
      PROVE  Cardinality(Walkers(s))' <= delay'[s]
  <2>1. ASSUME NEW t \in Namesakes(s)', OnItsWay(t)'
        PROVE  t \in Namesakes(s) /\ OnItsWay(t)
    <3>1. t \in Classic /\ Here(t)' /\ Name[t] = Name[s] /\ t \in Scripts
      BY ScriptsAssumption DEF Namesakes
    <3>2. target'[t] = target[t]
      BY <2>1, <3>1 DEF OnItsWay
    <3> QED
      BY <2>1, <3>1, <3>2, CalmWalkers DEF CInv, Namesakes
  <2>2. Walkers(s)' \subseteq Walkers(s)
    BY <2>1 DEF Walkers
  <2>3. Cardinality(Walkers(s)') <= Cardinality(Walkers(s))
    BY <2>2, WalkersFinite, FS_Subset
  <2>4. Cardinality(Walkers(s)') \in Nat
    BY <2>2, WalkersFinite, FS_Subset, FS_CardinalityType
  <2>5. s \in Scripts /\ Here(s) /\ delay'[s] = delay[s] /\ delay[s] \in Int
    BY <1>1, ScriptsAssumption DEF CInv, IInv, TypeOK
  <2>6. Cardinality(Walkers(s)) <= delay[s] /\ Cardinality(Walkers(s)) \in Nat
    BY <1>1, <2>5, WalkersFinite DEF CInv, Counted
  <2> QED
    BY <2>3, <2>4, <2>5, <2>6
<1>2. Counted'
  BY <1>1 DEF Counted
<1>3. Prompt'
  BY CalmPrompt DEF CInv
<1> QED
  BY <1>2, <1>3 DEF CInv

(* The next task of m is of no concern to the others.                      *)
LEMMA CleanupCalm ==
  ASSUME IInv, NEW C \in SUBSET Monsters, CineCleanup(C), NEW k \in Monsters,
         k \in C \/ /\ ideal'[k] = ideal[k] /\ state'[k] = state[k]
                    /\ deadflag'[k] = deadflag[k] /\ task'[k] = task[k]
  PROVE  Calm(k)
<1>1. /\ k \in C => cine'[k] = None
      /\ k \notin C => cine'[k] = cine[k]
  BY CleanupFacts DEF CineCleanup, IInv
<1>2. None \notin Classic
  BY ScriptsAssumption
<1> QED
  BY <1>1, <1>2 DEF Calm, IsAlive

LEMMA CleanupOthers ==
  ASSUME IInv, NEW C \in SUBSET Monsters, NEW k \in Monsters \ C
  PROVE  /\ IdealAfter(C)[k] = ideal[k] /\ StateAfter(C)[k] = state[k]
         /\ DeadAfter(C)[k] = deadflag[k]
  BY DEF IdealAfter, StateAfter, DeadAfter

LEMMA CleanupTargets ==
  ASSUME IInv, NEW C \in SUBSET Monsters, CineCleanup(C)
  PROVE  \A t \in Scripts : target'[t] \in {None, target[t]}
  BY CleanupFacts DEF IInv, CineCleanup

LEMMA UseCalm ==
  ASSUME CInv, IInv', NEW s \in Scripts, Use(s) \/ Remove(s)
  PROVE  CInv'
<1>1. \A t \in Scripts : Here(t)' => Here(t) /\ delay'[t] = delay[t]
  BY DEF Use, Remove, Here, CInv, IInv, TypeOK
<1>2. \A m \in Monsters : Calm(m)
  BY DEF Use, Remove, mind, link, health, Calm, IsAlive
<1> QED
  BY <1>1, <1>2, CalmStep DEF Use, Remove, link

LEMMA CancelCalm ==
  ASSUME CInv, IInv', NEW s \in Scripts,
         CineCleanup(Cancelled(s)), ideal' = IdealAfter(Cancelled(s)),
         state' = StateAfter(Cancelled(s)), deadflag' = DeadAfter(Cancelled(s)),
         UNCHANGED <<task, delay, think, upset>>
  PROVE  CInv'
<1>1. Cancelled(s) \in SUBSET Monsters
  BY DEF Cancelled
<1>2. \A k \in Monsters : Calm(k)
  BY <1>1, CleanupOthers, CleanupCalm DEF CInv
<1>3. \A t \in Scripts : target'[t] \in {None, target[t]}
  BY <1>1, CleanupTargets DEF CInv
<1> QED
  BY <1>2, <1>3, CalmStep DEF Here

LEMMA TakeOnCalm ==
  ASSUME CInv, IInv', NEW m \in Monsters, NEW C \in SUBSET Monsters,
         NEW i \in States, TakeOn(m, C, i), Calm(m)
  PROVE  CInv'
<1>1. ASSUME NEW k \in Monsters \ {m}
      PROVE  Calm(k)
  <2>1. CineCleanup(C) /\ task'[k] = task[k]
    BY DEF TakeOn, CInv, IInv, TypeOK
  <2>2. /\ ideal'[k] = IdealAfter(C)[k] /\ state'[k] = StateAfter(C)[k]
        /\ deadflag'[k] = DeadAfter(C)[k]
    BY CleanupFacts DEF TakeOn, CInv, IInv
  <2> QED
    BY <2>1, <2>2, CleanupOthers, CleanupCalm DEF CInv
<1>2. \A t \in Scripts : target'[t] \in {None, target[t]}
  BY CleanupTargets DEF CInv, TakeOn
<1>3. \A t \in Scripts : Here(t)' => Here(t) /\ delay'[t] = delay[t]
  BY DEF TakeOn, timing, Here
<1> QED
  BY <1>1, <1>2, <1>3, CalmStep DEF TakeOn

LEMMA TakeOnMind ==
  ASSUME IInv, NEW m \in Monsters, NEW C \in SUBSET Monsters, NEW i, TakeOn(m, C, i)
  PROVE  /\ ideal'[m] = i /\ state'[m] = i
         /\ i = "SCRIPT" => task'[m] = NewTask(m, FirstTask(cine[m]))
         /\ m \in C => cine'[m] = None
         /\ m \notin C => cine'[m] = cine[m]
         /\ i # "DEAD" /\ m \notin C => deadflag'[m] = deadflag[m]
<1>1. ideal'[m] = i /\ state'[m] = i
  BY CleanupFacts DEF TakeOn, IInv
<1>2. i = "SCRIPT" => task'[m] = NewTask(m, FirstTask(cine[m]))
  BY DEF TakeOn, IInv, TypeOK
<1>3. /\ m \in C => cine'[m] = None
      /\ m \notin C => cine'[m] = cine[m]
  BY CleanupFacts DEF TakeOn, CineCleanup, IInv
<1>4. i # "DEAD" /\ m \notin C => deadflag'[m] = deadflag[m]
  BY DEF TakeOn, DeadAfter
<1> QED
  BY <1>1, <1>2, <1>3, <1>4

LEMMA TurnCalm ==
  ASSUME CInv, IInv', ~upset, NEW m \in Monsters, Turn(m)
  PROVE  CInv'
<1>1. TakeOn(m, {}, ideal[m]) /\ ideal[m] \in States
  BY DEF Turn, CInv, IInv, TypeOK
<1>2. CASE ideal[m] # "SCRIPT" \/ cine[m] \notin Classic
  BY <1>1, <1>2, TakeOnCalm, TakeOnMind DEF Calm, CInv
<1>3. CASE ideal[m] = "SCRIPT" /\ cine[m] \in Classic
  <2>1. /\ ideal'[m] = ideal[m] /\ state'[m] = "SCRIPT" /\ cine'[m] = cine[m]
        /\ task'[m] = NewTask(m, FirstTask(cine[m])) /\ deadflag'[m] = deadflag[m]
    BY <1>1, <1>3, TakeOnMind DEF CInv
  <2>2. task'[m] # "none" /\ (task'[m] = "walk" => Move[cine[m]] = "walk")
    BY <2>1 DEF NewTask, FirstTask
  <2>3. state[m] # "SCRIPT" \/ task[m] = "other"
    BY <1>3 DEF Turn, CInv, Prompt
  <2>4. Calm(m)
    BY <2>1, <2>2, <2>3 DEF Calm, IsAlive
  <2> QED
    BY <1>1, <2>4, TakeOnCalm
<1> QED
  BY <1>2, <1>3

LEMMA ExitCalm ==
  ASSUME CInv, IInv', NEW m \in Monsters, Exit(m)
  PROVE  CInv'
<1> DEFINE C == IF cine[m] = None THEN {} ELSE Cancelled(cine[m])
<1>1. C \in SUBSET Monsters
  BY DEF Cancelled
<1>2. CASE deadflag[m] = "DYING"
  <2>1. TakeOn(m, {}, "DEAD") /\ "DEAD" \in States
    BY <1>2 DEF Exit, States
  <2> QED
    BY <2>1, TakeOnCalm, TakeOnMind DEF Calm, CInv
<1>3. CASE deadflag[m] # "DYING"
  <2>1. TakeOn(m, C, IdealAfter(C)[m])
    BY <1>3 DEF Exit
  <2>2. cine[m] \in Classic => m \in C
    <3> SUFFICES ASSUME cine[m] \in Classic
                 PROVE  m \in Cancelled(cine[m]) /\ cine[m] # None
      OBVIOUS
    <3>1. cine[m] \in Scripts /\ cine[m] # None /\ target[cine[m]] = m
          /\ think[cine[m]] = "none"
      BY ScriptsAssumption, NoneIsNone DEF CInv, IInv, Linked
    <3> QED
      BY <3>1 DEF Cancelled, Namesakes, Here, Exit
  <2>3. IdealAfter(C)[m] \in States
    BY <1>1, CleanupFacts DEF CInv, IInv
  <2> HIDE DEF C
  <2>4. cine'[m] \notin Classic
    BY <1>1, <2>1, <2>2, TakeOnMind, ScriptsAssumption DEF CInv
  <2> QED
    BY <1>1, <2>1, <2>3, <2>4, TakeOnCalm DEF Calm
<1> QED
  BY <1>2, <1>3

LEMMA RouseCalm ==
  ASSUME CInv, IInv', NEW m \in Monsters, Rouse(m)
  PROVE  CInv'
  BY TakeOnCalm, TakeOnMind DEF Rouse, Calm, CInv, States

LEMMA ScriptFailedCalm ==
  ASSUME CInv, IInv', NEW m \in Monsters, ScriptFailed(m)
  PROVE  CInv'
<1>1. CineCleanup({m}) /\ {m} \in SUBSET Monsters
  BY DEF ScriptFailed
<1>2. ASSUME NEW k \in Monsters \ {m}
      PROVE  Calm(k)
  <2>1. /\ ideal'[k] = ideal[k] /\ state'[k] = state[k]
        /\ deadflag'[k] = deadflag[k] /\ task'[k] = task[k]
    BY CleanupOthers DEF ScriptFailed, CInv, IInv, TypeOK
  <2> QED
    BY <1>1, <2>1, CleanupCalm DEF CInv
<1>3. Calm(m)
  BY <1>1, CleanupCalm DEF CInv
<1>4. \A t \in Scripts : target'[t] \in {None, target[t]}
  BY <1>1, CleanupTargets DEF CInv
<1>5. \A t \in Scripts : Here(t)' => Here(t) /\ delay'[t] = delay[t]
  BY DEF ScriptFailed, timing, Here
<1> QED
  BY <1>2, <1>3, <1>4, <1>5, CalmStep DEF ScriptFailed

LEMMA SequenceDoneCalm ==
  ASSUME CInv, IInv', NEW m \in Monsters, SequenceDone(m), Obeying(m),
         task[m] \in ScriptTasks
  PROVE  CInv'
<1>1. CineCleanup({m}) /\ {m} \in SUBSET Monsters
  BY DEF SequenceDone
<1>2. ASSUME NEW k \in Monsters \ {m}
      PROVE  Calm(k)
  <2>1. ideal'[k] = ideal[k] /\ state'[k] = state[k] /\ deadflag'[k] = deadflag[k]
    BY CleanupOthers DEF SequenceDone, CInv
  <2>2. task'[k] = task[k]
    BY DEF SequenceDone, CInv, IInv, TypeOK
  <2> QED
    BY <1>1, <2>1, <2>2, CleanupCalm DEF CInv
<1>3. Calm(m)
  BY <1>1, CleanupCalm DEF CInv
<1>4. \A t \in Scripts : target'[t] \in {None, target[t]}
  BY <1>1, CleanupTargets DEF CInv
<1>5. \A t \in Scripts : Here(t)' => Here(t) /\ delay'[t] = delay[t]
  <2>1. think[cine[m]] = "none"
    BY ObeyingHasScript DEF CInv
  <2> QED
    BY <2>1 DEF SequenceDone, timing, Here, CInv, IInv, TypeOK
<1> QED
  BY <1>2, <1>3, <1>4, <1>5, CalmStep DEF SequenceDone

LEMMA ProceedCalm ==
  ASSUME CInv, IInv', NEW m \in Monsters,
         \/ Proceed(m)
         \/ /\ Obeying(m) /\ task[m] = "wait" /\ task' = [task EXCEPT ![m] = "begun"]
            /\ UNCHANGED <<state, ideal, link, playing, health, timing, think, upset>>
  PROVE  CInv'
<1>1. /\ \A k \in Monsters \ {m} : task'[k] = task[k]
      /\ \/ task[m] = "walk" /\ task'[m] = "other"
         \/ task'[m] \in {"wait", "play", "begun"}
      /\ state[m] = "SCRIPT"
      /\ UNCHANGED <<state, ideal, cine, target, deadflag, delay, think, upset>>
  BY DEF Proceed, Obeying, link, health, timing, CInv, IInv, TypeOK
<1>2. \A k \in Monsters : Calm(k)
  BY <1>1 DEF Calm, IsAlive
<1> QED
  BY <1>1, <1>2, CalmStep DEF Here

LEMMA StartSequenceCalm ==
  ASSUME CInv, IInv', NEW m \in Monsters, StartSequence(m)
  PROVE  CInv'
  BY ProceedCalm, SequenceDoneCalm DEF StartSequence, ScriptTasks

LEMMA AloneCalm ==
  ASSUME CInv, IInv', NEW m \in Monsters,
         AnimEvent(m) \/ Die(m) \/ TakeDamage(m) \/ Grab(m) \/ Release(m)
  PROVE  CInv'
<1>1. UNCHANGED <<state, task, cine, target, delay, think, upset>>
  BY DEF AnimEvent, Die, TakeDamage, Grab, Release, mind, link, health, timing
<1>2. ASSUME NEW k \in Monsters
      PROVE  /\ ideal'[k] = ideal[k] \/ ideal'[k] # "SCRIPT"
             /\ IsAlive(k)' => IsAlive(k)
  <2>1. CASE AnimEvent(m) \/ Die(m)
    BY <2>1 DEF AnimEvent, Die, Obeying, Thinks, IsAlive, mind, CInv, IInv, TypeOK
  <2>2. CASE TakeDamage(m)
    BY <2>2 DEF TakeDamage, IsAlive, CInv, IInv, TypeOK
  <2>3. CASE Grab(m) \/ Release(m)
    BY <2>3 DEF Grab, Release, IsAlive, health, CInv, IInv, TypeOK
  <2> QED
    BY <2>1, <2>2, <2>3
<1>3. \A k \in Monsters : Calm(k)
  BY <1>1, <1>2 DEF Calm
<1> QED
  BY <1>1, <1>3, CalmStep DEF Here

LEMMA VanishCalm ==
  ASSUME CInv, IInv', NEW m \in Monsters, Vanish(m)
  PROVE  CInv'
<1>1. ASSUME NEW k \in Monsters
      PROVE  Calm(k)
  <2>1. CASE k = m
    BY <2>1 DEF Vanish, Calm, CInv, IInv, TypeOK
  <2>2. CASE k # m
    BY <2>2 DEF Vanish, CineAfter, Calm, IsAlive, CInv, IInv, TypeOK
  <2> QED
    BY <2>1, <2>2
<1>2. \A t \in Scripts : target'[t] \in {None, target[t]}
  BY DEF Vanish, TargetAfter
<1>3. \A t \in Scripts : Here(t)' => Here(t) /\ delay'[t] = delay[t]
  BY DEF Vanish, timing, Here
<1> QED
  BY <1>1, <1>2, <1>3, CalmStep DEF Vanish

LEMMA FollowCalm ==
  ASSUME CInv, IInv', NEW m \in Monsters, Follow(m)
  PROVE  CInv'
<1> DEFINE C == IF cine[m] = None THEN {} ELSE Cancelled(cine[m])
<1>1. C \in SUBSET Monsters
  BY DEF Cancelled
<1>2. cine[m] \in Classic /\ state[m] = "SCRIPT" => m \in C
  <2> SUFFICES ASSUME cine[m] \in Classic, state[m] = "SCRIPT"
               PROVE  m \in Cancelled(cine[m]) /\ cine[m] # None
    OBVIOUS
  <2>1. cine[m] \in Scripts /\ cine[m] # None /\ target[cine[m]] = m
        /\ think[cine[m]] = "none"
    BY ScriptsAssumption, NoneIsNone DEF CInv, IInv, Linked
  <2> QED
    BY <2>1 DEF Cancelled, Namesakes, Here
<1>3. /\ CineCleanup(C) /\ state' = StateAfter(C) /\ deadflag' = DeadAfter(C)
      /\ \E alert \in BOOLEAN :
           ideal' = [IdealAfter(C) EXCEPT ![m] = IF alert THEN "IDLE" ELSE @]
      /\ task' = [task EXCEPT ![m] = "none"]
      /\ UNCHANGED <<timing, think, upset>>
  BY DEF Follow
<1> HIDE DEF C
<1>4. ASSUME NEW k \in Monsters \ {m}
      PROVE  Calm(k)
  <2>1. task'[k] = task[k] /\ ideal'[k] = IdealAfter(C)[k]
    BY <1>1, <1>3, CleanupFacts DEF CInv, IInv, TypeOK
  <2> QED
    BY <1>1, <1>3, <2>1, CleanupOthers, CleanupCalm DEF CInv
<1>5. Calm(m)
  <2>1. CASE m \in C
    BY <1>1, <1>3, <2>1, CleanupCalm DEF CInv
  <2>2. CASE m \notin C
    <3>1. /\ cine'[m] = cine[m] /\ state'[m] = state[m] /\ deadflag'[m] = deadflag[m]
          /\ IdealAfter(C)[m] = ideal[m]
      BY <1>1, <1>3, <2>2, CleanupFacts, CleanupOthers DEF CineCleanup, CInv, IInv
    <3>2. ideal'[m] = ideal[m] \/ ideal'[m] = "IDLE"
      BY <1>1, <1>3, <3>1, CleanupFacts DEF CInv, IInv
    <3> QED
      BY <1>2, <2>2, <3>1, <3>2 DEF Calm, IsAlive
  <2> QED
    BY <2>1, <2>2
<1>6. \A t \in Scripts : target'[t] \in {None, target[t]}
  BY <1>1, <1>3, CleanupTargets DEF CInv
<1>7. \A t \in Scripts : Here(t)' => Here(t) /\ delay'[t] = delay[t]
  BY <1>3 DEF timing, Here
<1> QED
  BY <1>3, <1>4, <1>5, <1>6, <1>7, CalmStep

(* An arrival takes one off the count, and one walker from the name.       *)
LEMMA ArriveCounts ==
  ASSUME CInv, IInv', NEW m \in Monsters, Arrive(m)
  PROVE  CInv'
<1> DEFINE c == cine[m]
<1>1. /\ c \in Scripts /\ target[c] = m /\ think[c] = "none"
      /\ state[m] = "SCRIPT" /\ ideal[m] = "SCRIPT" /\ task[m] = "walk" /\ IsAlive(m)
  BY ObeyingHasScript DEF Arrive, Obeying, Thinks, ScriptTasks, CInv
<1>2. /\ task'[m] = "wait" /\ \A k \in Monsters \ {m} : task'[k] = task[k]
      /\ UNCHANGED <<state, ideal, cine, target, deadflag, think>>
  BY DEF Arrive, link, CInv, IInv, TypeOK
<1>3. \A k \in Monsters : Calm(k)
  BY <1>1, <1>2 DEF Calm, IsAlive
<1>4. Prompt'
  <2> SUFFICES ASSUME ~upset', NEW k \in Monsters, state'[k] = "SCRIPT",
                      ideal'[k] = "SCRIPT", cine'[k] \in Classic
               PROVE  task'[k] # "none" /\ (task'[k] = "walk" => Move[cine'[k]] = "walk")
    BY DEF Prompt
  <2> QED
    BY <1>2 DEF Arrive, CInv, Prompt
<1>5. ASSUME ~upset', NEW s \in Classic, Here(s)'
      PROVE  Cardinality(Walkers(s)') <= delay'[s]
  <2>1. ~upset /\ c \in Classic
    BY <1>5 DEF Arrive
  <2>2. s \in Scripts /\ Here(s) /\ Here(c) /\ delay[s] \in Int
    BY <1>1, <1>2, <1>5, ScriptsAssumption DEF Here, CInv, IInv, TypeOK
  <2>3. Cardinality(Walkers(s)) <= delay[s]
    BY <2>1, <2>2 DEF CInv, Counted
  <2>4. ASSUME NEW t \in Walkers(s)'
        PROVE  t \in Walkers(s) /\ t # c
    <3>1. /\ t \in Classic /\ Here(t) /\ Name[t] = Name[s] /\ OnItsWay(t)'
          /\ target'[t] = target[t]
      BY <1>2 DEF Walkers, Namesakes, Here
    <3>2. OnItsWay(t)
      BY <1>3, <3>1, CalmWalkers DEF CInv
    <3>3. t # c
      BY <1>1, <1>2, <3>1 DEF OnItsWay
    <3> QED
      BY <3>1, <3>2, <3>3 DEF Walkers, Namesakes
  <2>5. CASE Name[s] = Name[c]
    <3>1. c \in Walkers(s)
      <4>1. Move[c] = "walk" /\ m # None
        BY <1>1, <2>1, NoneIsNone DEF CInv, Prompt
      <4> QED
        BY <1>1, <2>1, <2>2, <2>5, <4>1 DEF Walkers, Namesakes, OnItsWay
    <3>2. Walkers(s)' \subseteq Walkers(s) \ {c}
      BY <2>4
    <3>3. /\ IsFiniteSet(Walkers(s) \ {c})
          /\ Cardinality(Walkers(s) \ {c}) = Cardinality(Walkers(s)) - 1
      BY <3>1, WalkersFinite, FS_RemoveElement
    <3>4. Cardinality(Walkers(s)') <= Cardinality(Walkers(s) \ {c})
      BY <3>2, <3>3, FS_Subset
    <3>5. Cardinality(Walkers(s)') \in Nat
      BY <3>2, <3>3, FS_Subset, FS_CardinalityType
    <3>6. delay'[s] = delay[s] - 1
      BY <1>5, <2>2, <2>5 DEF Arrive, DelayLess, Namesakes
    <3> QED
      BY <2>2, <2>3, <3>3, <3>4, <3>5, <3>6, WalkersFinite
  <2>6. CASE Name[s] # Name[c]
    <3>1. Walkers(s)' \subseteq Walkers(s)
      BY <2>4
    <3>2. Cardinality(Walkers(s)') <= Cardinality(Walkers(s)) /\ Cardinality(Walkers(s)') \in Nat
      BY <3>1, WalkersFinite, FS_Subset, FS_CardinalityType
    <3>3. delay'[s] = delay[s]
      BY <2>2, <2>6 DEF Arrive, DelayLess, Namesakes
    <3> QED
      BY <2>2, <2>3, <3>2, <3>3, WalkersFinite
  <2> QED
    BY <2>5, <2>6
<1>6. Counted'
  BY <1>5 DEF Counted
<1> QED
  BY <1>4, <1>6 DEF CInv

(* A possession that walks adds one to the count, and at most one walker.  *)
LEMMA PossessCounts ==
  ASSUME CInv, IInv', NEW s \in Scripts, NEW m \in Able(s), think[s] = "CineThink",
         Possess(s, m), think' = [think EXCEPT ![s] = "none"]
  PROVE  CInv'
<1>1. m \in Monsters /\ cine[m] = None /\ target[s] = None /\ Here(s)
  BY ScriptsAssumption DEF Able, CanPlaySequence, Here, CInv, IInv, Linked
<1>2. /\ \A k \in Monsters \ {m} :
           cine'[k] = cine[k] /\ ideal'[k] = ideal[k] /\ task'[k] = task[k]
      /\ cine'[m] = s /\ target'[s] = m
      /\ \A t \in Scripts \ {s} : target'[t] = target[t] /\ think'[t] = think[t]
      /\ UNCHANGED <<state, deadflag>>
  BY <1>1 DEF Possess, CInv, IInv, TypeOK
<1>3. ~upset' => ~upset /\ (state[m] # "SCRIPT" \/ s \notin Classic)
  BY DEF Possess
<1>4. ASSUME ~upset'
      PROVE  \A k \in Monsters \ {m} : Calm(k)
  BY <1>2 DEF Calm, IsAlive
<1>5. Prompt'
  <2> SUFFICES ASSUME ~upset', NEW k \in Monsters, state'[k] = "SCRIPT",
                      ideal'[k] = "SCRIPT", cine'[k] \in Classic
               PROVE  task'[k] # "none" /\ (task'[k] = "walk" => Move[cine'[k]] = "walk")
    BY DEF Prompt
  <2>1. k # m
    BY <1>2, <1>3
  <2> QED
    BY <1>2, <1>3, <2>1 DEF CInv, Prompt
<1>6. ASSUME ~upset', NEW r \in Classic, Here(r)'
      PROVE  Cardinality(Walkers(r)') <= delay'[r]
  <2>1. r \in Scripts /\ Here(r) /\ delay[r] \in Int
    BY <1>1, <1>2, <1>6, ScriptsAssumption DEF Here, CInv, IInv, TypeOK
  <2>2. Cardinality(Walkers(r)) <= delay[r]
    BY <1>3, <1>6, <2>1 DEF CInv, Counted
  <2>3. ASSUME NEW t \in Walkers(r)', t # s
        PROVE  t \in Walkers(r)
    <3>1. /\ t \in Classic /\ t \in Scripts /\ Name[t] = Name[r] /\ OnItsWay(t)'
          /\ target'[t] = target[t] /\ Here(t)
      BY <1>2, <2>3, ScriptsAssumption DEF Walkers, Namesakes, Here
    <3>2. target[t] \in Monsters /\ target[t] # m
      BY <1>1, <3>1, NoneIsNone DEF OnItsWay, CInv, IInv, TypeOK, Linked
    <3>3. OnItsWay(t)
      BY <1>2, <3>1, <3>2 DEF OnItsWay, IsAlive
    <3> QED
      BY <3>1, <3>3 DEF Walkers, Namesakes
  <2>4. CASE s \in Classic /\ Move[s] = "walk" /\ Name[r] = Name[s]
    <3>1. Walkers(r)' \subseteq Walkers(r) \cup {s}
      BY <2>3
    <3>2. /\ IsFiniteSet(Walkers(r) \cup {s})
          /\ Cardinality(Walkers(r) \cup {s}) <= Cardinality(Walkers(r)) + 1
          /\ Cardinality(Walkers(r) \cup {s}) \in Nat
      BY WalkersFinite, FS_AddElement, FS_CardinalityType
    <3>3. /\ Cardinality(Walkers(r)') <= Cardinality(Walkers(r) \cup {s})
          /\ Cardinality(Walkers(r)') \in Nat
      BY <3>1, <3>2, FS_Subset, FS_CardinalityType
    <3>4. delay'[r] = delay[r] + 1
      BY <2>1, <2>4 DEF Possess, DelayMore, Namesakes
    <3> QED
      BY <2>1, <2>2, <3>2, <3>3, <3>4, WalkersFinite
  <2>5. CASE ~(s \in Classic /\ Move[s] = "walk" /\ Name[r] = Name[s])
    <3>1. s \notin Walkers(r)'
      BY <2>5 DEF Walkers, Namesakes, OnItsWay
    <3>2. Walkers(r)' \subseteq Walkers(r)
      BY <2>3, <3>1
    <3>3. Cardinality(Walkers(r)') <= Cardinality(Walkers(r)) /\ Cardinality(Walkers(r)') \in Nat
      BY <3>2, WalkersFinite, FS_Subset, FS_CardinalityType
    <3>4. delay'[r] = delay[r]
      BY <2>1, <2>5 DEF Possess, DelayMore, Namesakes
    <3> QED
      BY <2>1, <2>2, <3>3, <3>4, WalkersFinite
  <2> QED
    BY <2>4, <2>5
<1>7. Counted'
  BY <1>6 DEF Counted
<1> QED
  BY <1>5, <1>7 DEF CInv

LEMMA InitCInv == ASSUME Init PROVE CInv
<1>1. \A s \in Classic : Walkers(s) = {} /\ delay[s] = 0
  BY ScriptsAssumption DEF Init, Walkers, Namesakes, OnItsWay
<1>2. Counted
  BY <1>1, FS_EmptySet DEF Counted
<1>3. Prompt
  BY DEF Init, Prompt
<1> QED
  BY <1>2, <1>3, InitIInv DEF CInv

LEMMA NextCInv == ASSUME CInv, [Next]_vars PROVE CInv'
<1>1. IInv'
  BY NextIInv DEF CInv
<1>2. CASE upset'
  BY <1>1, <1>2 DEF CInv, Counted, Prompt
<1>3. CASE ~upset'
  <2>1. ~upset
    BY <1>3 DEF Next, vars, Use, CineThink, Possess, Remove, Turn, ScriptFailed, Exit,
       TakeOn, Arrive, Proceed, StartSequence, SequenceDone, Finish, AnimEvent, Rouse,
       Die, TakeDamage, Vanish, Grab, Release, Follow, Restore
  <2>2. ASSUME NEW s \in Scripts, Use(s) \/ CineThink(s) \/ Remove(s)
        PROVE  CInv'
    <3>1. CASE CineThink(s)
      BY <1>1, <3>1, PossessCounts, CancelCalm DEF CineThink, timing
    <3> QED
      BY <1>1, <2>2, <3>1, UseCalm
  <2>3. ASSUME NEW m \in Monsters,
               Turn(m) \/ ScriptFailed(m) \/ Exit(m) \/ Arrive(m) \/ Proceed(m)
        PROVE  CInv'
    BY <1>1, <2>1, <2>3, TurnCalm, ScriptFailedCalm, ExitCalm, ArriveCounts, ProceedCalm
  <2>4. ASSUME NEW m \in Monsters, StartSequence(m) \/ Finish(m)
        PROVE  CInv'
    BY <1>1, <2>4, StartSequenceCalm, SequenceDoneCalm DEF Finish, ScriptTasks
  <2>5. ASSUME NEW m \in Monsters, AnimEvent(m) \/ Rouse(m) \/ Die(m) \/ TakeDamage(m)
        PROVE  CInv'
    BY <1>1, <2>5, AloneCalm, RouseCalm
  <2>6. ASSUME NEW m \in Monsters, Vanish(m) \/ Grab(m) \/ Release(m) \/ Follow(m)
        PROVE  CInv'
    BY <1>1, <2>6, AloneCalm, VanishCalm, FollowCalm
  <2>7. CASE \E L \in SUBSET Monsters : Restore(L)
    BY <1>3, <2>7 DEF Restore
  <2>8. CASE UNCHANGED vars
    <3>1. \A k \in Monsters : Calm(k)
      BY <2>8 DEF vars, mind, link, health, Calm, IsAlive
    <3> QED
      BY <1>1, <2>8, <3>1, CalmStep DEF vars, mind, link, timing, Here
  <2> QED
    BY <2>2, <2>3, <2>4, <2>5, <2>6, <2>7, <2>8 DEF Next
<1> QED
  BY <1>2, <1>3

(* Only TASK_WAIT_FOR_SCRIPT begins to play.                               *)
LEMMA OnlyWaitersBegin ==
  ASSUME IInv, [Next]_vars, NEW m \in Monsters, task[m] = "wait", task'[m] = "begun"
  PROVE  StartSequence(m)
<1>1. ASSUME NEW k \in Monsters, NEW C, NEW i, TakeOn(k, C, i)
      PROVE  FALSE
  BY <1>1 DEF TakeOn, NewTask, FirstTask, IInv, TypeOK
<1>2. ASSUME NEW s \in Scripts, Use(s) \/ CineThink(s) \/ Remove(s)
      PROVE  FALSE
  <2>1. Able(s) \subseteq Monsters
    BY ScriptsAssumption DEF Able
  <2> QED
    BY <1>2, <2>1 DEF Use, CineThink, Possess, NewTask, FirstTask, Remove, mind, IInv, TypeOK
<1>3. ASSUME NEW k \in Monsters, Turn(k) \/ Exit(k) \/ Rouse(k)
      PROVE  FALSE
  BY <1>1, <1>3 DEF Turn, Exit, Rouse
<1>4. ASSUME NEW k \in Monsters, ScriptFailed(k) \/ Arrive(k) \/ Proceed(k)
      PROVE  FALSE
  BY <1>4 DEF ScriptFailed, NewTask, Arrive, Proceed, IInv, TypeOK
<1>5. ASSUME NEW k \in Monsters, StartSequence(k) \/ Finish(k)
      PROVE  k = m /\ StartSequence(k)
  BY <1>5 DEF StartSequence, Finish, SequenceDone, IInv, TypeOK
<1>6. ASSUME NEW k \in Monsters,
             AnimEvent(k) \/ Die(k) \/ TakeDamage(k) \/ Grab(k) \/ Release(k)
      PROVE  FALSE
  BY <1>6 DEF AnimEvent, Die, TakeDamage, Grab, Release, mind
<1>7. ASSUME NEW k \in Monsters, Vanish(k) \/ Follow(k)
      PROVE  FALSE
  BY <1>7 DEF Vanish, Follow, IInv, TypeOK
<1>8. ASSUME NEW L, Restore(L) PROVE FALSE
  BY <1>8 DEF Restore
<1>9. ~UNCHANGED vars
  BY DEF vars, mind
<1> QED
  BY <1>2, <1>3, <1>4, <1>5, <1>6, <1>7, <1>8, <1>9 DEF Next

(* As long as nothing upsets the count, no monster of a name begins its    *)
(* sequence while another one is on its way.                               *)
THEOREM NobodyStartsAlone == Spec => StartTogether
<1>1. ASSUME CInv, [Next]_vars, NEW m \in Monsters, task[m] = "wait",
             task'[m] = "begun", cine[m] \in Classic, ~upset
      PROVE  \A t \in Namesakes(cine[m]) : ~OnItsWay(t)
  <2>1. StartSequence(m)
    BY <1>1, OnlyWaitersBegin DEF CInv
  <2>2. cine[m] \in Scripts /\ think[cine[m]] = "none"
    BY <1>1, <2>1, ObeyingHasScript DEF StartSequence, ScriptTasks, CInv
  <2>3. Cardinality(Walkers(cine[m])) <= delay[cine[m]] /\ delay[cine[m]] \in Int
    BY <1>1, <2>2 DEF CInv, Counted, Here, IInv, TypeOK
  <2>4. Cardinality(Walkers(cine[m])) = 0
    BY <2>1, <2>3, WalkersFinite DEF StartSequence
  <2>5. Walkers(cine[m]) = {}
    BY <2>4, WalkersFinite, FS_EmptySet
  <2> QED
    BY <2>5 DEF Walkers
<1>2. CInv /\ [Next]_vars =>
        [\A m \in Monsters :
           task[m] = "wait" /\ task'[m] = "begun" /\ cine[m] \in Classic /\ ~upset
             => \A t \in Namesakes(cine[m]) : ~OnItsWay(t)]_vars
  BY <1>1
<1>3. Spec => []CInv
  BY InitCInv, NextCInv, PTL DEF Spec
<1> QED
  BY <1>2, <1>3, PTL DEF Spec, StartTogether
==============================================================================
