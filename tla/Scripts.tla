------------------------------- MODULE Scripts -------------------------------
(***************************************************************************)
(* Scripted sequences: CCineMonster and CCineAI (scripted.cpp) and what    *)
(* CBaseMonster does with them (monsters.cpp, monsterstate.cpp,            *)
(* schedule.cpp, combat.cpp, talkmonster.cpp).                             *)
(*                                                                         *)
(* A script that is used looks for a monster and possesses it: it commands *)
(* the state SCRIPT, which the monster takes on in its next think, and the *)
(* tasks of the script go on from there.  Scripts of one name walk their   *)
(* monsters into place and wait for each other (m_iDelay); they are also   *)
(* cancelled together.  In between a monster may be hurt, killed, grabbed  *)
(* by a barnacle, led away by the player, saved and restored.              *)
(*                                                                         *)
(* What a monster plays, where it stands and how long it walks is left     *)
(* open.  A schedule is told by the task it is at.                         *)
(***************************************************************************)
EXTENDS Integers, FiniteSets

CONSTANTS
  Monsters,
  Scripts,
  None,          (* no monster or script                                   *)
  Name,          (* pev->targetname of each script                         *)
  Classic,       (* the scripted_sequences; others: aiscripted_sequence    *)
  Move,          (* m_fMoveTo: "no", "walk" (or run), "instant", "face"    *)
  Cast,          (* the monsters that m_iszEntity names                    *)
  Idles,         (* the scripts with an m_iszIdle                          *)
  Repeatable,    (* those with SF_SCRIPT_REPEATABLE                        *)
  Override,      (* those with SF_SCRIPT_OVERRIDESTATE                     *)
  Deadly,        (* those with SCRIPT_EVENT_DEAD in the animation          *)
  Followers,     (* the talking monsters, which follow the player          *)
  Prey,          (* the monsters within reach of a barnacle                *)
  Fighters,      (* the monsters that have enemies, and are damaged        *)
  MaxDelay       (* bound: a count above this or below -1 is not followed  *)

ASSUME ScriptsAssumption ==
  /\ None \notin Monsters \cup Scripts
  /\ Classic \subseteq Scripts /\ Idles \subseteq Scripts
  /\ Move \in [Scripts -> {"no", "walk", "instant", "face"}]
  /\ Cast \in [Scripts -> SUBSET Monsters]
  /\ IsFiniteSet(Scripts) /\ MaxDelay \in Nat

VARIABLES
  (* of each monster *)
  state,        (* m_MonsterState; "IDLE" stands for NONE and ALERT too,   *)
                (* all that a script looking for a name may take           *)
  ideal,        (* m_IdealMonsterState                                     *)
  cine,         (* m_pCine                                                 *)
  task,         (* the task of its schedule; "none": m_pSchedule is NULL   *)
  playing,      (* the monsters whose m_scriptState is SCRIPT_PLAYING      *)
  spent,        (* the monsters with no health left                        *)
  deadflag,     (* pev->deadflag; "gone" once the entity is removed        *)
  killed,       (* those with bits_MEMORY_KILLED                           *)
  (* of each script *)
  target,       (* m_hTargetEnt                                            *)
  delay,        (* m_iDelay                                                *)
  startTime,    (* m_startTime: "past", or "far" for 1E6 seconds from now  *)
  think,        (* the pending think function; "gone" once it is removed   *)
  (* history *)
  upset         (* a task of a script ran outside of its own walk          *)

mind    == <<state, ideal, task>>
link    == <<cine, target>>
health  == <<spent, deadflag, killed>>
timing  == <<delay, startTime>>
vars    == <<mind, link, playing, health, timing, think, upset>>

States      == {"IDLE", "COMBAT", "SCRIPT", "PRONE", "DEAD"}
ScriptTasks == {"walk", "face", "wait", "begun", "play"}

TypeOK ==
  /\ state \in [Monsters -> States] /\ ideal \in [Monsters -> States]
  /\ cine \in [Monsters -> Scripts \cup {None}]
  /\ task \in [Monsters -> ScriptTasks \cup {"none", "other", "die"}]
  /\ playing \subseteq Monsters /\ spent \subseteq Monsters
  /\ killed \subseteq Monsters
  /\ deadflag \in [Monsters -> {"NO", "DYING", "DEAD", "gone"}]
  /\ target \in [Scripts -> Monsters \cup {None}]
  /\ delay \in [Scripts -> -1 .. MaxDelay]
  /\ startTime \in [Scripts -> {"past", "far"}]
  /\ think \in [Scripts -> {"none", "CineThink", "SUB_Remove", "gone"}]
  /\ upset \in BOOLEAN

(* SCRIPT_PLAYING is 0, which is what m_scriptState starts with.  A script *)
(* with an idle looks for its monster one second after it has spawned.     *)
Init ==
  /\ state = [m \in Monsters |-> "IDLE"] /\ ideal = state
  /\ cine = [m \in Monsters |-> None]
  /\ task = [m \in Monsters |-> "none"]
  /\ playing = Monsters
  /\ spent = {} /\ killed = {}
  /\ deadflag = [m \in Monsters |-> "NO"]
  /\ target = [s \in Scripts |-> None]
  /\ delay = [s \in Scripts |-> 0]
  /\ startTime = [s \in Scripts |-> IF s \in Idles THEN "far" ELSE "past"]
  /\ think = [s \in Scripts |-> IF s \in Idles THEN "CineThink" ELSE "none"]
  /\ upset = FALSE

Here(s)    == think[s] # "gone"
IsAlive(m) == deadflag[m] \in {"NO", "DYING"}       \* CBaseMonster's own test
Namesakes(s) == {t \in Classic : Here(t) /\ Name[t] = Name[s]}

-----------------------------------------------------------------------------
(* Letting go of monsters *)

(* Mutant: a monster in good health is not told to be idle. *)
ReleasedAsWas(m) ==
  IF m \in spent \/ deadflag[m] = "DYING" THEN "DEAD" ELSE ideal[m]

(* CineCleanup for every monster of M.  One that died in its animation is  *)
(* a corpse at once; one without health is told to die.                    *)
Released(m) == IF m \in spent \/ deadflag[m] = "DYING" THEN "DEAD" ELSE "IDLE"
CineAfter(M)   == [m \in Monsters |-> IF m \in M THEN None ELSE cine[m]]
TargetAfter(M) ==
  [s \in Scripts |-> IF \E m \in M : cine[m] = s THEN None ELSE target[s]]
IdealAfter(M)  == [m \in Monsters |-> IF m \in M THEN Released(m) ELSE ideal[m]]
StateAfter(M)  ==
  [m \in Monsters |-> IF m \in M /\ deadflag[m] = "DYING" THEN "DEAD" ELSE state[m]]
DeadAfter(M)   ==
  [m \in Monsters |-> IF m \in M /\ deadflag[m] = "DYING" THEN "DEAD" ELSE deadflag[m]]
SpentAfter(M)  == spent \cup {m \in M : deadflag[m] = "DYING"}

CineCleanup(M) ==
  /\ cine' = CineAfter(M) /\ target' = TargetAfter(M) /\ spent' = SpentAfter(M)

(* CancelScript: whom the scripts named as s let go.  Those of an          *)
(* aiscripted_sequence are not among them (ScriptEntityCancel).            *)
Cancelled(s) ==
  {m \in Monsters : state[m] = "SCRIPT" /\ \E t \in Namesakes(s) : target[t] = m}

-----------------------------------------------------------------------------
(* CCineMonster and CCineAI *)

(* Mutant: only the script itself is told to wait. *)
DelaySelf(s) == delay' = [delay EXCEPT ![s] = @ + 1]

(* DelayStart(1): all scripted_sequences of the name wait for one more.    *)
DelayMore(s) ==
  delay' = [t \in Scripts |-> IF t \in Namesakes(s) THEN delay[t] + 1 ELSE delay[t]]
(* DelayStart(0) *)
DelayLess(s) ==
  /\ delay' = [t \in Scripts |-> IF t \in Namesakes(s) THEN delay[t] - 1 ELSE delay[t]]
  /\ startTime' = [t \in Scripts |->
       IF t \in Namesakes(s) /\ delay[t] <= 1 THEN "past" ELSE startTime[t]]

Use(s) ==
  /\ Here(s)
  /\ \/ /\ target[s] = None
        /\ think' = [think EXCEPT ![s] = "CineThink"]
        /\ UNCHANGED startTime
     \/ /\ target[s] # None /\ target[s] \notin playing
        /\ startTime' = [startTime EXCEPT ![s] = "past"]
        /\ UNCHANGED think
  /\ UNCHANGED <<mind, link, playing, health, delay, upset>>

(* Mutant: a monster may be possessed twice. *)
CanPlayTwice(m, disregard) ==
  /\ IsAlive(m) /\ state[m] # "PRONE"
  /\ disregard \/ state[m] = "IDLE" \/ ideal[m] = "IDLE"

CanPlaySequence(m, disregard) ==
  /\ cine[m] = None /\ IsAlive(m) /\ state[m] # "PRONE"
  /\ disregard \/ state[m] = "IDLE" \/ ideal[m] = "IDLE"

(* FindEntity; CCineAI overrides every state.                              *)
Able(s) == {m \in Cast[s] : CanPlaySequence(m, s \in Override \/ s \notin Classic)}

(* Mutant: every move has a schedule of its own. *)
FirstIsMove(s) == Move[s]

(* SCHED_AISCRIPT: the first task of its schedules that takes time.        *)
FirstTask(s) == IF Move[s] \in {"walk", "face"} THEN Move[s] ELSE "wait"

(* ChangeSchedule, which leaves TASK_DIE alone.                            *)
NewTask(m, t) == IF task[m] = "die" THEN "die" ELSE t

(* PossessEntity.  The move "face" is not in the switch of CCineMonster:   *)
(* m_scriptState stays what it was.  Only CCineAI changes the schedule of  *)
(* a monster that another script has let go in this very think.            *)
Possess(s, m) ==
  LET again == state[m] = "SCRIPT" /\ s \notin Classic
  IN  /\ cine' = [cine EXCEPT ![m] = s]
      /\ target' = [target EXCEPT ![s] = m]
      /\ ideal' = [ideal EXCEPT ![m] = "SCRIPT"]
      /\ playing' = IF s \in Classic /\ Move[s] = "face" THEN playing ELSE playing \ {m}
      /\ task' = [task EXCEPT ![m] = IF again THEN NewTask(m, FirstTask(s)) ELSE @]
      /\ startTime' = [startTime EXCEPT ![s] = IF Move[s] = "instant" THEN "far" ELSE @]
      /\ IF s \in Classic /\ Move[s] = "walk" THEN DelayMore(s) ELSE UNCHANGED delay
      /\ upset' = (upset \/ (state[m] = "SCRIPT" /\ ~again))
      /\ UNCHANGED <<state, spent, deadflag, killed>>

(* Without a monster all scripts of the name are cancelled, and it tries   *)
(* again in a second.                                                      *)
CineThink(s) ==
  /\ think[s] = "CineThink"
  /\ \/ \E m \in Able(s) :
          /\ \A t \in Namesakes(s) : delay[t] < MaxDelay     \* bound
          /\ Possess(s, m)
          /\ think' = [think EXCEPT ![s] = "none"]
     \/ /\ Able(s) = {}
        /\ CineCleanup(Cancelled(s))
        /\ ideal' = IdealAfter(Cancelled(s)) /\ state' = StateAfter(Cancelled(s))
        /\ deadflag' = DeadAfter(Cancelled(s))
        /\ playing' = playing \ Cancelled(s)
        /\ UNCHANGED <<task, killed, timing, think, upset>>

Remove(s) ==
  /\ think[s] = "SUB_Remove"
  /\ think' = [think EXCEPT ![s] = "gone"]
  /\ delay' = [delay EXCEPT ![s] = 0] /\ startTime' = [startTime EXCEPT ![s] = "past"]
  /\ UNCHANGED <<mind, link, playing, health, upset>>

-----------------------------------------------------------------------------
(* MonsterThink *)

Thinks(m)  == IsAlive(m)
Obeying(m) == Thinks(m) /\ state[m] = "SCRIPT" /\ ideal[m] = "SCRIPT"

(* MaintainSchedule takes on the state that is commanded, with a schedule  *)
(* for it, once the monsters of C are let go.                              *)
TakeOn(m, C, i) ==
  /\ CineCleanup(C)
  /\ state' = [StateAfter(C) EXCEPT ![m] = i]
  /\ ideal' = [IdealAfter(C) EXCEPT ![m] = i]
  /\ task' = [task EXCEPT ![m] = NewTask(m, CASE i = "SCRIPT" -> FirstTask(cine[m])
                                              [] i = "DEAD"   -> "die"
                                              [] OTHER        -> "other")]
  /\ deadflag' = [DeadAfter(C) EXCEPT ![m] = IF i = "DEAD" /\ task[m] # "die" THEN "DYING"
                                              ELSE @]
  /\ playing' = playing \ C
  /\ UNCHANGED <<killed, timing, think, upset>>

(* The schedule was cleared, has failed, or is one of another state.       *)
Turn(m) ==
  /\ Thinks(m)
  /\ task[m] = "none" \/ state[m] # ideal[m] \/ (state[m] = "SCRIPT" /\ task[m] = "other")
  /\ ideal[m] = "SCRIPT" => cine[m] # None
  /\ TakeOn(m, {}, ideal[m])

(* "Script failed": the state SCRIPT without a script.                     *)
ScriptFailed(m) ==
  /\ Thinks(m) /\ (task[m] = "none" \/ state[m] # "SCRIPT")
  /\ ideal[m] = "SCRIPT" /\ cine[m] = None
  /\ CineCleanup({m})
  /\ ideal' = IdealAfter({m})
  /\ state' = [state EXCEPT ![m] = IF deadflag[m] = "DYING" THEN "DEAD" ELSE "SCRIPT"]
  /\ deadflag' = DeadAfter({m})
  /\ task' = [task EXCEPT ![m] = NewTask(m, "other")]
  /\ UNCHANGED <<playing, killed, timing, think, upset>>

(* Damage interrupts a script (ExitScriptedSequence).  Whether there was   *)
(* any since the last think, and whether it is ignored (IgnoreConditions)  *)
(* is left open.  One that has died in its animation keeps the script; an  *)
(* aiscripted_sequence is not cancelled and starts anew.                   *)
Exit(m) ==
  /\ Thinks(m) /\ state[m] = "SCRIPT" /\ ideal[m] # "DEAD" /\ task[m] \in ScriptTasks
  /\ LET C == IF cine[m] = None THEN {} ELSE Cancelled(cine[m])
     IN  IF deadflag[m] = "DYING" THEN TakeOn(m, {}, "DEAD")
                                  ELSE TakeOn(m, C, IdealAfter(C)[m])

(* TASK_ENABLE_SCRIPT, when the monster has arrived                        *)
Arrive(m) ==
  /\ Obeying(m) /\ task[m] = "walk"
  /\ \A t \in Namesakes(cine[m]) : delay[t] >= 0     \* bound
  /\ DelayLess(cine[m])
  /\ task' = [task EXCEPT ![m] = "wait"]
  /\ upset' = (upset \/ cine[m] \notin Classic)
  /\ UNCHANGED <<state, ideal, link, playing, spent, deadflag, killed, think>>

(* The tasks that concern the monster alone: the walk fails (SCHED_FAIL),  *)
(* it has turned its face, TASK_PLAY_SCRIPT starts.                        *)
Proceed(m) ==
  /\ Obeying(m)
  /\ \E next \in {<<"walk", "other">>, <<"face", "wait">>, <<"begun", "play">>} :
       /\ task[m] = next[1]
       /\ task' = [task EXCEPT ![m] = next[2]]
       /\ playing' = IF next[2] = "play" THEN playing \cup {m} ELSE playing
  /\ UNCHANGED <<state, ideal, link, spent, deadflag, killed, timing, think, upset>>

(* SequenceDone, with FixScriptMonsterSchedule, which drops the schedule   *)
(* or, for an aiscripted_sequence, may pick an ambush.  That its targets   *)
(* are used, scripts among them, is no more than a Use that follows.       *)
SequenceDone(m) ==
  LET s == cine[m]
  IN  /\ think' = [think EXCEPT ![s] = IF s \in Repeatable THEN @ ELSE "SUB_Remove"]
      /\ CineCleanup({m})
      /\ ideal' = IdealAfter({m}) /\ state' = StateAfter({m})
      /\ deadflag' = DeadAfter({m})
      /\ \E t \in IF s \in Classic THEN {"none"} ELSE {"none", "other"} :
           task' = [task EXCEPT ![m] = t]
      /\ UNCHANGED <<playing, killed, timing, upset>>

(* TASK_WAIT_FOR_SCRIPT: StartSequence, which is done at once when there   *)
(* is nothing to play.                                                     *)
StartSequence(m) ==
  /\ Obeying(m) /\ task[m] = "wait"
  /\ delay[cine[m]] <= 0 /\ startTime[cine[m]] = "past"
  /\ \/ /\ task' = [task EXCEPT ![m] = "begun"]
        /\ UNCHANGED <<state, ideal, link, playing, health, timing, think, upset>>
     \/ SequenceDone(m)

Finish(m) == Obeying(m) /\ task[m] = "play" /\ SequenceDone(m)

(* SCRIPT_EVENT_DEAD and SCRIPT_EVENT_NOT_DEAD in an animation             *)
AnimEvent(m) ==
  /\ Obeying(m) /\ cine[m] \in Deadly /\ task[m] \in {"wait", "begun", "play"}
  /\ \/ deadflag' = [deadflag EXCEPT ![m] = "DYING"] /\ spent' = spent \cup {m}
     \/ deadflag' = [deadflag EXCEPT ![m] = "NO"] /\ spent' = spent \ {m}
  /\ UNCHANGED <<mind, link, playing, killed, timing, think, upset>>

(* A monster on its own makes enemies and forgets them.                    *)
Rouse(m) ==
  /\ m \in Fighters /\ Thinks(m) /\ task[m] = "other" /\ state[m] = ideal[m]
  /\ state[m] \in {"IDLE", "COMBAT"}
  /\ \E i \in {"IDLE", "COMBAT"} \ {state[m]} : TakeOn(m, {}, i)

(* TASK_DIE ends.                                                          *)
Die(m) ==
  /\ Thinks(m) /\ task[m] = "die" /\ state[m] = ideal[m]
  /\ deadflag' = [deadflag EXCEPT ![m] = "DEAD"]
  /\ UNCHANGED <<mind, link, playing, spent, killed, timing, think, upset>>

-----------------------------------------------------------------------------
(* What happens to a monster *)

(* TakeDamage.  "Don't kill monsters in a script": their state tells.      *)
(* Killed sets half of the health back (BecomeDead), or gibs.              *)
TakeDamage(m) ==
  /\ m \in Fighters /\ IsAlive(m)
  /\ \/ /\ state[m] = "SCRIPT"
        /\ spent' = spent \cup {m}
        /\ UNCHANGED <<ideal, deadflag, killed>>
     \/ /\ state[m] # "SCRIPT" /\ m \notin killed
        /\ killed' = killed \cup {m}
        /\ ideal' = [ideal EXCEPT ![m] = "DEAD"]
        /\ \/ deadflag' = [deadflag EXCEPT ![m] = "DEAD"] /\ spent' = spent \cup {m}
           \/ UNCHANGED deadflag /\ spent' = spent \ {m}
     \/ /\ state[m] # "SCRIPT" /\ m \in killed
        /\ spent' = spent \cup {m}
        /\ \/ deadflag' = [deadflag EXCEPT ![m] = "DEAD"]
           \/ UNCHANGED deadflag
        /\ UNCHANGED <<ideal, killed>>
  /\ UNCHANGED <<state, task, link, playing, timing, think, upset>>

(* The corpse is removed: handles to it are NULL from now on, and nothing  *)
(* of what it was is left.                                                 *)
Vanish(m) ==
  /\ deadflag[m] = "DEAD"
  /\ deadflag' = [deadflag EXCEPT ![m] = "gone"]
  /\ cine' = CineAfter({m}) /\ target' = TargetAfter({m})
  /\ state' = [state EXCEPT ![m] = "DEAD"] /\ ideal' = [ideal EXCEPT ![m] = "DEAD"]
  /\ task' = [task EXCEPT ![m] = "none"]
  /\ playing' = playing \ {m} /\ spent' = spent \ {m} /\ killed' = killed \ {m}
  /\ UNCHANGED <<timing, think, upset>>

(* FBecomeProne, BarnacleVictimReleased                                    *)
Grab(m) ==
  /\ m \in Prey /\ IsAlive(m) /\ ideal[m] # "PRONE"
  /\ ideal' = [ideal EXCEPT ![m] = "PRONE"]
  /\ UNCHANGED <<state, task, link, playing, health, timing, think, upset>>
Release(m) ==
  /\ IsAlive(m) /\ "PRONE" \in {state[m], ideal[m]}
  /\ ideal' = [ideal EXCEPT ![m] = "IDLE"]
  /\ UNCHANGED <<state, task, link, playing, health, timing, think, upset>>

(* StartFollowing, when CanFollow.  One that was let go in this very think *)
(* has no script left to ask (CanFollow dereferences NULL then): it is not *)
(* used here before it has thought.  A monster with an enemy goes ALERT.   *)
Follow(m) ==
  /\ m \in Followers \ killed /\ IsAlive(m)
  /\ state[m] = "SCRIPT" => cine[m] # None /\ deadflag[m] = "NO"
  /\ LET C == IF cine[m] = None THEN {} ELSE Cancelled(cine[m])
     IN  /\ CineCleanup(C)
         /\ \E alert \in BOOLEAN :
              ideal' = [IdealAfter(C) EXCEPT ![m] = IF alert THEN "IDLE" ELSE @]
         /\ state' = StateAfter(C) /\ deadflag' = DeadAfter(C)
         /\ playing' = playing \ C
  /\ task' = [task EXCEPT ![m] = "none"]
  /\ UNCHANGED <<killed, timing, think, upset>>

(* CBaseMonster::Restore: schedules are not saved.  The monsters of L have *)
(* been to another level, where their scripts do not follow them.          *)
Restore(L) ==
  /\ task' = [m \in Monsters |-> "none"]
  /\ cine' = CineAfter(L) /\ target' = TargetAfter(L)
  /\ upset' = TRUE
  /\ UNCHANGED <<state, ideal, playing, spent, deadflag, killed, timing, think>>

-----------------------------------------------------------------------------
Next ==
  \/ \E s \in Scripts : Use(s) \/ CineThink(s) \/ Remove(s)
  \/ \E m \in Monsters :
       \/ Turn(m) \/ ScriptFailed(m) \/ Exit(m)
       \/ Arrive(m) \/ Proceed(m) \/ StartSequence(m) \/ Finish(m)
       \/ AnimEvent(m) \/ Rouse(m) \/ Die(m)
       \/ TakeDamage(m) \/ Vanish(m) \/ Grab(m) \/ Release(m) \/ Follow(m)
  \/ \E L \in SUBSET Monsters : Restore(L)

Spec == Init /\ [][Next]_vars

-----------------------------------------------------------------------------
(* A script and its monster agree on each other, whoever is cancelled,     *)
(* interrupted, killed or removed meanwhile: no script has two monsters,   *)
(* and no monster keeps a script that has been removed (m_pCine is a plain *)
(* pointer, and nothing tells it).                                         *)
PossessionIsMutual ==
  /\ \A m \in Monsters, s \in Scripts : cine[m] = s <=> target[s] = m
  /\ \A m \in Monsters : cine[m] # None => Here(cine[m])

(* The tasks of a script use m_pCine without a test: a monster that would  *)
(* run one in its next think has a script.                                 *)
ScriptTasksHaveScript ==
  \A m \in Monsters :
    Obeying(m) /\ task[m] \in ScriptTasks => cine[m] # None

(* The monsters of one scripted_sequence name start together: none begins  *)
(* while another of them is still on its way.  A game that was restored, a *)
(* monster possessed again before it has dropped the schedule of the last  *)
(* script, and an aiscripted_sequence that walks under the same name upset *)
(* the count (see upset).                                                  *)
OnItsWay(t) ==
  LET m == target[t]
  IN  /\ t \in Classic /\ Move[t] = "walk" /\ m # None
      /\ ideal[m] = "SCRIPT" /\ IsAlive(m)
      /\ state[m] # "SCRIPT" \/ task[m] \in {"walk", "other"}
StartTogether ==
  [][\A m \in Monsters :
       task[m] = "wait" /\ task'[m] = "begun" /\ cine[m] \in Classic /\ ~upset
         => \A t \in Namesakes(cine[m]) : ~OnItsWay(t)]_vars
=============================================================================
