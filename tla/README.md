# Half-Life Extended in TLA+

Half-Life Extended is a single-player and multiplayer modification of Half-Life and Opposing
Force: a game library (`src/source-code/dlls`) that the GoldSrc engine calls back, a client library
(`cl_dll`), code shared by both (`pm_shared`, `game_shared`, `common`) and offline tools (`utils`).
This directory models the parts of the game library whose state is shared by many callbacks, checks
them with TLC and proves what matters most with TLAPS.

All paths below are relative to `src/source-code`.

- [The program](#the-program): how it runs, and what is hard about it
- [Inventory](#inventory): components, their state, operations and interactions
- [Modules](#modules): how state and actions correspond to the code
- [Runs](#runs): what is checked, in which instances, and what the code does differently from what it says
- [Proofs](#proofs): what holds for every value of the constants, and why
- [Limits](#limits): what is only model-checked, and what is not modelled
- [Plan](#plan): what comes next

## The program

The engine is single-threaded and calls the game library: once per frame `StartFrame`
(`g_pGameRules->Think`), then the *think* function of every entity whose `nextthink` has come, the
*touch* function of entities that meet, and the handlers of clients that connect, enter, send a
command or leave. Think and touch functions are member pointers which the handlers rewire: the
callback an entity has next *is* its control state. There is no preemption, so every handler is one
step. What is concurrent is the order: any client may do anything between two thinks, an entity may be
removed or a client leave between the handler that records it and the one that uses the record, and a
level may end at any time. Almost every fact is recorded at both ends (a flag knows its owner, the player
its flag; a leader knows its followers, they know the leader; a script knows its monster, the monster its
script), and every handler has to keep both ends. This is what unit tests, of which the code has none, would hardly reach, and what
the models are about.

Recurring abstractions, the same in all modules:

- **Time.** A pending think may run at any later moment. Where a duration decides what happens (the
  intermission, the slices of the statistics) it is a clock.
- **Space.** Who meets whom, who sees whom and where entities lie is nondeterministic.
- **Clients.** A slot is empty, connecting, observing, alive, dead or left. A client that left keeps its
  edict, as in the engine, so loops over `UTIL_PlayerByIndex` still meet it. After `g_fGameOver` the
  rules are not told of a disconnect any more (`ClientDisconnect` in `client.cpp` returns early).
- **Output.** Logging, sounds, sprites and most messages are left out; messages whose content is
  state on a client that a property is about (`TeamInfo`, `SetMenuTeam`) are modelled as
  what the client last heard.

## Inventory

What each component keeps, does and depends on, and what makes it correct. The status of each is in
`PROJECT.json`.

| component (files) | state | operations | interacts with | what is hard, and what must hold |
|---|---|---|---|---|
| **CTF flags** (`dlls/ctf/CTFGoalFlag.cpp`) | `m_iGoalState`, `pev->owner`, touch, think, solidity, base skin; `m_pFlag`, `m_iItems` of players | touch (take, capture, rescue), carry, drop and return thinks | rules (death, connect, disconnect, team), displacer, score | four records of one possession changed by nine handlers; carriers alive and enemies; no flag stuck anywhere; a capture is earned |
| **CTF points and limits** (`CTFGoalFlag.cpp`, `ctfplay_gamerules.cpp`) | `teamscores`, each player's total, offense, defense, captures; return time for assists | points in flag touches, kills, rescues; resets on connect, enter, spectate; capture limit in `Think` | flags, end of the match | counters cleared at different moments; team scores follow the flags |
| **CTF items** (`dlls/ctf/CItem*.cpp`) | owner, touch and think of each item; one bit per class in `m_iItems` | touch, carry/drop/respawn thinks, `dropitem`, scattering | rules (the same handlers as for flags) | handlers find an item by class, not by owner: with two of a class they may take the wrong one; every bit backed, every lost item back |
| **CTF teams and menus** (`player.cpp`, `client.cpp`, `ctfplay_gamerules.cpp`) | `m_iTeamNum`, `m_iNewTeamNum`, `m_iCurrentMenu`, what clients were told | `jointeam`, `selectchar`, `spectate`, `changeclass`, `InitHUD`, spawn and respawn | flags and items through `ChangePlayerTeam` | commands in any order, in any menu, before the HUD is initialised and while the player is dead |
| **End of a match** (`ctfplay_gamerules.cpp`, `multiplay_gamerules.cpp`, `maprules.cpp`) | `g_fGameOver`, intermission clocks, `m_iStatsPhase`, `m_iStatsPlayer` | limits, `game_end`, buttons, slices of statistics | map cycle | a second end while the first is under way; overlapping slices; the intermission ends |
| **Map cycle** (`multiplay_gamerules.cpp`) | circular list with limits, `next_item` | `ChangeLevel`, another `mapcyclefile` | end of a match | walk one short of a circle; a map without limits recurs |
| **Squads** (`squadmonster.cpp`, `COFSquadTalkMonster.cpp`) | `m_hSquadLeader`, `m_hSquadMember`, `m_afSquadSlots`, `m_iMySlot`, `m_hEnemy` | recruit, occupy and vacate slots, tell enemies, die | schedules, monster makers, save/restore, `killtarget` | both ends of the leader/follower record, slots held once, under deaths, removals and restores in any order |
| **Sound list** (`soundent.cpp`, listeners in `monsters.cpp`) | two linked lists in one pool, a reserved entry per client, a third link shared by all listeners | insert, expire, free; listen, ask for the best sound | monsters' thinks, players who die or leave, loaded games | a second link that nobody unlinks, lists read late; the lists stay apart and end, nothing drops out of the pool, every walk ends |
| **Scripted sequences** (`scripted.cpp`; `monsters.cpp`, `schedule.cpp`, `monsterstate.cpp`) | script: target, `m_iDelay`, start time, think; monster: state, ideal state, `m_pCine`, schedule | use, find and possess, walk, wait for the others, play, finish, cancel | damage, death, barnacles, the player leading a monster away, save and restore | a command takes effect one think later, anything may happen in between; possession mutual, no script task without a script, namesakes start together |
| **Doors, buttons, multisources** (`doors.cpp`, `buttons.cpp`, `subs.cpp`) | toggle state, touch, think; inputs of each multisource; pending delayed uses | use, touch, damage, blocked; go, arrive, wait, come back | each other, through targets and masters | inputs that are only ever flipped must tell where the movers are; locked doors wait for all; everything comes back |
| Schedules and AI states (`schedule.cpp`, `monsterstate.cpp`, `defaultai.cpp`) | schedule, task index and status, conditions, ideal state | `MaintainSchedule`, `ChangeSchedule`, interrupts | squads, scripts | failed schedules, interrupts between tasks; modelled for scripts, and as the caller of the squad slots |
| Player life cycle (`player.cpp`, `client.cpp`) | life, observer mode, inventory, train, tank | connect, spawn, die, respawn, use | everything | modelled where CTF and sounds depend on it |
| Talking monsters (`talkmonster.cpp`) | follow target, shared talk timer | follow, stop, die | scripts, squads (allied), players | following cancels a script (in `Scripts`); the talk is not modelled |
| Triggers and global state (`triggers.cpp`, `world.cpp`) | `multi_manager` index and clones, global states | use, think, level change | everything with a target | multisources and delayed uses are in `Mechanisms`; the rest is not modelled |
| Save and restore (`saverestore.h`, `util.cpp`) | which fields are saved | save, restore, change of level | squads, scripts, sounds | state that is not saved while its other record is: in `Squads`, `Scripts` and `SoundList` |
| Multiplayer, teamplay, cooperative rules (`*_gamerules.cpp`) | frag limits, teams by name, respawn times | respawn of items and weapons | players | intermission and map cycle only |
| Monster makers (`monstermaker.cpp`) | children left, living children | make, child's death | squads, triggers | a child removed without dying is never counted back; only as a source of late monsters |
| Tanks (`func_tank.cpp`), voice (`voice_gamemgr.cpp`) | controller; masks | start/stop control; mask updates | players who leave | not modelled |
| Node graph, weapons, single monsters, movement, client library, save format, tools, vendored code | | | | not modelled, see [Limits](#limits) |

The hazards found while reading, each at its line, are in `PROJECT.json`. They fall into a few
groups: *one fact in several records* (flags, items, squads, scripts and their monsters), *a record that outlives its entity*
(slots of clients that left, followers of dead leaders, corpses in a squad, a slot held by a monster that was removed or that took another, sounds that were freed while a monster keeps them in its list),
*a choice tested in one command and used in another* (team menus), *a command that takes effect one think later* (scripts), *a record that is only ever flipped* (multisources), *loops one short* (statistics,
map cycle), *thinks that must re-arm themselves* (flags, items, statistics, doors and buttons) and *state that is not saved* (squad slots, schedules, lists of sounds).

## Modules

| module | models | kind |
|---|---|---|
| `FlagPossession` | what the flags promise: base, ground or one holder who is in the match | abstract specification |
| `CTFFlag` | the flags with their callbacks and every handler that moves them | component |
| `CTFFlag_proofs` | safety of `CTFFlag` and `CTFScore`; they implement `FlagPossession` | proofs |
| `CTFScore` | extends `CTFFlag`: the points its handlers award and the capture limit | composition |
| `CTFItems` | the powerups and the handlers that take them away | component |
| `CTFItems_proofs` | safety of `CTFItems` | proofs |
| `CTFTeams` | menus, change of team, what clients are told | component |
| `CTFTeams_proofs` | safety of `CTFTeams` | proofs |
| `CTFMatch` | limits, intermission, statistics | component |
| `MapCycle` | which map comes next | component |
| `MatchEnd_proofs` | safety of `CTFMatch` and `MapCycle` | proofs |
| `Squads` | recruiting, slots, death, removal, restore | component |
| `Squads_proofs` | safety of `Squads` | proofs |
| `SoundPool` | what the pool of sounds promises: slots that are free, active or lost | abstract specification |
| `SoundList` | the pool of sounds and the monsters that listen | component |
| `SoundList_proofs` | the lists stay apart, end, and lose nothing: they implement `SoundPool`; what was heard is found | proofs |
| `Scripts` | scripted sequences and the monsters they possess | component |
| `Scripts_proofs` | safety of `Scripts` | proofs |
| `Mechanisms` | buttons, doors and the multisources between them | composition of three classes |
| `Mechanisms_proofs` | safety of `Mechanisms` | proofs |
| `MC*` | instances for TLC: symmetry and structured constants | |

`PROJECT.json` maps every definition to its lines. A definition whose comment begins with "Mutant"
is a plausible bug in the definition below it; it belongs to no specification and shows that a
property notices the bug.

### CTFFlag and FlagPossession

One record per flag (`goalState`, `owner`, `touchable`, `trigger`, `think`, and the `skin` of its
base) and per client slot (`life`, `team`, `pFlag`, `items`). Actions are `goal_item_touch`, split by
its branches into `TakeFlag`, `CaptureFlag` and `RescueFlag`; the thinks `FlagCarryThink`,
`goal_item_dropthink`, `DroppedTooLong` (the return it schedules) and `ReturnFlagThink`; and the
handlers `ClientConnect`, `ClientPutInServer`, `ClientDisconnect`, `JoinTeam`, `Spectate`,
`PlayerKilled`, `Respawn`, `Displaced` (the displacer) and `GoToIntermission`. `DropFlag` and
`ReturnFlags` are the two helpers all of them use, with everything the C++ helpers rewire. `ClientConnect`
contains the reset of a match in which at most one player is in a team.

The module takes it that the HUD of a client is initialised before it joins a team; the other order is what `CTFTeams` is about.

`FlagPossession` knows one place per flag. `CTFFlag` implements it with `holder` read off
`m_iGoalState` and `pev->owner`, and its fairness (a flag on the ground is eventually moved) off the
fairness of the thinks. Once the match is over the program promises nothing: the rules are no longer
told who leaves.

### CTFScore

Each action is an action of `CTFFlag` conjoined with the points it awards, so every score change
happens together with the flag step that causes it. `ScoreFlagTouch` reproduces the block of
`CTFGoalFlag.cpp:303-501` including what distinguishes the two flags. `LevelEnd` is the test of the capture limit that ends
`Think`. The bounds `MaxPoints` (points of all players), `MaxEach` (of one) and `MaxCaptures` are
guards of the scoring actions (`WithinBounds`).

### CTFItems

Items in the order `UTIL_FindEntityByClassname` finds them, each with class, team, owner, touch and
think; players with one bit per class. `ScatterPowerups` is `ForEachPlayerCTFPowerup`: it takes the first item of the
class that is for the player's team, whoever owns it. `CarryThink` notices an owner that lost the bit.
`info_ctfspawn_powerup` is linked under another class name, so the respawn points of that name do not exist and an item returns where it
was; the model does the same. Left out: the effects, the suit test, items falling out of the world.

### CTFTeams

Menus as the server believes them to be open, the team chosen in the first menu (`newTeam`), what
was shown to the client (`shown`), the HUD handshake (`init`) and what each client was last told of
each other (`told`). A client may send any command in any menu, as the console allows.
`SpawnAsObserver` is the end of `CBasePlayer::Spawn` for a player without a team (`player.cpp:3214`). It runs for a new client
(`ClientPutInServer`) and, after a death, for a player whom `InitHUD` took out of the team while it played (`Respawn`): that player becomes an
observer, with the menu of the classes open if its choice was withdrawn, and otherwise with `MENU_DEFAULT`, which shows nothing and from which
`ResetMenu` goes on to the teams. A spawn with a team changes nothing here. That a player is dead is not recorded: the dead are `"playing"`,
any of them may be dead and respawn, and dying itself changes none of these variables.

### CTFMatch

`IntermissionThink` is `Think` after `g_fGameOver`: it sends a slice when `m_flNextStatsSend` has come
and, after the shortest duration, changes level once a button was hit or the longest duration has passed. Time is in ticks of
0.2 s, with the two deadlines as clocks that saturate. `due` and `sent` are history variables: who was
there when the sending began, and whose statistics were sent.

### MapCycle

The list as a function from positions to limits; `Chosen` is the loop of `ChangeLevel`, with its
`found` and `keeplooking` flags and its end one short of the circle. `players` may be any number
whenever a level ends: `CountPlayers` also counts the edicts of clients who left.

### Squads

`leader`, `members`, `taken` and `slot` are the four records of a squad, `enemy` what a member fights.
`StartMonster` contains `SquadRecruit`; `NewSchedule` is `MaintainSchedule` picking a schedule, with
`VacateSlot`, `SquadMakeEnemy` and `OccupySlot` in the order of the code; `Killed` and `ShootCorpse`
contain `TakeDamage`'s alarm; `RemoveMonster` is `UTIL_Remove` by `killtarget` or fading, after which every `EHANDLE`
to the monster reads null; `SetSchedule` is the task that ends the tossing of a grenade (`TASK_SET_SCHEDULE`, `schedule.cpp:687`);
`Restore` is loading a saved game, where `m_afSquadSlots` is not among the
saved fields. Four details of the code that one might not expect, all modelled: `SquadRemove` of a
follower searches the list for the leader and so leaves the follower on the list; a monster
killed before its first think executes `StartMonster` as a corpse and may lead; the argument
`maxMembers` only matters when it is less than 2, and the list bounds the squad; and `TASK_SET_SCHEDULE`
changes the schedule without `ScheduleChange`, so that a soldier whose enemy went out of sight while it
tossed a grenade (`hgrunt.cpp:2005`, `2706`) may take a second slot and never give back the first. `spoilt` is a history
variable: the leaders of squads into which a slot was carried from outside (an older squad, a
saved game), from which a member disappeared with one, or in which a member took a second one. Their squads are left out of `SlotsAreBacked`, because there the
code gives no guarantee; all others are in. `COFSquadTalkMonster` repeats the code line by line and is
not modelled a second time.

### SoundList and SoundPool

The pool as three functions on its indices (`next`, `nextAudible`, `over`) and the heads of its lists;
`ActiveList` and `FreeList` are what the heads reach. `Initialize` is `Init` (and part of `LoadGame`), which takes the first
`maxClients` entries for the players; `InsertSound` contains `IAllocSound`; `Think` and `ThinkStep` are the walk of
`CSoundEnt::Think` with `FreeSound` inside it; `Reset` is what the death or departure of a player does to
his entry. `Listen` and `ListenStep` are `CBaseMonster::Listen`, `ChooseStep` the loop of `PBestSound`, which a monster enters
after it listened or, out of sight and without an enemy, with a list from an earlier think (`Recall`). A loop runs to its end before anything else happens; its
steps are steps of the model so that a loop that does not end is a behaviour that can be found. Two conditions are told
apart: `hears` is `bits_COND_HEAR_SOUND`, which survives a saved game if there is an enemy, and `listened`
says that `m_iAudibleList` was written since. `Wary` adds the one path on which a loaded monster asks before it has
listened (it saw its enemy in a schedule that cannot be interrupted, so that it has one but is not yet in combat).
`m_iAudibleList` is then 0, the index of an entry, and all links are 0 too: with `Wary` TRUE the walk goes round entry 0 for ever and
`WalksEnd` is violated. The run has it FALSE, because it hangs on what single monsters do in such schedules, which is not modelled.

`SoundPool` knows no links: a set of free slots, one of active slots, one of those whose time has passed. `SoundList` implements it with `free` and `active`
read off the heads and links, and `reserved` the entries of the clients.

### Scripts

Of each monster its state, ideal state, script and the task it is at; of each script its monster, the count `m_iDelay`,
start time and think. `Use` and `CineThink` are the script's, with `FindEntity` as `Able` and `PossessEntity` as `Possess`; `Turn` is
`MaintainSchedule` taking on the state that was commanded; `Arrive`, `StartSequence`, `Finish` are the tasks `TASK_ENABLE_SCRIPT`,
`TASK_WAIT_FOR_SCRIPT` and `TASK_PLAY_SCRIPT`; `SequenceDone` contains `FixScriptMonsterSchedule` and
`CineCleanup`; `Exit` is an interrupt by damage (`ExitScriptedSequence`); `Follow` is a player leading the
monster away, `Grab` and `Release` a barnacle; `ScriptFailed` the monster that finds itself commanded without a script; `Restore` a
saved game or a change of level, in which schedules are lost and monsters may come without their scripts. `CancelScript` is
`Cancelled`: all monsters that the *scripted_sequences* of a name have in the state SCRIPT, wherever it is called.

`upset` is a history variable for `StartTogether`: a walk that the count does not know of. It is set when a game is restored (the
walk starts over and counts down twice), when a monster is possessed again before it has dropped the schedule of its last script, and when an
`aiscripted_sequence` walks, which counts down (`schedule.cpp:1328`) without having counted up. In all other behaviours the property holds.

`MaxDelay` bounds how often a count may leak upwards (see [below](#what-the-code-does-differently-from-what-it-says)).

### Mechanisms

One state per mover (`toggle`, `think`, `touch`), the inputs of each multisource that are on, and the delayed uses that are
pending. The wiring is constant: which multisource or doors a mover targets, which doors a multisource opens, which multisource is whose
master. `Arrive` is what all movers have in common when they reach an end: the new state, the next think, and `SUB_UseTargets`, through which
inputs flip and doors start in the same step; `Started` and `DoorActivate` are what a use does to a door; `DelayedUse` entities fire in
`FireDelayed` under a name no multisource knows, which makes `CMultiSource::Use` flip its last input. `Blocked` reverses a door and its
namesakes. `reversed` is a history variable: doors that did not make their way undisturbed.

The assumptions on the wiring say what a map has to satisfy for the properties: inputs are the movers that target the source
(`Register`), and a door with a target has no namesakes.

## Runs

Distinct states are those of the complete state graph, or those found up to the violation.

| run | instance | states | shows |
|---|---|---|---|
| `flag` | 2 slots | 22,242 | the four records agree, carriers fight, callbacks fit, captures are earned; no flag stays on the ground, vanished, or with an owner who lost it; `FlagPossession` is implemented |
| `score` | 2 slots, at most 3 points in all, 2 per player, 1 capture per team | 2,049,485 | counters of a player fit together; team scores follow the flags |
| `items` | 2 players; 3 items, two of one class, one of these for one team | 128,646 | bits backed by items, carriers alive, lone items agree, items come home |
| `teams` | 2 clients, `ctf_autoteam` on | 195,276 | the open class menu is that of the choice `selectchar` applies, or of no team for an observer without one; nobody is told a wrong team |
| `match` | 6 slots, slices of 3, intermission of 1 to 3 ticks | 83,161 | everyone but the last slot is sent, the intermission ends |
| `mapcycle` | 3 maps with any of 5 limits, 2 clients, 1 change of file | 3,540 | maps without limits recur; the walk takes the first that suits among those it looks at |
| `squads` | 3 monsters, 2 enemies, 2 slots, 2 followers, symmetric | 584,420 | both ends of a squad agree, nobody is recruited away, slots are held once |
| `squads_split` | the same | violated | a corpse splits a squad |
| `sounds` | 3 entries, 1 or 2 clients, 2 monsters | 1,308,588 | the lists stay apart and end, only entries of clients are lost, `SoundPool` is implemented, who hears a sound finds it, every walk ends, old sounds go |
| `sounds_reset` | the same | violated | the death of one player silences another |
| `scripts` | 2 monsters, 3 scripts, two of one name | 2,389,629 | possession is mutual, script tasks have a script, namesakes start together |
| `mechanisms` | 3 buttons, 3 doors, 2 multisources | 122,880 | inputs tell where movers are, the gate waits for all, everything comes back |

### Why the bounds are enough

- *Flags.* Every handler involves one flag and one player, and at most one more player (the carrier
  that a stale owner would rob). Two slots give the owner and one who interferes, which is what the liveness properties
  are about; the theorems below cover the safety properties for every number.
- *Items.* The hazard is an item taken in place of another one of its class: two of a class, one of them for one team only,
  are the least in which class, team and owner pick different items, and the third item shows what holds without
  a twin.
- *Score.* `ScoresAddUp` and `TeamScoresFollowFlags` relate the change of one step to the flags; three
  points let every handler score after every other. A capture is worth 1 instead of 10 points so that
  it fits. With `CtfCapture = 0` and `MapScoreMax = 1` both branches of the limit are taken.
- *Teams.* A client, and another that watches, interferes with the balance and is told. Commands before `InitHUD`, the loss of the team
  there, a withdrawn choice, death and respawn with either menu all happen within the instance.
- *Match.* The real server has 32 slots and slices of six players. Six slots and slices of three keep what
  matters: two slices that overlap, a full one and a short one, and a full one that ends one short
  of the last slot.
- *Map cycle.* Three maps are the least with an item that the walk looks at, one it skips and one
  it does not look at.
- *Squads.* A leader, a follower and a third monster that may lead another squad, join later or lie dead in the
  list; two slots, so that one may be taken and one free; two enemies, so that a squad may split. `MaxFollowers`
  is 2 instead of 4, so that with three monsters the list may be full. The theorems below cover every number.
- *Sounds.* One client and two entries for everything else, or two clients and one: the pool is full, empty and half full, an entry is
  freed at the head of the active list and behind it, with none, one or two entries of clients left, and taken again for a sound of the other kind while a monster
  keeps it in its list. Two monsters are needed to relink each other's lists. The theorems cover every pool.
- *Scripts.* Two scripts of one name walk a talker and a guard into place, so that one has to wait for the other; one of them
  starts by itself (`m_iszIdle`), one may be repeated. The third takes the guard out of any state with an animation in which it may die. The
  talker may be led away and grabbed, the guard damaged and killed. `MaxDelay` 2 is both monsters on their way, or one and a
  leaked count. The theorems cover every number of scripts, names and kinds.
- *Mechanisms.* A button and a door that players touch feed a multisource that opens a gate of two doors: both ways in which inputs are kept,
  and a door that must wait for all. Two toggle buttons, one touched, one shot, locked by the first source and delayed, feed a second
  source that locks one wing of the gate: the wirings in which inputs are inverted, so that the properties are checked next to movers they do not
  speak of. `MaxPending` 1 because one late use is enough to do so. The theorems cover every wiring.

### Fairness

Only what the engine guarantees. A think that stays pending is run (`CTFFlag`, `CTFItems`: weak
fairness of each entity's think; `Mechanisms`: of each mover's think and of the delayed uses), frames are run and time passes
(`CTFMatch`: weak fairness of `IntermissionThink` and `Tick`). In `SoundList` a loop that runs goes on
(weak fairness of `WalkStep`: the game is single-threaded), and the think of `CSoundEnt` is called again and again; that fairness is
strong because other callbacks come in between, during whose loops it is not enabled, while the engine goes by the clock and its
`nextthink` is set by every think (`soundent.cpp:98`). No client ever has to do anything, no match has to end, and nothing has to
use a mechanism; only `MapCycle` takes it that levels go on ending (weak fairness of `ChangeLevel`), because what it says is about the
sequence of levels. `CTFScore`, `CTFTeams`, `Squads` and `Scripts` state safety only and need none.

Three models may really stop, and their runs do not check for deadlock: `Squads` and `Scripts` when all monsters and scripts are removed, and
`Mechanisms` when all that a player could touch or use stays where it is (`m_flWait` -1).

### What the code does differently from what it says

Shown by a run that TLC refutes:

1. `squadmonster.cpp:172`: `SquadRemove` compares with `this` instead of `pRemove`, so that a follower who dies stays
   on the list (`squads_split`).
2. `soundent.cpp:48`: `CSound::Reset` says that it does not unlink, and unlinks (`sounds_reset`).

Found while modelling; the models follow the code, and the properties say what holds nevertheless:

- *Flags and score.* For the flag of Opposing Force a take falls through into the code of a capture (`CTFGoalFlag.cpp:451`; for the other
  flag the same block has an `else`, 424), so `TeamScoresFollowFlags` speaks of takes too. CTF points are sent as a byte (389) and wrap on the
  clients. `DropFlag` asks the flag instead of the player whether it ducks (745).
- *Statistics.* They end when at most one slot follows the last one sent, as the `TODO` above `ctfplay_gamerules.cpp:497` suspects:
  hence `StatsReachAllButLast`.
- *Teams.* `InitHUD` passes the name of a team where `ChangePlayerTeam` expects the name of a character (640): a client that joined
  before its first `UpdateClientData` loses its team and plays on. When it dies it respawns as an observer; if it withdrew its choice meanwhile,
  the menu of the classes is open for no team and `selectchar` is refused (`player.cpp:3236`), and so `ClassMenuTellsTruth` has a case without a choice. `effects &= EF_NODRAW` (`player.cpp:5516`) keeps what it means to clear.
- *End of a match.* `GetWinningTeam` returns the loser (`ctfplay_gamerules.cpp:122`), `SendTeamStatInfo(None)` indexes with -1 (1753),
  `szNextMap` is used uninitialised when the cycle cannot be read (`multiplay_gamerules.cpp:1773`).
- *Items.* A map without a spawn spot for the team of a dropped item crashes `DropThink` (`CItemCTF.cpp:197`).
- *Scripts.* A monster that is cancelled or killed on its walk never counts down: with `SF_SCRIPT_REPEATABLE` its namesakes wait for ever
  from then on (`scripted.cpp:357`; therefore there is no liveness property). A restored monster walks again and counts down twice
  (`monsters.cpp:140`), and an `aiscripted_sequence` counts down without having counted up (`schedule.cpp:1328`). `ScriptEntityCancel` lets go of the monsters of
  `scripted_sequence`s only (`scripted.cpp:679`), so a damaged monster of the other kind starts anew. `PossessEntity` overrides a command to die
  (380). A monster killed or grabbed between command and think keeps its script. `CBaseMonster::CanFollow` dereferences `m_pCine` of a monster that was let
  go in the same frame (`talkmonster.cpp:1428`); `Follow` excludes that moment. A `killtarget` on a script that plays leaves `m_pCine` dangling; not modelled.
  `Use` takes a monster that has done nothing yet for one that plays, since `SCRIPT_PLAYING` is 0 (193), and one of the last 0.1 s before its removal revives a script.
- *Buttons and doors.* A button whose master is locked while it goes in stays between its positions and never comes back
  (`buttons.cpp:750`), although line 444 says that it returns; `EverythingComesBack` is about the others. A use by an entity that is no input flips the last input, because the
  test for it can never be true (192); a use before `Register` writes in front of the array. A toggle button uses the multisources among its targets twice when
  it comes back (801-830). A locked button that is shot loses its touch function (423). A blocked door fires its target again and so
  inverts the inputs it feeds (`doors.cpp:805`); doors of one name of which one is at rest get out of step, and the comparison of `avelocity` with
  `velocity` in `Blocked` never realigns moving doors. `InputsTellMovers` and `DoorsWaitForAll` leave these sources out (`Plain`).

## Proofs

TLAPS proves the following for any set of client slots, items, monsters, slots, enemies, sounds, scripts and movers. The assumptions are those the
modules declare: `NoPlayer` is no player and the names of the two places are no players
(`CTFFlag`), a capture is worth at least a point (`CTFScore`); there is a slot, a slice of the statistics has more than one, and the longest intermission is not shorter than the
shortest (`CTFMatch`); limits are pairs of numbers and the list of maps is not empty (`MapCycle`); the monsters are finitely many, `NoOne` is neither a monster nor an enemy, slots are bits
other than "none" and "split", and a list has room for at least one follower (`Squads`); no more clients than entries (`SoundList`); the
scripts are finitely many (`Scripts`); the wiring is one that `Register` produces and a door with a target has no namesakes (`Mechanisms`).

**CTFFlag_proofs** (`FlagInvariance`, `TypeCorrect`, `PossessionAgreement`, `CarriersFight`,
`CallbackDiscipline`, which includes `SkinTellsTruth`, `CapturesAreEarned`). `PossessionAgrees`, `CarrierFights` and `CallbacksFit` are
not inductive. Added are `FightersHaveTeams` (a player in the game has a team: otherwise taking "the
enemy's" flag means nothing), `MFlagIsCarried` (`m_pFlag` names a flag carried by that player, in the intermission too)
and `OwnerFits` (a dropped flag has no owner: `ReturnFlag` strips whoever `pev->owner` names,
and a stale owner would lose whatever flag it carries by then). Two lemmas, `ReturnFlagsSafe` and
`DropFlagSafe`, carry the argument; the step of each handler reduces to them.

In the same module `PossessionRefined`: every behaviour of `CTFFlag` is a behaviour of the
safety part of `FlagPossession`: initial states map to initial states, and every step to a step or a
stutter. The inductive invariant makes `m_pFlag` another name for the abstract place; one lemma per way a
place changes, one case per action.

And for `CTFScore`, `ScoreImplementsFlags`, `ScoreRefinesPossession`, `ScoreTypeCorrect`, `ScoresAlwaysAddUp`, `TeamScoresFollow`. A step of the score is a
step of the flags or leaves them alone, so that the invariant above and the refinement carry over without being proved again. `ScoresAddUp` is then inductive with the types: one lemma per
award, about a record of counters, whoever owns it (several awards of one kill go to one record, one after the other). `TeamScoresFollow` goes
through the actions with the branches of `ScoreFlagTouch`; what it needs of the flags is that a carried flag cannot be touched (who takes one did not have it), and that whoever has a flag bit carries the enemy's flag (which is the one a capture brings home). The theorems hold for any value of the bounds `MaxPoints`, `MaxEach`, `MaxCaptures`.

**MatchEnd_proofs** (`TypeCorrect`, `StatsReach`, `SlicesAdvance`, `IntermissionGoesOn`, `CycleTypeCorrect`, `NoMapIsPassedOver`). The invariant says how far the sending has come: every slot that
was in use when it began and lies before `m_iStatsPlayer` has been sent, and the slots in use then are in use still. `SliceAdvances` shows that a slice ends at a slot behind
the one it begins with or at the last one; that no slot is skipped between overlapping slices, and at most the last one at the end, follows, and so does that the sending never stays in one place (`SlicesAdvance`). `IntermissionGoesOn` is the safety in `IntermissionEnds`: a match that is ended again does not set the clock back. The loop of `ChangeLevel` is a smallest index
of a set of numbers, so that well-founded induction on numbers, used once (`SmallestNumber`), is all `NoMapIsPassedOver` needs; it holds for any list, with or without
maps that suit.

**Squads_proofs** (`SquadInvariance`, `TypeCorrect`, `SquadAgreement`, `SlotBacking`,
`SquadsDoLast`). The invariant is types, `SquadsAgree`, `SlotsAreBacked` and `Records` (in
`Squads`): handles point to existing monsters, leaders have started, a monster that has not started
holds and keeps nothing, and a corpse in a squad that is not spoilt holds no slot. The last part is
needed because corpses stay on the list: when a leader dies it lets go of everybody it lists, and a corpse on its list may meanwhile
count in another squad; only as it holds no slot there does `SlotsAreBacked` of the
other squad survive. The lemma `Vacated` says what a leader's word is without the slot of one member, `Occupied` what
`OccupySlot` may do to it;
`SizesKept` bounds the list by `MAX_SQUAD_MEMBERS - 1`, using that a list is filled once, when its
leader starts, and only shrinks.

**CTFItems_proofs** (`Invariance`, `TypeCorrect`, `PowerupsAreBacked`, `CarriersFight`, `LonePowerupsAgree`, `ItemsAreWatched`), for any items of any classes and teams. The handlers
find an item by its class and may take one of another player; what saves the bits is that they take the bit of *that* owner
too. Added are `LyingUnowned` (an item that may be touched has no owner, so whoever takes it robs nobody) and `Sided`
(whoever may touch one has a team).
`LonePowerupsAgree` adds `LoneOwnerHasBit`: who owns an item that is alone of its class and for everybody has the bit, so that every handler that walks the bits
finds the item. In `ClientConnected` each player of the walk may let go of items of players that come later (`Reset`, a function that calls itself). That it is well defined is `ResetUnfolds`: the
walk up to a slot exists for every slot (`WalkExists`, by taking the smallest slot for which it would not), and each value depends on those before (`FoundWithDepends`).
`ItemsAreWatched` is the safety in `LostItemReturns`: an item has `CarryThink` pending exactly while it is owned, and its touch function exactly while it is not.

**CTFTeams_proofs** (`Invariance`, `TypeCorrect`, `MenusTellTruth`, `TeamInfoIsTrue`). With the types `ClassMenuTellsTruth` and `NobodyIsMisled` are
inductive once `OnlyPlayersInTeams` is added: whoever does not play has no team. Without it a new client, for whom the class menu is opened with
the number of its own team, could be shown the team the slot had before. Each command is a lemma about what it opens and what it tells; `SpawnFacts` serves the
new client and the respawn.

**SoundList_proofs** (`TypeCorrect`, `ListsStayApart`, `ListsEnd`, `PoolKeepsItsSounds`, `PoolIsImplemented`, `HeardIsFound`, `LoopsShrink`). A list is the least set that holds its head and is closed under the link, so
no induction over its length is needed. The strengthening says that no two entries link to the same one and none to a head, so that
each operation changes the lists by one entry: the lemmas `MoveHead`, `MoveNext`, `CutLink` say so of any links, the
steps apply them. During a walk of `Think` it also says that the entry before the current one is the one that links to it.
The same lemmas tell what each step does to the two lists as sets, which makes `SoundList` implement `SoundPool` (`StepRefines`).
`HeardIsFound` and `LoopsShrink` are about the third link, which all monsters share and nobody unlinks. `HearingFits`: while a monster listens, its list is apart from what it is still to walk,
so that each entry is linked once, and the condition is set only with a noise in the list. `EarsFit`: no list of a monster that has listened has a circle, although others link its entries
anew: an entry is only ever linked before a list that does not hold it (`LinkMakesNoCircle`). `LoopsShrink` is the safety in `WalksEnd`: every turn of a
loop is done with its entry for good. It assumes `~Wary`, as the run does: with `Wary` TRUE it is false (see [SoundList](#soundlist-and-soundpool)).

**Scripts_proofs** (`Invariance`, `TypeCorrect`, `PossessionsAgree`, `TasksHaveScript`, `NobodyStartsAlone`). `Linked`: a script with a monster has no think pending, so it
neither looks for another monster nor is removed. `Commanded`: a monster commanded to be in a script without one has no schedule either, so that its next think finds out.
For the third theorem `m_iDelay` is never below the number of namesakes on their way (`Counted`), and a monster only ever walks for the script it has
(`Prompt`); cardinalities are those of `FiniteSetTheorems`.

**Mechanisms_proofs** (`Invariance`, `TypeCorrect`, `InputsTell`, `GatesWait`, `MoversKeepThinking`). As an input is only ever flipped, it tells the truth only if movers arrive at their two ends
in turn: each pending think fits the state of its mover (`ThinksFit`), a door that may be touched is at rest (`TouchFits`), only movers with a delay have uses pending
(`PendingFits`). `GatesWait` follows from that invariant in the state after the step.
`MoversKeepThinking` is the safety in `EverythingComesBack` and the converse of `ThinksFit`: a mover on its way, or at the top and to come back, has the think that takes it on
(`NothingIsStranded`), through uses, delayed uses and blocked namesakes. The exception is in the code: a button whose master locks on the way in.

Each of the invariants was checked by TLC on the instances above before it was proved.

## Limits

*Only model-checked.* All liveness properties (those with `~>` or `[]<>`: `DroppedFlagMoves`, `BaseReopens`, `OrphanReturns`, `UnlimitedMapsRecur`, `IntermissionEnds`, `DroppedItemMoves`, `LostItemReturns`, `WalksEnd`, `OldSoundsGo`, `EverythingComesBack`) and the liveness half of `ImplementsPossession`: fairness
is out of the prover's reach. Of most of them the part that is safety is proved (`CallbackDiscipline` for the flags, `ItemsAreWatched`, `IntermissionGoesOn`, `LoopsShrink`, `MoversKeepThinking`): that what has to happen is always pending, or
comes closer with every step. Every invariant and every action property that a run checks is proved; the runs show them on an instance, next to the liveness.

*Left out of the modelled components.* In the flags positions (among them the height of a dropped flag); in the score frags, the time limit,
the width of the messages that carry points (they wrap at 256 on the client); in the items the
effects; in the teams the intermission, names and spawn spots, and the balance of the teams, which the code tests in one menu and applies
in the next and so does not keep; in the map cycle the tokenising of the file and a file that cannot be read;
in the squads positions, cover and friendly fire; in the sounds places and volumes, and what a loaded monster does that is `Wary`; in the scripts
sentences, furniture and `killtarget`; in the mechanisms plats, trains, path corners, momentary buttons, buttons that do not move, close targets, killtargets (`subs.cpp:259`), chains of buttons and
targets that are neither doors nor multisources.

*Not modelled.* Simulation in floating point (movement, ropes, turrets, the geometry of the node graph), the tasks and animation events of about a hundred
individual monsters, single weapons, the client library (presentation; what it is told is modelled on the server's
side), the format of saved games, offline tools, the bots of another game, vendored libraries. These are most of the 300,000
lines of the repository: the models cover the parts in which several actors share state, a small share of its text.

## Plan

The order follows how much state several actors share.

The models above are in the order of how much state several actors share. What would come next:

1. *multi_manager and triggers*, composed with `Mechanisms`: clones, re-triggering while it runs; a manager fires each target once per run.
2. *Schedules*: task status, interrupts and failures of the common schedules, composed with `Scripts` and `Squads`.
3. *Monster makers*: children counted against children alive, with `killtarget`; composed with `Squads`.
4. *Plats and trains*, with the movers of `Mechanisms` as the components they are made of.
5. *The player's life cycle*, composed with `CTFFlag` and `CTFItems`: weapons on death, observer modes, the tank and train a player controls.
6. *Proofs*: abstract specifications of the squads (who leads whom, and one holder per slot) and of possession by scripts, which their invariants nearly state, and that the
   components implement them.

The runs are kept few: a new component gets one run for safety and liveness together where its
instance allows, and a violation once reported gives way to a new question when the list grows.
