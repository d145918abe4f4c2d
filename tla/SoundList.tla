------------------------------ MODULE SoundList ------------------------------
(***************************************************************************)
(* What monsters hear: CSoundEnt (soundent.cpp) and the listeners of       *)
(* CBaseMonster (monsters.cpp).                                            *)
(*                                                                         *)
(* All sounds and smells of the world live in one pool.  m_iNext links its *)
(* entries into the free and the active list; the first maxClients of them *)
(* are taken once and for all, one for the noises of each player.          *)
(* InsertSound moves an entry to the active list, the think of CSoundEnt   *)
(* moves those that are over back.  A monster that listens walks the       *)
(* active list and links what it hears through m_iNextAudible, a second    *)
(* link of the same entries that all monsters share and that nobody        *)
(* unlinks when an entry is freed: a list is read long after another       *)
(* monster has linked its entries anew.                                    *)
(*                                                                         *)
(* The game is single threaded: a walk over a list runs to its end before  *)
(* anything else happens.  The steps of a walk are steps here so that one  *)
(* that does not end can be told.  Places, volumes and distances are left  *)
(* open: a monster may or may not be close enough to a sound.              *)
(***************************************************************************)
EXTENDS Integers

CONSTANTS
  MaxSounds,    (* MAX_WORLD_SOUNDS: 64 in the code                        *)
  MaxPlayers,   (* the most clients the engine takes: 32                   *)
  Monsters,     (* those that listen                                       *)
  Nobody,       (* no monster                                              *)
  Wary          (* whether a monster may have an enemy while it is not yet *)
                (* in MONSTERSTATE_COMBAT, see LoadGame                    *)

ASSUME SizeAssumption   == MaxSounds \in Nat /\ MaxPlayers \in 1 .. MaxSounds
ASSUME NobodyAssumption == Nobody \notin Monsters
ASSUME WaryAssumption   == Wary \in BOOLEAN

EMPTY   == -1                      \* SOUNDLIST_EMPTY
Pool    == 0 .. MaxSounds - 1      \* the indices of m_SoundPool

VARIABLES
  maxClients,   (* gpGlobals->maxClients, the same for the whole game      *)
  next,         (* m_iNext of each entry                                   *)
  nextAudible,  (* m_iNextAudible of each entry                            *)
  noise,        (* the entries whose m_iType makes them an FIsSound        *)
  over,         (* the active entries whose m_flExpireTime has passed      *)
  activeHead,   (* m_iActiveSound                                          *)
  freeHead,     (* m_iFreeSound                                            *)
  audible,      (* m_iAudibleList of each monster                          *)
  hears,        (* the monsters with bits_COND_HEAR_SOUND                  *)
  listened,     (* those that have listened since they were made or loaded *)
  walk          (* the loop that runs: what, for whom, the entry it is at  *)
                (* and the one before                                      *)

pool == <<maxClients, next, noise, over, activeHead, freeHead>>
ears == <<nextAudible, audible, hears, listened>>
vars == <<pool, ears, walk>>

Clients == 0 .. maxClients - 1     \* ClientSoundIndex of the players
Links == Pool \cup {EMPTY}
Idle  == [loop |-> "none", who |-> Nobody, prev |-> EMPTY, cur |-> EMPTY]
Quiet == walk = Idle

(* The entries of the list with the given head: every set that holds the   *)
(* head and is closed under the link holds them.                           *)
Closed(S, link)  == \A i \in S : link[i] \in S \cup {EMPTY}
List(head, link) == {i \in Pool : \A S \in SUBSET Pool :
                       Closed(S, link) /\ head \in S \cup {EMPTY} => i \in S}
ActiveList     == List(activeHead, next)
FreeList       == List(freeHead, next)
AudibleList(m) == List(audible[m], nextAudible)

(* Initialize links all entries into the free list and takes one for each  *)
(* client; Clear leaves m_iNextAudible 0, the index of an entry.           *)
InitialNext == [i \in Pool |-> IF i \in Clients THEN i - 1
                               ELSE IF i = MaxSounds - 1 THEN EMPTY ELSE i + 1]
InitialFree == IF maxClients = MaxSounds THEN EMPTY ELSE maxClients

Init ==
  /\ maxClients \in 1 .. MaxPlayers
  /\ next = InitialNext
  /\ nextAudible = [i \in Pool |-> 0]
  /\ noise = {}
  /\ over = {}
  /\ activeHead = maxClients - 1
  /\ freeHead = InitialFree
  /\ audible = [m \in Monsters |-> 0]      \* the memory of a new entity is zero
  /\ hears = {} /\ listened = {}
  /\ walk = Idle

(***************************************************************************)
(* CSoundEnt                                                               *)
(***************************************************************************)

(* InsertSound, with IAllocSound: the head of the free list becomes the    *)
(* head of the active list.  Without a free entry the sound is lost.       *)
InsertSound(type) ==
  /\ Quiet
  /\ freeHead # EMPTY
  /\ LET new == freeHead
     IN /\ freeHead' = next[new]
        /\ next' = [next EXCEPT ![new] = activeHead]
        /\ activeHead' = new
        /\ noise' = IF type = "sound" THEN noise \cup {new} ELSE noise \ {new}
  /\ UNCHANGED <<maxClients, over, ears, walk>>

(* Mutant: the entries of the clients expire like all others. *)
ExpireAny(i) ==
  /\ Quiet
  /\ i \in ActiveList \ over
  /\ over' = over \cup {i}
  /\ UNCHANGED <<maxClients, next, noise, activeHead, freeHead, ears, walk>>

(* The time passes m_flExpireTime of an active sound; the entries of the   *)
(* clients never expire.                                                   *)
Expire(i) ==
  /\ Quiet
  /\ i \in ActiveList \ (Clients \cup over)
  /\ over' = over \cup {i}
  /\ UNCHANGED <<maxClients, next, noise, activeHead, freeHead, ears, walk>>

(* Mutant: the walk starts behind the head. *)
ThinkSkipsHead ==
  /\ Quiet
  /\ walk' = [Idle EXCEPT !.loop = "think", !.prev = activeHead, !.cur = next[activeHead]]
  /\ UNCHANGED <<pool, ears>>

(* Think walks the active list from its head.                              *)
Think ==
  /\ Quiet
  /\ walk' = [Idle EXCEPT !.loop = "think", !.cur = activeHead]
  /\ UNCHANGED <<pool, ears>>

(* Mutant: the entry before the freed one keeps its link. *)
FreeSoundKeepsLink ==
  /\ walk.cur \in over
  /\ next' = [next EXCEPT ![walk.cur] = freeHead]
  /\ activeHead' = IF walk.prev = EMPTY THEN next[walk.cur] ELSE activeHead
  /\ freeHead' = walk.cur
  /\ over' = over \ {walk.cur}
  /\ walk' = [walk EXCEPT !.cur = next[@]]
  /\ UNCHANGED <<maxClients, noise>>

(* Mutant: takes every freed entry for the head of the active list. *)
FreeSoundAtHead ==
  /\ walk.cur \in over
  /\ activeHead' = next[walk.cur]
  /\ next' = [next EXCEPT ![walk.cur] = freeHead]
  /\ freeHead' = walk.cur
  /\ over' = over \ {walk.cur}
  /\ walk' = [walk EXCEPT !.cur = next[@]]
  /\ UNCHANGED <<maxClients, noise>>

(* Mutant: sets the head of the free list before it links the entry. *)
FreeSoundLinksSelf ==
  /\ walk.cur \in over
  /\ next' = IF walk.prev # EMPTY
             THEN [next EXCEPT ![walk.prev] = next[walk.cur], ![walk.cur] = walk.cur]
             ELSE [next EXCEPT ![walk.cur] = walk.cur]
  /\ activeHead' = IF walk.prev = EMPTY THEN next[walk.cur] ELSE activeHead
  /\ freeHead' = walk.cur
  /\ over' = over \ {walk.cur}
  /\ walk' = [walk EXCEPT !.cur = next[@]]
  /\ UNCHANGED <<maxClients, noise>>

(* FreeSound(cur, prev): out of the active list, onto the free list.       *)
FreeSound ==
  /\ walk.cur \in over
  /\ IF walk.prev # EMPTY
     THEN /\ next' = [next EXCEPT ![walk.prev] = next[walk.cur], ![walk.cur] = freeHead]
          /\ activeHead' = activeHead
     ELSE /\ next' = [next EXCEPT ![walk.cur] = freeHead]
          /\ activeHead' = next[walk.cur]
  /\ freeHead' = walk.cur
  /\ over' = over \ {walk.cur}
  /\ walk' = [walk EXCEPT !.cur = next[@]]
  /\ UNCHANGED <<maxClients, noise>>

KeepSound ==
  /\ walk.cur \notin over
  /\ walk' = [walk EXCEPT !.prev = walk.cur, !.cur = next[walk.cur]]
  /\ UNCHANGED pool

ThinkStep ==
  /\ walk.loop = "think"
  /\ \/ /\ walk.cur # EMPTY
        /\ FreeSound \/ KeepSound
     \/ /\ walk.cur = EMPTY
        /\ walk' = Idle
        /\ UNCHANGED pool
  /\ UNCHANGED ears

(* UpdatePlayerSound gives the entry of a client its noise.                *)
UpdatePlayerSound(c) ==
  /\ Quiet
  /\ noise' = noise \cup {c}
  /\ UNCHANGED <<maxClients, next, over, activeHead, freeHead, ears, walk>>

(* A player is killed or leaves: CSound::Reset clears the sound of his     *)
(* entry and, with it, the link to the entries behind it.                  *)
Reset(c) ==
  /\ Quiet
  /\ noise' = noise \ {c}
  /\ next' = [next EXCEPT ![c] = EMPTY]
  /\ UNCHANGED <<maxClients, over, activeHead, freeHead, ears, walk>>

(***************************************************************************)
(* CBaseMonster: RunAI listens first, then the schedule may ask PBestSound *)
(***************************************************************************)

(* Mutant: does not empty the list of the last think first. *)
ListenKeepsList(m) ==
  /\ Quiet
  /\ hears' = hears \ {m}
  /\ listened' = listened \cup {m}
  /\ walk' = [Idle EXCEPT !.loop = "listen", !.who = m, !.cur = activeHead]
  /\ UNCHANGED <<pool, nextAudible, audible>>

(* A monster listens in its think if a client may see it or it fights.     *)
Listen(m) ==
  /\ Quiet
  /\ audible' = [audible EXCEPT ![m] = EMPTY]
  /\ hears' = hears \ {m}
  /\ listened' = listened \cup {m}
  /\ walk' = [Idle EXCEPT !.loop = "listen", !.who = m, !.cur = activeHead]
  /\ UNCHANGED <<pool, nextAudible>>

(* Mutant: the entry is made the head of the list but not linked to it. *)
HearUnlinked(m, i) ==
  /\ audible' = [audible EXCEPT ![m] = i]
  /\ hears' = IF i \in noise THEN hears \cup {m} ELSE hears
  /\ UNCHANGED <<nextAudible, listened>>

(* One sound or smell that the monster cares for and that is close enough. *)
Hear(m, i) ==
  /\ nextAudible' = [nextAudible EXCEPT ![i] = audible[m]]
  /\ audible' = [audible EXCEPT ![m] = i]
  /\ hears' = IF i \in noise THEN hears \cup {m} ELSE hears
  /\ UNCHANGED listened

(* PBestSound is asked when a sound was heard, by whoever looks for a new  *)
(* schedule (GetIdealState, GetSchedule), and by the tasks of a schedule   *)
(* that was chosen because of one; a schedule is not saved.                *)
PBestSound(m) ==
  /\ m \in listened \/ (Wary /\ m \in hears)
  /\ walk' = [Idle EXCEPT !.loop = "choose", !.who = m, !.cur = audible[m]]

ListenStep ==
  /\ walk.loop = "listen"
  /\ \/ /\ walk.cur # EMPTY
        /\ \/ Hear(walk.who, walk.cur)
           \/ UNCHANGED ears      \* too far away, or not for this monster
        /\ walk' = [walk EXCEPT !.cur = next[@]]
     \/ /\ walk.cur = EMPTY
        /\ PBestSound(walk.who) \/ walk' = Idle
        /\ UNCHANGED ears
  /\ UNCHANGED pool

(* Out of sight a monster that does not fight thinks without listening:    *)
(* its conditions and its list are those of an earlier think.              *)
Recall(m) ==
  /\ Quiet
  /\ PBestSound(m)
  /\ UNCHANGED <<pool, ears>>

(* The loop of PBestSound.  A new schedule clears the conditions           *)
(* (ChangeSchedule), a task that asks leaves them alone.                   *)
ChooseStep ==
  /\ walk.loop = "choose"
  /\ \/ /\ walk.cur # EMPTY
        /\ walk' = [walk EXCEPT !.cur = nextAudible[@]]
        /\ UNCHANGED hears
     \/ /\ walk.cur = EMPTY
        /\ walk' = Idle
        /\ hears' \in {hears, hears \ {walk.who}}
  /\ UNCHANGED <<pool, nextAudible, audible, listened>>

(* A game is loaded: the world makes a new CSoundEnt, which is not saved.  *)
(* m_iAudibleList is not saved either and is 0, the index of an entry.     *)
(* m_afConditions is saved, but Restore clears it without an enemy.  A     *)
(* monster with one is in combat and listens before it asks, unless it saw *)
(* its enemy during a schedule that cannot be interrupted (Wary).          *)
LoadGame ==
  /\ Quiet
  /\ next' = InitialNext
  /\ nextAudible' = [i \in Pool |-> 0]
  /\ noise' = {}
  /\ over' = {}
  /\ activeHead' = maxClients - 1
  /\ freeHead' = InitialFree
  /\ audible' = [m \in Monsters |-> 0]
  /\ hears' \in SUBSET hears
  /\ listened' = {}
  /\ UNCHANGED <<maxClients, walk>>

WalkStep == ThinkStep \/ ListenStep \/ ChooseStep

Next ==
  \/ \E type \in {"sound", "scent"} : InsertSound(type)
  \/ \E i \in Pool : Expire(i)
  \/ Think
  \/ \E c \in Clients : UpdatePlayerSound(c) \/ Reset(c)
  \/ \E m \in Monsters : Listen(m) \/ Recall(m)
  \/ WalkStep
  \/ LoadGame

(* The loops run to their end, and the engine calls the think of CSoundEnt *)
(* again and again whatever else it calls (nextthink is set by every one). *)
Spec ==
  /\ Init /\ [][Next]_vars
  /\ WF_vars(WalkStep) /\ SF_vars(Think)

(***************************************************************************)
(* Properties                                                              *)
(***************************************************************************)

TypeOK ==
  /\ maxClients \in 1 .. MaxPlayers
  /\ next \in [Pool -> Links]
  /\ nextAudible \in [Pool -> Links]
  /\ noise \subseteq Pool
  /\ over \subseteq Pool \ Clients
  /\ activeHead \in Links
  /\ freeHead \in Links
  /\ audible \in [Monsters -> Links]
  /\ hears \subseteq Monsters
  /\ listened \subseteq Monsters
  /\ walk \in [loop : {"none", "think", "listen", "choose"}, who : Monsters \cup {Nobody},
               prev : Links, cur : Links]

(* No entry is on both lists, whatever order sounds come and go in.        *)
ListsAreApart == ActiveList \cap FreeList = {}

(* No list runs in a circle: of any entries one leads out of them.         *)
NoListIsCircular == \A S \in SUBSET Pool : S # {} => \E i \in S : next[i] \notin S

(* The entry of a client is never handed out to another sound, and only    *)
(* such entries are ever on neither list: the pool never runs dry.         *)
OnlyClientsAreLost ==
  /\ Clients \cap FreeList = {}
  /\ Pool \ (ActiveList \cup FreeList) \subseteq Clients

(* The ASSERT of GetIdealState and GetSchedule: a monster that asks for    *)
(* the sound it has just heard has one in its list.                        *)
HeardSoundIsFound ==
  [][walk.loop = "listen" /\ walk'.loop = "choose" /\ walk.who \in hears
       => \E i \in AudibleList(walk.who) : i \in noise]_vars

(* The two lists are the pool they stand for: however the links run,       *)
(* CSoundEnt moves one entry at a time between the free and the active     *)
(* list, frees only sounds of the active list whose time has passed (the   *)
(* comment of FreeSound asks its callers to), and loses none.              *)
Abstract == INSTANCE SoundPool WITH
  Slots <- Pool, reserved <- Clients, free <- FreeList, active <- ActiveList
ImplementsPool == Abstract!Spec

(* Every loop ends, also one over a list whose entries other monsters have *)
(* linked anew, or that were freed and taken for other sounds since.       *)
WalksEnd == walk.loop # "none" ~> Quiet

(* The active list is cleared of all that is over again and again.         *)
OldSoundsGo == []<>(over = {})

(* What the comment of CSound::Reset says: it "doesn't expire or unlink".  *)
ClientsStayAudible == Clients \subseteq ActiveList
=============================================================================
