--------------------------- MODULE SoundList_proofs ---------------------------
(***************************************************************************)
(* Theorems about SoundList, for every size of the pool and every number   *)
(* of clients and monsters: the free and the active list never share an    *)
(* entry, never run in a circle, and lose no entry but those of clients:   *)
(* they implement SoundPool.  The lists that monsters make of a link they  *)
(* share hold what was heard, and the loops over them end.                 *)
(*                                                                         *)
(* The strengthening says of the links that no two entries are linked to   *)
(* the same one and that none is linked to the head of a list; with that   *)
(* each operation changes the lists by exactly one entry, which the        *)
(* lemmas MoveHead, MoveNext and CutLink state for any links.  Of the      *)
(* shared link it says that a list in the making is apart from what is     *)
(* still to be walked (HearingFits) and that a list that was made has no   *)
(* circle, although others link its entries anew (EarsFit).                *)
(***************************************************************************)
EXTENDS SoundList, WellFoundedInduction, TLAPS

LEMMA PoolIsNat == Pool \subseteq Nat /\ EMPTY \notin Pool
  BY SizeAssumption DEF Pool, EMPTY

(***************************************************************************)
(* Lists                                                                   *)
(***************************************************************************)

(* A list lies in the pool, is closed under its link and holds its head.   *)
LEMMA ListFacts ==
  ASSUME NEW link \in [Pool -> Links], NEW h \in Links
  PROVE  /\ List(h, link) \in SUBSET Pool
         /\ Closed(List(h, link), link)
         /\ h \in List(h, link) \cup {EMPTY}
  BY DEF List, Closed, Links

(* It is the least set that does.                                          *)
LEMMA ListLeast ==
  ASSUME NEW link, NEW h, NEW L \in SUBSET Pool,
         Closed(L, link), h \in L \cup {EMPTY}
  PROVE  List(h, link) \subseteq L
  BY DEF List

LEMMA ListIs ==
  ASSUME NEW link \in [Pool -> Links], NEW h \in Links, NEW L \in SUBSET Pool,
         Closed(L, link), h \in L \cup {EMPTY},
         \A S \in SUBSET L : Closed(S, link) /\ h \in S \cup {EMPTY} => L \subseteq S
  PROVE  List(h, link) = L
<1>1. List(h, link) \subseteq L
  BY ListLeast
<1>2. Closed(List(h, link), link) /\ h \in List(h, link) \cup {EMPTY}
  BY ListFacts
<1> QED
  BY <1>1, <1>2

(* No entries are linked in a circle; no two are linked to the same entry; *)
(* none is linked to h.                                                    *)
Acyclic(link)   == \A S \in SUBSET Pool : S # {} => \E i \in S : link[i] \notin S
OneIn(link)     == \A i, j \in Pool : link[i] = link[j] /\ link[i] # EMPTY => i = j
NoneTo(link, h) == \A i \in Pool : link[i] = h => h = EMPTY

(* The head x of one list becomes the head of the other, whose head was y. *)
LEMMA MoveHead ==
  ASSUME NEW link \in [Pool -> Links], NEW x \in Pool, NEW y \in Links,
         Acyclic(link), OneIn(link), NoneTo(link, x), NoneTo(link, y),
         List(x, link) \cap List(y, link) = {}
  PROVE  LET new == [link EXCEPT ![x] = y]
         IN  /\ List(link[x], new) = List(x, link) \ {x}
             /\ List(x, new) = List(y, link) \cup {x}
             /\ Acyclic(new) /\ OneIn(new)
             /\ NoneTo(new, x) /\ NoneTo(new, link[x])
<1> DEFINE new == [link EXCEPT ![x] = y]
           X == List(x, link)
           Y == List(y, link)
<1>1. /\ X \in SUBSET Pool /\ Closed(X, link) /\ x \in X
      /\ Y \in SUBSET Pool /\ Closed(Y, link) /\ y \in Y \cup {EMPTY}
      /\ x \notin Y /\ x # y /\ link[x] # x
  <2>1. X \in SUBSET Pool /\ Closed(X, link) /\ x \in X \cup {EMPTY}
    BY ListFacts DEF Links
  <2>2. Y \in SUBSET Pool /\ Closed(Y, link) /\ y \in Y \cup {EMPTY}
    BY ListFacts
  <2>3. x # EMPTY
    BY PoolIsNat
  <2> QED
    BY <2>1, <2>2, <2>3 DEF NoneTo
<1>2. new \in [Pool -> Links] /\ new[x] = y /\ \A i \in Pool \ {x} : new[i] = link[i]
  OBVIOUS
<1>3. link[x] \in X \cup {EMPTY} /\ link[x] \in Links
  BY <1>1 DEF Closed
<1> HIDE DEF new, X, Y
<1>4. List(link[x], new) = X \ {x}
  <2>1. Closed(X \ {x}, new)
    BY <1>1, <1>2, PoolIsNat DEF Closed, NoneTo
  <2>2. link[x] \in (X \ {x}) \cup {EMPTY}
    BY <1>1, <1>3
  <2>3. ASSUME NEW S \in SUBSET (X \ {x}), Closed(S, new), link[x] \in S \cup {EMPTY}
        PROVE  X \ {x} \subseteq S
    <3>1. Closed(S \cup {x}, link)
      BY <1>1, <1>2, <2>3 DEF Closed
    <3>2. X \subseteq S \cup {x}
      BY <1>1, <3>1, ListLeast DEF X
    <3> QED
      BY <3>2
  <2> QED
    BY <1>1, <1>2, <1>3, <2>1, <2>2, <2>3, ListIs
<1>5. List(x, new) = Y \cup {x}
  <2>1. Closed(Y \cup {x}, new)
    BY <1>1, <1>2 DEF Closed
  <2>2. ASSUME NEW S \in SUBSET (Y \cup {x}), Closed(S, new), x \in S \cup {EMPTY}
        PROVE  Y \cup {x} \subseteq S
    <3>1. x \in S
      BY <2>2, PoolIsNat
    <3>2. y \in (S \ {x}) \cup {EMPTY}
      BY <1>1, <1>2, <2>2, <3>1 DEF Closed
    <3>3. Closed(S \ {x}, link)
      BY <1>1, <1>2, <2>2, PoolIsNat DEF Closed, NoneTo
    <3>4. Y \subseteq S \ {x}
      BY <1>1, <3>2, <3>3, ListLeast DEF Y
    <3> QED
      BY <3>1, <3>4
  <2>3. Y \cup {x} \in SUBSET Pool /\ x \in Links /\ x \in (Y \cup {x}) \cup {EMPTY}
    BY <1>1 DEF Links
  <2> QED
    BY <1>2, <2>1, <2>2, <2>3, ListIs
<1>6. Acyclic(new)
  <2> SUFFICES ASSUME NEW S \in SUBSET Pool, S # {}, \A i \in S : new[i] \in S
               PROVE  FALSE
    BY DEF Acyclic
  <2>1. CASE x \notin S
    BY <1>2, <2>1 DEF Acyclic
  <2>2. CASE x \in S
    <3>1. y \in S \cap Y
      BY <1>1, <1>2, <2>2, PoolIsNat
    <3>2. \A i \in S \cap Y : link[i] \in S \cap Y
      BY <1>1, <1>2, PoolIsNat DEF Closed
    <3> QED
      BY <1>1, <3>1, <3>2 DEF Acyclic
  <2> QED
    BY <2>1, <2>2
<1>7. OneIn(new)
  BY <1>2 DEF OneIn, NoneTo
<1>8. NoneTo(new, x)
  BY <1>1, <1>2, PoolIsNat DEF NoneTo
<1>9. NoneTo(new, link[x])
  BY <1>1, <1>2 DEF NoneTo, OneIn
<1> QED
  BY <1>4, <1>5, <1>6, <1>7, <1>8, <1>9 DEF new, X, Y

(* The entry x behind p becomes the head of the other list.                *)
LEMMA MoveNext ==
  ASSUME NEW link \in [Pool -> Links], NEW a \in Links, NEW f \in Links,
         NEW p \in List(a, link), NEW x \in Pool, link[p] = x,
         Acyclic(link), OneIn(link), NoneTo(link, a), NoneTo(link, f),
         List(a, link) \cap List(f, link) = {},
         NEW new \in [Pool -> Links], new[x] = f, new[p] = link[x],
         \A i \in Pool : i # x /\ i # p => new[i] = link[i]
  PROVE  /\ List(a, new) = List(a, link) \ {x}
         /\ List(x, new) = List(f, link) \cup {x}
         /\ Acyclic(new) /\ OneIn(new)
         /\ NoneTo(new, a) /\ NoneTo(new, x)
<1> DEFINE A == List(a, link)
           F == List(f, link)
<1>1. /\ A \in SUBSET Pool /\ Closed(A, link) /\ a \in A \cup {EMPTY}
      /\ F \in SUBSET Pool /\ Closed(F, link) /\ f \in F \cup {EMPTY}
  BY ListFacts
<1>2. /\ p \in Pool /\ p \in A /\ x \in A /\ x # EMPTY /\ p \notin F /\ x \notin F
      /\ p # x /\ link[x] # x /\ x # a /\ x # f
  <2>1. p \in Pool /\ p \in A /\ x # EMPTY
    BY <1>1, PoolIsNat
  <2>2. x \in A
    BY <1>1, <2>1 DEF Closed
  <2>3. link[x] # x
    <3>1. {x} \in SUBSET Pool /\ {x} # {}
      OBVIOUS
    <3> QED
      BY <3>1 DEF Acyclic
  <2> QED
    BY <2>1, <2>2, <2>3 DEF NoneTo
<1>3. /\ new \in [Pool -> Links] /\ new[x] = f /\ new[p] = link[x]
      /\ \A i \in Pool \ {x, p} : new[i] = link[i] /\ link[i] # x
  BY <1>2 DEF OneIn
<1> HIDE DEF A, F
<1>4. List(a, new) = A \ {x}
  <2>1. Closed(A \ {x}, new)
    BY <1>1, <1>2, <1>3 DEF Closed
  <2>2. a \in (A \ {x}) \cup {EMPTY}
    BY <1>1, <1>2
  <2>3. ASSUME NEW S \in SUBSET (A \ {x}), Closed(S, new), a \in S \cup {EMPTY}
        PROVE  A \ {x} \subseteq S
    <3>1. CASE p \in S
      <4>1. Closed(S \cup {x}, link)
        BY <1>1, <1>2, <1>3, <2>3, <3>1 DEF Closed
      <4>2. A \subseteq S \cup {x}
        BY <1>1, <2>3, <4>1, ListLeast DEF A
      <4> QED
        BY <4>2
    <3>2. CASE p \notin S
      <4>1. Closed(S, link)
        BY <1>1, <1>2, <1>3, <2>3, <3>2 DEF Closed
      <4>2. A \subseteq S
        BY <1>1, <2>3, <4>1, ListLeast DEF A
      <4> QED
        BY <1>2, <3>2, <4>2
    <3> QED
      BY <3>1, <3>2
  <2> QED
    BY <1>1, <1>3, <2>1, <2>2, <2>3, ListIs
<1>5. List(x, new) = F \cup {x}
  <2>1. Closed(F \cup {x}, new)
    BY <1>1, <1>2, <1>3 DEF Closed
  <2>2. ASSUME NEW S \in SUBSET (F \cup {x}), Closed(S, new), x \in S \cup {EMPTY}
        PROVE  F \cup {x} \subseteq S
    <3>1. f \in (S \cap F) \cup {EMPTY}
      BY <1>1, <1>2, <1>3, <2>2 DEF Closed
    <3>2. Closed(S \cap F, link)
      BY <1>1, <1>2, <1>3, <2>2 DEF Closed
    <3>3. F \subseteq S \cap F
      BY <1>1, <3>1, <3>2, ListLeast DEF F
    <3> QED
      BY <1>2, <2>2, <3>3
  <2>3. F \cup {x} \in SUBSET Pool /\ x \in Links /\ x \in (F \cup {x}) \cup {EMPTY}
    BY <1>1 DEF Links
  <2> QED
    BY <1>3, <2>1, <2>2, <2>3, ListIs
<1>6. Acyclic(new)
  <2> SUFFICES ASSUME NEW S \in SUBSET Pool, S # {}, \A i \in S : new[i] \in S
               PROVE  FALSE
    BY DEF Acyclic
  <2>1. CASE x \in S
    <3>1. f \in S \cap F
      BY <1>1, <1>3, <2>1, PoolIsNat
    <3>2. \A i \in S \cap F : link[i] \in S \cap F
      BY <1>1, <1>2, <1>3, PoolIsNat DEF Closed
    <3> QED
      BY <1>1, <3>1, <3>2 DEF Acyclic
  <2>2. CASE x \notin S /\ p \in S
    <3>1. \A i \in S \cup {x} : link[i] \in S \cup {x}
      BY <1>2, <1>3, <2>2
    <3>2. S \cup {x} \in SUBSET Pool /\ S \cup {x} # {}
      OBVIOUS
    <3> QED
      BY <3>1, <3>2 DEF Acyclic
  <2>3. CASE x \notin S /\ p \notin S
    BY <1>3, <2>3 DEF Acyclic
  <2> QED
    BY <2>1, <2>2, <2>3
<1>7. OneIn(new)
  BY <1>2, <1>3 DEF OneIn, NoneTo
<1>8. NoneTo(new, a)
  BY <1>1, <1>2, <1>3, PoolIsNat DEF NoneTo
<1>9. NoneTo(new, x)
  BY <1>2, <1>3 DEF NoneTo
<1> QED
  BY <1>4, <1>5, <1>6, <1>7, <1>8, <1>9 DEF A, F

(* The entry x loses its link: what lay behind it in L may be lost, no     *)
(* other list changes.                                                     *)
LEMMA CutLink ==
  ASSUME NEW link \in [Pool -> Links], NEW a \in Links, NEW f \in Links,
         NEW x \in Pool, x \notin List(f, link), NEW C \in SUBSET Pool,
         x \in C, \A i \in C : link[i] \in C \cup {EMPTY}
  PROVE  LET new == [link EXCEPT ![x] = EMPTY]
         IN  /\ List(a, new) \subseteq List(a, link)
             /\ List(a, link) \subseteq List(a, new) \cup C
             /\ List(f, new) = List(f, link)
             /\ Acyclic(link) => Acyclic(new)
             /\ OneIn(link) => OneIn(new)
             /\ \A h \in Links : NoneTo(link, h) => NoneTo(new, h)
<1> DEFINE new == [link EXCEPT ![x] = EMPTY]
           F == List(f, link)
<1>1. /\ new \in [Pool -> Links] /\ new[x] = EMPTY
      /\ \A i \in Pool \ {x} : new[i] = link[i]
  BY DEF Links
<1>2. F \in SUBSET Pool /\ Closed(F, link) /\ f \in F \cup {EMPTY} /\ x \notin F
  BY ListFacts
<1> HIDE DEF new, F
<1>3. List(a, new) \subseteq List(a, link)
  <2>1. /\ List(a, link) \in SUBSET Pool /\ Closed(List(a, link), link)
        /\ a \in List(a, link) \cup {EMPTY}
    BY ListFacts
  <2>2. Closed(List(a, link), new)
    BY <1>1, <2>1 DEF Closed
  <2> QED
    BY <2>1, <2>2, ListLeast
<1>4. List(a, link) \subseteq List(a, new) \cup C
  <2>1. /\ List(a, new) \in SUBSET Pool /\ Closed(List(a, new), new)
        /\ a \in List(a, new) \cup {EMPTY}
    BY <1>1, ListFacts
  <2>2. Closed(List(a, new) \cup C, link)
    BY <1>1, <2>1 DEF Closed
  <2> QED
    BY <2>1, <2>2, ListLeast
<1>5. List(f, new) = F
  <2>1. Closed(F, new)
    BY <1>1, <1>2 DEF Closed
  <2>2. ASSUME NEW S \in SUBSET F, Closed(S, new), f \in S \cup {EMPTY}
        PROVE  F \subseteq S
    <3>1. Closed(S, link)
      BY <1>1, <1>2, <2>2 DEF Closed
    <3> QED
      BY <1>2, <2>2, <3>1, ListLeast DEF F
  <2> QED
    BY <1>1, <1>2, <2>1, <2>2, ListIs
<1>6. Acyclic(link) => Acyclic(new)
  BY <1>1, PoolIsNat DEF Acyclic
<1>7. OneIn(link) => OneIn(new)
  BY <1>1 DEF OneIn
<1>8. \A h \in Links : NoneTo(link, h) => NoneTo(new, h)
  BY <1>1 DEF NoneTo
<1> QED
  BY <1>3, <1>4, <1>5, <1>6, <1>7, <1>8 DEF new, F

(***************************************************************************)
(* The pool that Initialize leaves                                         *)
(***************************************************************************)

LEMMA SmallestNumber ==
  ASSUME NEW T \in SUBSET Nat, T # {}
  PROVE  \E m \in T : \A n \in T : m <= n
<1>1. PICK m \in T : \A n \in T : <<n, m>> \notin OpToRel(<, Nat)
  BY NatLessThanWellFounded, WFMin
<1>2. \A n \in T : ~(n < m)
  BY <1>1 DEF OpToRel
<1> QED
  BY <1>2

LEMMA Smallest ==
  ASSUME NEW S \in SUBSET Pool, S # {}
  PROVE  \E m \in S : \A i \in S : m <= i
<1>1. S \in SUBSET Nat
  BY PoolIsNat
<1> QED
  BY <1>1, SmallestNumber

LEMMA Largest ==
  ASSUME NEW S \in SUBSET Pool, S # {}
  PROVE  \E m \in S : \A i \in S : i <= m
<1> DEFINE T == {MaxSounds - 1 - i : i \in S}
<1>1. T \in SUBSET Nat /\ T # {}
  <2>1. \A i \in S : MaxSounds - 1 - i \in Nat
    BY SizeAssumption DEF Pool
  <2> QED
    BY <2>1
<1>2. PICK t \in T : \A n \in T : t <= n
  <2> HIDE DEF T
  <2> QED
    BY <1>1, SmallestNumber
<1>3. PICK m \in S : t = MaxSounds - 1 - m
  BY <1>2
<1>4. \A i \in S : t <= MaxSounds - 1 - i
  BY <1>2
<1> QED
  BY <1>3, <1>4, SizeAssumption DEF Pool

LEMMA InitialLists ==
  ASSUME maxClients \in 1 .. MaxPlayers
  PROVE  /\ InitialNext \in [Pool -> Links]
         /\ maxClients - 1 \in Clients /\ Clients \subseteq Pool /\ InitialFree \in Links
         /\ List(maxClients - 1, InitialNext) = Clients
         /\ List(InitialFree, InitialNext) = Pool \ Clients
         /\ Acyclic(InitialNext) /\ OneIn(InitialNext)
         /\ NoneTo(InitialNext, maxClients - 1) /\ NoneTo(InitialNext, InitialFree)
         /\ \A c \in Clients : InitialNext[c] \in Clients \cup {EMPTY}
<1> USE SizeAssumption DEF EMPTY
<1>1. /\ InitialNext \in [Pool -> Links] /\ maxClients - 1 \in Links /\ InitialFree \in Links
      /\ maxClients - 1 \in Clients /\ Clients \subseteq Pool
  BY DEF InitialNext, InitialFree, Links, Pool, Clients
<1>2. \A c \in Clients : InitialNext[c] = c - 1
  BY DEF InitialNext, Pool, Clients
<1>3. \A i \in Pool \ Clients :
         InitialNext[i] = IF i = MaxSounds - 1 THEN EMPTY ELSE i + 1
  BY DEF InitialNext, Pool, Clients
<1>4. List(maxClients - 1, InitialNext) = Clients
  <2>1. Closed(Clients, InitialNext)
    BY <1>2 DEF Closed, Clients
  <2>2. ASSUME NEW S \in SUBSET Clients, Closed(S, InitialNext), maxClients - 1 \in S \cup {EMPTY},
               Clients \ S # {}
        PROVE  FALSE
    <3>1. PICK m \in Clients \ S : \A i \in Clients \ S : i <= m
      BY <1>1, <2>2, Largest
    <3>2. maxClients - 1 \in S /\ m + 1 \in S
      BY <3>1, <2>2 DEF Clients
    <3> QED
      BY <1>2, <2>2, <3>1, <3>2 DEF Closed, Clients
  <2> QED
    BY <1>1, <2>1, <2>2, ListIs
<1>5. List(InitialFree, InitialNext) = Pool \ Clients
  <2>1. Closed(Pool \ Clients, InitialNext)
    BY <1>3 DEF Closed, Clients, Pool
  <2>2. InitialFree \in (Pool \ Clients) \cup {EMPTY}
    BY DEF InitialFree, Clients, Pool
  <2>3. ASSUME NEW S \in SUBSET (Pool \ Clients), Closed(S, InitialNext),
               InitialFree \in S \cup {EMPTY}, (Pool \ Clients) \ S # {}
        PROVE  FALSE
    <3>1. PICK m \in (Pool \ Clients) \ S : \A i \in (Pool \ Clients) \ S : m <= i
      BY <2>3, Smallest
    <3>2. m # maxClients /\ m \in Int /\ m >= maxClients /\ m < MaxSounds
      BY <2>3, <3>1 DEF InitialFree, Clients, Pool
    <3>3. m - 1 \in S
      BY <3>1, <3>2 DEF Clients, Pool
    <3>4. InitialNext[m - 1] = m
      BY <1>3, <3>2, <3>3 DEF Pool
    <3> QED
      BY <2>3, <3>1, <3>2, <3>3, <3>4 DEF Closed
  <2> QED
    BY <1>1, <2>1, <2>2, <2>3, ListIs
<1>6. Acyclic(InitialNext)
  <2> SUFFICES ASSUME NEW S \in SUBSET Pool, S # {}, \A i \in S : InitialNext[i] \in S
               PROVE  FALSE
    BY DEF Acyclic
  <2>1. CASE S \cap Clients # {}
    <3>1. PICK m \in S \cap Clients : \A i \in S \cap Clients : m <= i
      BY <2>1, Smallest
    <3>2. m - 1 \in S
      BY <1>2, <3>1
    <3> QED
      BY <3>1, <3>2 DEF Clients, Pool
  <2>2. CASE S \cap Clients = {}
    <3>1. PICK m \in S : \A i \in S : i <= m
      BY Largest
    <3> QED
      BY <1>3, <2>2, <3>1 DEF Pool
  <2> QED
    BY <2>1, <2>2
<1>7. OneIn(InitialNext)
  BY <1>2, <1>3 DEF OneIn, Pool, Clients
<1>8. NoneTo(InitialNext, maxClients - 1) /\ NoneTo(InitialNext, InitialFree)
  BY <1>2, <1>3 DEF NoneTo, Pool, Clients, InitialFree
<1>9. \A c \in Clients : InitialNext[c] \in Clients \cup {EMPTY}
  BY <1>2 DEF Clients
<1> QED
  BY <1>1, <1>4, <1>5, <1>6, <1>7, <1>8, <1>9

(***************************************************************************)
(* The invariant                                                           *)
(***************************************************************************)

(* Behind the entry of a client there are only those of other clients.     *)
ClientsLast == \A c \in Clients : next[c] \in Clients \cup {EMPTY}

LinksFit ==
  /\ Acyclic(next) /\ OneIn(next)
  /\ NoneTo(next, activeHead) /\ NoneTo(next, freeHead)

(* The loop that runs is at an entry of the list it walks, and knows the   *)
(* entry before it.                                                        *)
WalkFits ==
  /\ walk.loop \in {"think", "listen"} => walk.cur \in ActiveList \cup {EMPTY}
  /\ walk.loop = "think" =>
       IF walk.prev = EMPTY THEN walk.cur = activeHead
       ELSE walk.prev \in ActiveList /\ next[walk.prev] = walk.cur
  /\ walk.loop \in {"listen", "choose"} => walk.who \in Monsters

IInv ==
  /\ TypeOK
  /\ LinksFit
  /\ ListsAreApart
  /\ OnlyClientsAreLost
  /\ ClientsLast
  /\ WalkFits

LEMMA InitIInv == Init => IInv
<1> SUFFICES ASSUME Init PROVE IInv
  OBVIOUS
<1> USE DEF Init
<1>0. maxClients \in 1 .. MaxPlayers
  OBVIOUS
<1>1. TypeOK
  BY InitialLists, SizeAssumption DEF TypeOK, Idle, Links, Pool
<1>2. LinksFit
  BY <1>0, InitialLists DEF LinksFit
<1>3. ActiveList = Clients /\ FreeList = Pool \ Clients
  BY <1>0, InitialLists DEF ActiveList, FreeList
<1>4. ListsAreApart /\ OnlyClientsAreLost
  BY <1>0, <1>3, InitialLists DEF ListsAreApart, OnlyClientsAreLost
<1>5. ClientsLast
  BY <1>0, InitialLists DEF ClientsLast
<1>6. WalkFits
  BY DEF WalkFits, Idle
<1> QED
  BY <1>1, <1>2, <1>4, <1>5, <1>6 DEF IInv

(* What the lists give to each step.                                       *)
LEMMA Facts ==
  ASSUME IInv
  PROVE  /\ next \in [Pool -> Links] /\ activeHead \in Links /\ freeHead \in Links
         /\ ActiveList \in SUBSET Pool /\ FreeList \in SUBSET Pool
         /\ Closed(ActiveList, next) /\ Closed(FreeList, next)
         /\ activeHead \in ActiveList \cup {EMPTY} /\ freeHead \in FreeList \cup {EMPTY}
         /\ ActiveList \cap FreeList = {}
         /\ Clients \in SUBSET Pool
<1>1. next \in [Pool -> Links] /\ activeHead \in Links /\ freeHead \in Links
      /\ ActiveList \cap FreeList = {}
  BY DEF IInv, TypeOK, ListsAreApart
<1>2. Clients \in SUBSET Pool
  BY SizeAssumption DEF IInv, TypeOK, Clients, Pool
<1> QED
  BY <1>1, <1>2, ListFacts DEF ActiveList, FreeList

(* A step that leaves the pool alone disturbs no more than the walk.       *)
LEMMA PoolKept ==
  ASSUME IInv, UNCHANGED pool, TypeOK', WalkFits'
  PROVE  IInv'
<1>1. UNCHANGED <<maxClients, next, noise, over, activeHead, freeHead>>
  BY DEF pool
<1>2. Clients' = Clients /\ ActiveList' = ActiveList /\ FreeList' = FreeList
  BY <1>1 DEF Clients, ActiveList, FreeList
<1> QED
  BY <1>1, <1>2 DEF IInv, LinksFit, ListsAreApart, OnlyClientsAreLost, ClientsLast

LEMMA InsertSoundStep ==
  ASSUME IInv, NEW type, InsertSound(type)
  PROVE  /\ IInv'
         /\ freeHead \in FreeList
         /\ FreeList' = FreeList \ {freeHead} /\ ActiveList' = ActiveList \cup {freeHead}
<1> USE DEF InsertSound
<1>1. /\ freeHead \in Pool /\ freeHead \in FreeList /\ walk = Idle
      /\ next' = [next EXCEPT ![freeHead] = activeHead]
      /\ activeHead' = freeHead /\ freeHead' = next[freeHead]
      /\ UNCHANGED <<maxClients, over, nextAudible, audible, hears, listened, walk>>
  BY Facts DEF Links, Quiet, ears
<1>2. /\ LinksFit'
      /\ FreeList' = FreeList \ {freeHead} /\ ActiveList' = ActiveList \cup {freeHead}
  <2>1. List(freeHead, next) \cap List(activeHead, next) = {}
    BY Facts DEF ActiveList, FreeList
  <2>2. Acyclic(next) /\ OneIn(next) /\ NoneTo(next, freeHead) /\ NoneTo(next, activeHead)
    BY DEF IInv, LinksFit
  <2> DEFINE new == [next EXCEPT ![freeHead] = activeHead]
  <2>3. /\ List(next[freeHead], new) = List(freeHead, next) \ {freeHead}
        /\ List(freeHead, new) = List(activeHead, next) \cup {freeHead}
        /\ Acyclic(new) /\ OneIn(new)
        /\ NoneTo(new, freeHead) /\ NoneTo(new, next[freeHead])
    BY <1>1, <2>1, <2>2, Facts, MoveHead
  <2> HIDE DEF new
  <2>4. next' = new
    BY <1>1 DEF new
  <2> QED
    BY <1>1, <2>3, <2>4 DEF LinksFit, ActiveList, FreeList
<1>3. TypeOK'
  <2>1. next' \in [Pool -> Links] /\ activeHead' \in Links /\ freeHead' \in Links
        /\ noise' \subseteq Pool
    BY <1>1, Facts DEF IInv, TypeOK, Links
  <2>2. Clients' = Clients
    BY <1>1 DEF Clients
  <2> QED
    BY <1>1, <2>1, <2>2 DEF IInv, TypeOK
<1>4. Clients' = Clients /\ freeHead \notin Clients
  BY <1>1 DEF IInv, OnlyClientsAreLost, Clients
<1>5. ListsAreApart' /\ OnlyClientsAreLost'
  BY <1>1, <1>2, <1>4, Facts DEF IInv, OnlyClientsAreLost, ListsAreApart
<1>6. ClientsLast'
  BY <1>1, <1>4, Facts DEF IInv, ClientsLast
<1>7. WalkFits'
  BY <1>1 DEF WalkFits, Idle
<1> QED
  BY <1>1, <1>2, <1>3, <1>5, <1>6, <1>7 DEF IInv

LEMMA FreeSoundStep ==
  ASSUME IInv, walk.loop = "think", walk.cur # EMPTY, FreeSound, UNCHANGED ears
  PROVE  /\ IInv'
         /\ walk.cur \in (ActiveList \cap over) \ Clients
         /\ over' = over \ {walk.cur} /\ UNCHANGED maxClients
         /\ ActiveList' = ActiveList \ {walk.cur} /\ FreeList' = FreeList \cup {walk.cur}
<1> DEFINE x == walk.cur
<1>1. /\ x \in over /\ x \in ActiveList /\ x \in Pool /\ x \notin Clients
      /\ freeHead' = x /\ over' = over \ {x}
      /\ walk' = [walk EXCEPT !.cur = next[@]]
      /\ UNCHANGED <<maxClients, noise, nextAudible, audible, hears, listened>>
  BY Facts DEF FreeSound, IInv, WalkFits, TypeOK, ears
<1>2. /\ Acyclic(next) /\ OneIn(next) /\ NoneTo(next, activeHead) /\ NoneTo(next, freeHead)
      /\ List(activeHead, next) \cap List(freeHead, next) = {}
  BY Facts DEF IInv, LinksFit, ActiveList, FreeList
<1>3. Clients' = Clients
  BY <1>1 DEF Clients
<1>4. /\ walk'.loop = "think" /\ walk'.cur = next[x] /\ walk'.prev = walk.prev
      /\ walk' \in [loop : {"none", "think", "listen", "choose"}, who : Monsters \cup {Nobody},
                    prev : Links, cur : Links]
  BY <1>1, Facts DEF IInv, TypeOK
<1>5. next[x] \in ActiveList \cup {EMPTY} /\ next[x] # x
  <2>1. next[x] \in ActiveList \cup {EMPTY}
    BY <1>1, Facts DEF Closed
  <2>2. {x} \in SUBSET Pool /\ {x} # {}
    BY <1>1
  <2>3. next[x] # x
    BY <1>2, <2>2 DEF Acyclic
  <2> QED
    BY <2>1, <2>3
<1> HIDE DEF x
<1>6. /\ LinksFit' /\ next' \in [Pool -> Links] /\ activeHead' \in Links
      /\ ActiveList' = ActiveList \ {x} /\ FreeList' = FreeList \cup {x}
      /\ ClientsLast' /\ WalkFits'
  <2>1. CASE walk.prev = EMPTY
    <3>1. /\ x = activeHead /\ next' = [next EXCEPT ![x] = freeHead] /\ activeHead' = next[x]
      BY <2>1 DEF FreeSound, IInv, WalkFits, x
    <3>2. /\ LinksFit' /\ ActiveList' = ActiveList \ {x} /\ FreeList' = FreeList \cup {x}
      <4> DEFINE new == [next EXCEPT ![x] = freeHead]
      <4>1. /\ List(next[x], new) = List(x, next) \ {x}
            /\ List(x, new) = List(freeHead, next) \cup {x}
            /\ Acyclic(new) /\ OneIn(new)
            /\ NoneTo(new, x) /\ NoneTo(new, next[x])
        BY <1>1, <1>2, <3>1, Facts, MoveHead
      <4> HIDE DEF new
      <4>2. next' = new
        BY <3>1 DEF new
      <4> QED
        BY <1>1, <3>1, <4>1, <4>2 DEF LinksFit, ActiveList, FreeList
    <3>3. next' \in [Pool -> Links] /\ activeHead' \in Links
      BY <1>1, <3>1, Facts
    <3>4. ClientsLast'
      BY <1>1, <1>3, <3>1, Facts DEF IInv, ClientsLast
    <3>5. WalkFits'
      BY <1>4, <1>5, <2>1, <3>1, <3>2 DEF WalkFits
    <3> QED
      BY <3>2, <3>3, <3>4, <3>5
  <2>2. CASE walk.prev # EMPTY
    <3> DEFINE p == walk.prev
    <3>1. /\ p \in ActiveList /\ p \in Pool /\ next[p] = x /\ activeHead' = activeHead
          /\ next' = [next EXCEPT ![p] = next[x], ![x] = freeHead]
      BY <2>2, Facts DEF FreeSound, IInv, WalkFits, x
    <3> HIDE DEF p
    <3>2. /\ LinksFit' /\ ActiveList' = ActiveList \ {x} /\ FreeList' = FreeList \cup {x}
      <4> DEFINE new == [next EXCEPT ![p] = next[x], ![x] = freeHead]
      <4>1. p \in List(activeHead, next)
        BY <3>1 DEF ActiveList
      <4>2. next \in [Pool -> Links] /\ activeHead \in Links /\ freeHead \in Links
        BY Facts
      <4>3. x \in Pool /\ next[p] = x /\ p \in Pool /\ p # x
        BY <1>1, <1>5, <3>1
      <4>4. /\ new \in [Pool -> Links] /\ new[x] = freeHead /\ new[p] = next[x]
            /\ \A i \in Pool : i # x /\ i # p => new[i] = next[i]
        BY <4>2, <4>3
      <4> HIDE DEF new
      <4>5. /\ List(activeHead, new) = List(activeHead, next) \ {x}
            /\ List(x, new) = List(freeHead, next) \cup {x}
            /\ Acyclic(new) /\ OneIn(new)
            /\ NoneTo(new, activeHead) /\ NoneTo(new, x)
        BY ONLY <1>2, <4>1, <4>2, <4>3, <4>4, MoveNext
      <4>6. next' = new
        BY <3>1 DEF new
      <4> QED
        BY <1>1, <3>1, <4>5, <4>6 DEF LinksFit, ActiveList, FreeList
    <3>3. next' \in [Pool -> Links] /\ activeHead' \in Links
      BY <1>1, <3>1, Facts
    <3>4. ClientsLast'
      <4>1. p \notin Clients
        BY <1>1, <3>1, PoolIsNat DEF IInv, ClientsLast
      <4> QED
        BY <1>1, <1>3, <3>1, <4>1, Facts DEF IInv, ClientsLast
    <3>5. WalkFits'
      <4>1. p # x /\ next'[p] = next[x]
        BY <1>1, <1>5, <3>1, Facts
      <4> QED
        BY <1>4, <1>5, <2>2, <3>1, <3>2, <4>1 DEF WalkFits, p
    <3> QED
      BY <3>2, <3>3, <3>4, <3>5
  <2> QED
    BY <2>1, <2>2
<1>7. TypeOK'
  <2>1. freeHead' \in Links
    BY <1>1 DEF Links
  <2> QED
    BY <1>1, <1>3, <1>4, <1>6, <2>1 DEF IInv, TypeOK
<1>8. ListsAreApart' /\ OnlyClientsAreLost'
  BY <1>1, <1>3, <1>6, Facts DEF IInv, OnlyClientsAreLost, ListsAreApart
<1>9. IInv'
  BY <1>6, <1>7, <1>8 DEF IInv
<1> QED
  BY <1>1, <1>6, <1>9 DEF x

LEMMA ThinkStepStep == ASSUME IInv, ThinkStep PROVE IInv'
<1>1. CASE walk.cur # EMPTY /\ FreeSound
  BY <1>1, FreeSoundStep DEF ThinkStep
<1>2. CASE walk.cur # EMPTY /\ KeepSound
  <2>1. /\ walk.loop = "think" /\ walk.cur \in ActiveList /\ walk.cur \in Pool
        /\ next[walk.cur] \in ActiveList \cup {EMPTY} /\ next[walk.cur] \in Links
    BY <1>2, Facts DEF ThinkStep, IInv, WalkFits, Closed
  <2>2. /\ walk'.loop = "think" /\ walk'.prev = walk.cur /\ walk'.cur = next[walk.cur]
        /\ walk' \in [loop : {"none", "think", "listen", "choose"}, who : Monsters \cup {Nobody},
                      prev : Links, cur : Links]
    BY <1>2, <2>1 DEF KeepSound, IInv, TypeOK, Links
  <2>3. UNCHANGED <<maxClients, next, noise, over, activeHead, freeHead,
                    nextAudible, audible, hears, listened>>
    BY <1>2 DEF ThinkStep, KeepSound, pool, ears
  <2>4. ActiveList' = ActiveList /\ Clients' = Clients
    BY <2>3 DEF ActiveList, Clients
  <2>5. TypeOK' /\ WalkFits'
    BY <1>2, <2>1, <2>2, <2>3, <2>4 DEF IInv, TypeOK, WalkFits
  <2> QED
    BY <1>2, <2>5, PoolKept DEF KeepSound
<1>3. CASE walk.cur = EMPTY
  <2>1. walk' = Idle /\ UNCHANGED <<pool, ears>>
    BY <1>3 DEF ThinkStep
  <2>2. Clients' = Clients
    BY <2>1 DEF pool, Clients
  <2>3. TypeOK' /\ WalkFits'
    BY <2>1, <2>2 DEF IInv, TypeOK, WalkFits, Idle, pool, ears, Links
  <2> QED
    BY <2>1, <2>3, PoolKept
<1> QED
  BY <1>1, <1>2, <1>3 DEF ThinkStep

LEMMA ResetStep ==
  ASSUME IInv, NEW c \in Clients, Reset(c)
  PROVE  /\ IInv'
         /\ FreeList' = FreeList /\ ActiveList' \subseteq ActiveList
         /\ ActiveList \subseteq ActiveList' \cup Clients
<1>1. /\ walk = Idle /\ next' = [next EXCEPT ![c] = EMPTY] /\ noise' = noise \ {c}
      /\ UNCHANGED <<maxClients, over, activeHead, freeHead,
                     nextAudible, audible, hears, listened, walk>>
  BY DEF Reset, Quiet, ears
<1>2. Clients' = Clients
  BY <1>1 DEF Clients
<1>3. c \in Pool /\ c \notin FreeList /\ \A i \in Clients : next[i] \in Clients \cup {EMPTY}
  BY Facts DEF IInv, OnlyClientsAreLost, ClientsLast
<1>4. /\ LinksFit' /\ FreeList' = FreeList
      /\ ActiveList' \subseteq ActiveList /\ ActiveList \subseteq ActiveList' \cup Clients
  <2> DEFINE new == [next EXCEPT ![c] = EMPTY]
  <2>1. /\ List(activeHead, new) \subseteq List(activeHead, next)
        /\ List(activeHead, next) \subseteq List(activeHead, new) \cup Clients
        /\ List(freeHead, new) = List(freeHead, next)
        /\ Acyclic(next) => Acyclic(new)
        /\ OneIn(next) => OneIn(new)
        /\ \A h \in Links : NoneTo(next, h) => NoneTo(new, h)
    BY <1>3, Facts, CutLink DEF FreeList
  <2> HIDE DEF new
  <2>2. next' = new
    BY <1>1 DEF new
  <2> QED
    BY <1>1, <2>1, <2>2, Facts DEF IInv, LinksFit, ActiveList, FreeList
<1>5. TypeOK'
  BY <1>1, <1>2, <1>3 DEF IInv, TypeOK, Links
<1>6. ListsAreApart' /\ OnlyClientsAreLost'
  BY <1>2, <1>4 DEF IInv, ListsAreApart, OnlyClientsAreLost
<1>7. ClientsLast'
  BY <1>1, <1>2, <1>3, Facts DEF ClientsLast
<1>8. WalkFits'
  BY <1>1 DEF WalkFits, Idle
<1> QED
  BY <1>4, <1>5, <1>6, <1>7, <1>8 DEF IInv

LEMMA ListenStepStep == ASSUME IInv, ListenStep PROVE IInv'
<1>1. /\ walk.loop = "listen" /\ walk.who \in Monsters /\ UNCHANGED pool
      /\ UNCHANGED <<maxClients, next, noise, over, activeHead, freeHead>>
  BY DEF ListenStep, IInv, WalkFits, pool
<1>2. ActiveList' = ActiveList /\ Clients' = Clients
  BY <1>1 DEF ActiveList, Clients
<1>3. CASE walk.cur # EMPTY
  <2>1. walk.cur \in Pool /\ next[walk.cur] \in ActiveList \cup {EMPTY} /\ next[walk.cur] \in Links
    BY <1>1, <1>3, Facts DEF IInv, WalkFits, Closed
  <2>2. /\ walk' \in [loop : {"none", "think", "listen", "choose"}, who : Monsters \cup {Nobody},
                      prev : Links, cur : Links]
        /\ walk'.loop = "listen" /\ walk'.who = walk.who /\ walk'.cur = next[walk.cur]
    BY <1>1, <1>3, <2>1 DEF ListenStep, IInv, TypeOK
  <2>3. /\ nextAudible' \in [Pool -> Links] /\ audible' \in [Monsters -> Links]
        /\ hears' \subseteq Monsters /\ listened' \subseteq Monsters
    <3>1. CASE Hear(walk.who, walk.cur)
      BY <1>1, <2>1, <3>1 DEF Hear, IInv, TypeOK, Links
    <3>2. CASE UNCHANGED ears
      BY <3>2 DEF ears, IInv, TypeOK
    <3> QED
      BY <1>3, <3>1, <3>2 DEF ListenStep
  <2>4. TypeOK' /\ WalkFits'
    BY <1>1, <1>2, <2>1, <2>2, <2>3 DEF IInv, TypeOK, WalkFits
  <2> QED
    BY <1>1, <2>4, PoolKept
<1>4. CASE walk.cur = EMPTY
  <2>1. UNCHANGED ears /\ (walk' = Idle \/ walk' = [Idle EXCEPT !.loop = "choose",
                           !.who = walk.who, !.cur = audible[walk.who]])
    BY <1>4 DEF ListenStep, PBestSound
  <2>2. audible[walk.who] \in Links
    BY <1>1 DEF IInv, TypeOK
  <2>3. /\ walk' \in [loop : {"none", "think", "listen", "choose"}, who : Monsters \cup {Nobody},
                      prev : Links, cur : Links]
        /\ walk'.loop = "none" \/ (walk'.loop = "choose" /\ walk'.who \in Monsters)
    <3>1. CASE walk' = Idle
      BY <3>1 DEF Idle, Links
    <3>2. CASE walk' = [Idle EXCEPT !.loop = "choose", !.who = walk.who, !.cur = audible[walk.who]]
      BY <1>1, <2>2, <3>2 DEF Idle, Links
    <3> QED
      BY <2>1, <3>1, <3>2
  <2>4. TypeOK'
    BY <1>1, <1>2, <2>1, <2>3 DEF IInv, TypeOK, ears
  <2>5. WalkFits'
    BY <2>3 DEF WalkFits
  <2> QED
    BY <1>1, <2>4, <2>5, PoolKept
<1> QED
  BY <1>3, <1>4

LEMMA ChooseStepStep == ASSUME IInv, ChooseStep PROVE IInv'
<1>1. /\ walk.loop = "choose" /\ walk.who \in Monsters /\ UNCHANGED pool
      /\ UNCHANGED <<maxClients, next, noise, over, activeHead, freeHead,
                     nextAudible, audible, listened>>
  BY DEF ChooseStep, IInv, WalkFits, pool
<1>2. ActiveList' = ActiveList /\ Clients' = Clients
  BY <1>1 DEF ActiveList, Clients
<1>3. hears' \subseteq Monsters
  BY DEF ChooseStep, IInv, TypeOK
<1>4. CASE walk.cur # EMPTY
  <2>1. walk' = [walk EXCEPT !.cur = nextAudible[@]] /\ nextAudible[walk.cur] \in Links
    BY <1>4 DEF ChooseStep, IInv, TypeOK, Links
  <2>2. TypeOK' /\ WalkFits'
    BY <1>1, <1>2, <1>3, <2>1 DEF IInv, TypeOK, WalkFits
  <2> QED
    BY <1>1, <2>2, PoolKept
<1>5. CASE walk.cur = EMPTY
  <2>1. walk' = Idle
    BY <1>5 DEF ChooseStep
  <2>2. TypeOK' /\ WalkFits'
    BY <1>1, <1>2, <1>3, <2>1 DEF IInv, TypeOK, WalkFits, Idle, Links
  <2> QED
    BY <1>1, <2>2, PoolKept
<1> QED
  BY <1>4, <1>5

LEMMA LoadGameStep == ASSUME IInv, LoadGame PROVE IInv'
<1>0. /\ maxClients \in 1 .. MaxPlayers /\ UNCHANGED <<maxClients, walk>> /\ walk = Idle
      /\ next' = InitialNext /\ activeHead' = maxClients - 1 /\ freeHead' = InitialFree
  BY DEF LoadGame, IInv, TypeOK, Quiet
<1>1. TypeOK'
  BY <1>0, InitialLists, SizeAssumption DEF LoadGame, IInv, TypeOK, Idle, Links, Pool
<1>2. LinksFit'
  BY <1>0, InitialLists DEF LinksFit
<1>3. ActiveList' = Clients /\ FreeList' = Pool \ Clients /\ Clients' = Clients
  BY <1>0, InitialLists DEF ActiveList, FreeList, Clients
<1>4. ListsAreApart' /\ OnlyClientsAreLost'
  BY <1>0, <1>3, InitialLists DEF ListsAreApart, OnlyClientsAreLost
<1>5. ClientsLast'
  BY <1>0, <1>3, InitialLists DEF ClientsLast
<1>6. WalkFits'
  BY <1>0 DEF WalkFits, Idle
<1> QED
  BY <1>1, <1>2, <1>4, <1>5, <1>6 DEF IInv

(* The steps that touch neither link of the pool.                          *)
LEMMA OtherStep ==
  ASSUME IInv,
         \/ \E i \in Pool : Expire(i)
         \/ Think
         \/ \E c \in Clients : UpdatePlayerSound(c)
         \/ \E m \in Monsters : Listen(m) \/ Recall(m)
  PROVE  IInv'
<1>1. /\ UNCHANGED <<maxClients, next, activeHead, freeHead, nextAudible>>
      /\ noise' \subseteq Pool /\ over' \subseteq Pool \ Clients /\ audible' \in [Monsters -> Links]
      /\ hears' \subseteq Monsters /\ listened' \subseteq Monsters
  BY Facts DEF Expire, Think, UpdatePlayerSound, Listen, Recall, pool, ears, IInv, TypeOK, Links
<1>2. ActiveList' = ActiveList /\ FreeList' = FreeList /\ Clients' = Clients
  BY <1>1 DEF ActiveList, FreeList, Clients
<1>3. \/ walk' = Idle
      \/ walk' = [Idle EXCEPT !.loop = "think", !.cur = activeHead]
      \/ \E m \in Monsters : walk' = [Idle EXCEPT !.loop = "listen", !.who = m, !.cur = activeHead]
      \/ \E m \in Monsters : walk' = [Idle EXCEPT !.loop = "choose", !.who = m, !.cur = audible[m]]
  BY DEF Expire, Think, UpdatePlayerSound, Listen, Recall, PBestSound, Quiet
<1>4. /\ walk' \in [loop : {"none", "think", "listen", "choose"}, who : Monsters \cup {Nobody},
                   prev : Links, cur : Links]
      /\ WalkFits'
  <2> USE DEF Idle, Links, WalkFits
  <2>1. CASE walk' = Idle
    BY <2>1
  <2>2. CASE walk' = [Idle EXCEPT !.loop = "think", !.cur = activeHead]
    BY <1>1, <1>2, <2>2, Facts
  <2>3. ASSUME NEW m \in Monsters,
               walk' = [Idle EXCEPT !.loop = "listen", !.who = m, !.cur = activeHead]
        PROVE  <1>4!1 /\ WalkFits'
    BY <1>1, <1>2, <2>3, Facts
  <2>4. ASSUME NEW m \in Monsters,
               walk' = [Idle EXCEPT !.loop = "choose", !.who = m, !.cur = audible[m]]
        PROVE  <1>4!1 /\ WalkFits'
    <3>1. audible[m] \in Links
      BY DEF IInv, TypeOK
    <3> QED
      BY <1>1, <1>2, <2>4, <3>1
  <2> QED
    BY <1>3, <2>1, <2>2, <2>3, <2>4
<1>5. TypeOK'
  BY <1>1, <1>2, <1>4 DEF IInv, TypeOK
<1> QED
  BY <1>1, <1>2, <1>4, <1>5 DEF IInv, LinksFit, ListsAreApart, OnlyClientsAreLost, ClientsLast

LEMMA StepIInv == IInv /\ [Next]_vars => IInv'
<1> SUFFICES ASSUME IInv, [Next]_vars PROVE IInv'
  OBVIOUS
<1>1. ASSUME NEW type \in {"sound", "scent"}, InsertSound(type) PROVE IInv'
  BY <1>1, InsertSoundStep
<1>2. CASE ThinkStep
  BY <1>2, ThinkStepStep
<1>3. CASE ListenStep
  BY <1>3, ListenStepStep
<1>4. CASE ChooseStep
  BY <1>4, ChooseStepStep
<1>5. ASSUME NEW c \in Clients, Reset(c) PROVE IInv'
  BY <1>5, ResetStep
<1>6. CASE LoadGame
  BY <1>6, LoadGameStep
<1>7. CASE UNCHANGED vars
  <2>1. UNCHANGED pool /\ UNCHANGED <<maxClients, next, noise, over, activeHead, freeHead,
          nextAudible, audible, hears, listened, walk>>
    BY <1>7 DEF vars, pool, ears
  <2>2. ActiveList' = ActiveList /\ Clients' = Clients
    BY <2>1 DEF ActiveList, Clients
  <2>3. TypeOK' /\ WalkFits'
    BY <2>1, <2>2 DEF IInv, TypeOK, WalkFits
  <2> QED
    BY <2>1, <2>3, PoolKept
<1> QED
  BY <1>1, <1>2, <1>3, <1>4, <1>5, <1>6, <1>7, OtherStep DEF Next, WalkStep

LEMMA Invariance == Spec => []IInv
  BY InitIInv, StepIInv, PTL DEF Spec

(***************************************************************************)
(* What a monster hears                                                    *)
(***************************************************************************)

LEMMA EmptyList == ASSUME NEW link PROVE List(EMPTY, link) = {}
<1>1. {} \in SUBSET Pool /\ Closed({}, link) /\ EMPTY \in {} \cup {EMPTY}
  BY DEF Closed
<1>2. List(EMPTY, link) \subseteq {}
  BY <1>1, ListLeast
<1> QED
  BY <1>2

NoCircle(L, link) == \A S \in SUBSET L : S # {} => \E i \in S : link[i] \notin S

(* What lies behind an entry does not lead back to it: else the entries    *)
(* behind it that lead to it would be linked in a circle.                  *)
LEMMA Behind ==
  ASSUME NEW link \in [Pool -> Links], NEW x \in Pool, NoCircle(List(x, link), link)
  PROVE  List(link[x], link) \subseteq List(x, link) \ {x} /\ x \in List(x, link)
<1> DEFINE M == List(link[x], link)
           D == {j \in M : x \in List(j, link)}
<1>1. /\ M \in SUBSET Pool /\ Closed(M, link) /\ link[x] \in M \cup {EMPTY}
      /\ \A j \in Pool : /\ List(j, link) \in SUBSET Pool /\ Closed(List(j, link), link)
                         /\ j \in List(j, link) \cup {EMPTY}
  BY ListFacts DEF Links
<1>2. M \subseteq List(x, link)
  <2>1. link[x] \in List(x, link) \cup {EMPTY}
    BY <1>1, PoolIsNat DEF Closed
  <2> QED
    BY <1>1, <2>1, ListLeast
<1>3. ASSUME x \in M PROVE FALSE
  <2>1. x \in D
    BY <1>1, <1>3, PoolIsNat
  <2>2. ASSUME NEW j \in D PROVE link[j] \in D
    <3>1. j \in M /\ j \in Pool /\ x \in List(j, link) /\ link[j] \in M \cup {EMPTY}
      BY <1>1 DEF Closed
    <3>2. link[j] \in Links
      BY <3>1
    <3>3. x \in List(link[j], link)
      <4>1. CASE j = x
        BY <1>3, <4>1
      <4>2. CASE j # x
        <5> DEFINE N == List(link[j], link)
        <5>1. N \in SUBSET Pool /\ Closed(N, link) /\ link[j] \in N \cup {EMPTY}
          BY <3>2, ListFacts
        <5>2. Closed(N \cup {j}, link)
          BY <5>1 DEF Closed
        <5>3. List(j, link) \subseteq N \cup {j}
          BY <3>1, <5>1, <5>2, ListLeast
        <5> QED
          BY <3>1, <4>2, <5>3
      <4> QED
        BY <4>1, <4>2
    <3>4. link[j] # EMPTY
      BY <3>3, EmptyList
    <3> QED
      BY <3>1, <3>3, <3>4
  <2>3. D \in SUBSET List(x, link) /\ D # {}
    BY <1>2, <2>1
  <2> HIDE DEF D
  <2> QED
    BY <2>2, <2>3 DEF NoCircle
<1>4. x \in List(x, link)
  BY <1>1, PoolIsNat
<1> QED
  BY <1>2, <1>3, <1>4

LEMMA AcyclicIsEnough ==
  ASSUME NEW link \in [Pool -> Links], NEW h \in Links, Acyclic(link)
  PROVE  NoCircle(List(h, link), link)
BY ListFacts DEF Acyclic, NoCircle

(* An entry that is not in a list becomes its head.                        *)
LEMMA LinkHead ==
  ASSUME NEW link \in [Pool -> Links], NEW x \in Pool, NEW y \in Links,
         x \notin List(y, link)
  PROVE  List(x, [link EXCEPT ![x] = y]) = List(y, link) \cup {x}
<1> DEFINE new == [link EXCEPT ![x] = y]
           Y == List(y, link)
<1>1. Y \in SUBSET Pool /\ Closed(Y, link) /\ y \in Y \cup {EMPTY} /\ x \notin Y
  BY ListFacts
<1>2. new \in [Pool -> Links] /\ new[x] = y /\ \A i \in Pool \ {x} : new[i] = link[i]
  OBVIOUS
<1> HIDE DEF new, Y
<1>3. Closed(Y \cup {x}, new)
  BY <1>1, <1>2 DEF Closed
<1>4. ASSUME NEW S \in SUBSET (Y \cup {x}), Closed(S, new), x \in S \cup {EMPTY}
      PROVE  Y \cup {x} \subseteq S
  <2>1. x \in S
    BY <1>4, PoolIsNat
  <2>2. y \in (S \cap Y) \cup {EMPTY}
    BY <1>1, <1>2, <1>4, <2>1 DEF Closed
  <2>3. Closed(S \cap Y, link)
    BY <1>1, <1>2, <1>4 DEF Closed
  <2>4. Y \subseteq S \cap Y
    BY <1>1, <2>2, <2>3, ListLeast DEF Y
  <2> QED
    BY <2>1, <2>4
<1>5. Y \cup {x} \in SUBSET Pool /\ x \in Links /\ x \in (Y \cup {x}) \cup {EMPTY}
  BY <1>1 DEF Links
<1>6. List(x, new) = Y \cup {x}
  BY <1>2, <1>3, <1>4, <1>5, ListIs
<1> QED
  BY <1>6 DEF new, Y

(* While a monster listens, its list holds none of the entries the walk is *)
(* still to come to, so that each is linked once; and the condition is set *)
(* only with a noise in the list.                                          *)
HearingFits ==
  walk.loop = "listen" =>
    /\ AudibleList(walk.who) \cap List(walk.cur, next) = {}
    /\ walk.who \in hears => \E i \in AudibleList(walk.who) : i \in noise

(* The monster starts with an empty list.                                  *)
LEMMA ListenHears ==
  ASSUME IInv, NEW m \in Monsters, Listen(m)
  PROVE  HearingFits'
<1>1. /\ walk'.who = m /\ audible' = [audible EXCEPT ![m] = EMPTY]
      /\ hears' = hears \ {m} /\ UNCHANGED nextAudible
  BY DEF Listen, Idle
<1>2. audible'[m] = EMPTY
  BY <1>1 DEF IInv, TypeOK
<1>3. AudibleList(m)' = {}
  BY <1>2, EmptyList DEF AudibleList
<1> QED
  BY <1>1, <1>3 DEF HearingFits

(* The entry it hears becomes the head of its list, the walk goes on to    *)
(* those behind it.                                                        *)
LEMMA ListenStepHears ==
  ASSUME IInv, HearingFits, ListenStep
  PROVE  HearingFits'
<1>1. /\ walk.loop = "listen" /\ walk.who \in Monsters
      /\ UNCHANGED <<maxClients, next, noise, over, activeHead, freeHead>>
  BY DEF ListenStep, IInv, WalkFits, pool
<1>2. SUFFICES ASSUME walk'.loop = "listen" PROVE HearingFits'
  BY DEF HearingFits
<1>3. walk.cur # EMPTY /\ walk' = [walk EXCEPT !.cur = next[@]]
  <2>1. walk' # Idle
    BY <1>2 DEF Idle
  <2>2. ~PBestSound(walk.who)
    BY <1>2 DEF PBestSound, Idle
  <2> QED
    BY <2>1, <2>2 DEF ListenStep
<1> DEFINE m == walk.who
           i == walk.cur
           L == AudibleList(m)
           N == List(next[i], next)
<1>4. /\ i \in Pool /\ next \in [Pool -> Links] /\ nextAudible \in [Pool -> Links]
      /\ audible \in [Monsters -> Links]
  BY <1>1, <1>3, Facts DEF IInv, WalkFits, TypeOK
<1>5. walk'.who = m /\ walk'.cur = next[i] /\ next' = next /\ noise' = noise
  BY <1>1, <1>3 DEF IInv, TypeOK
<1>6. L \cap N = {} /\ i \notin L /\ i \notin N
  <2>1. NoCircle(List(i, next), next)
    BY <1>4, AcyclicIsEnough DEF IInv, LinksFit, Links
  <2>2. N \subseteq List(i, next) \ {i} /\ i \in List(i, next)
    BY <1>4, <2>1, Behind
  <2> QED
    BY <1>1, <2>2 DEF HearingFits
<1> HIDE DEF m, i, N
<1>7. CASE Hear(m, i)
  <2>1. /\ nextAudible' = [nextAudible EXCEPT ![i] = audible[m]]
        /\ audible'[m] = i
        /\ hears' = IF i \in noise THEN hears \cup {m} ELSE hears
    BY <1>1, <1>4, <1>7 DEF Hear, m
  <2>2. audible[m] \in Links
    BY <1>1, <1>4 DEF m
  <2>3. List(audible'[m], nextAudible') = L \cup {i}
    BY <1>4, <1>6, <2>1, <2>2, LinkHead DEF AudibleList
  <2>4. m \in hears => \E j \in L : j \in noise
    BY <1>1 DEF HearingFits, m
  <2> QED
    BY <1>5, <1>6, <2>1, <2>3, <2>4 DEF HearingFits, AudibleList, N
<1>8. CASE UNCHANGED ears
  BY <1>1, <1>5, <1>6, <1>8 DEF HearingFits, ears, AudibleList, N, m
<1> QED
  BY <1>3, <1>7, <1>8 DEF ListenStep, m, i

LEMMA StepHears == IInv /\ HearingFits /\ [Next]_vars => HearingFits'
<1> SUFFICES ASSUME IInv, HearingFits, [Next]_vars PROVE HearingFits'
  OBVIOUS
<1>1. CASE UNCHANGED vars
  BY <1>1 DEF vars, pool, ears, HearingFits, AudibleList
<1>2. CASE ListenStep
  BY <1>2, ListenStepHears
<1>3. ASSUME NEW m \in Monsters, Listen(m) PROVE HearingFits'
  BY <1>3, ListenHears
<1>4. CASE ThinkStep \/ ChooseStep
  <2>1. walk \in [loop : {"none", "think", "listen", "choose"}, who : Monsters \cup {Nobody},
                  prev : Links, cur : Links]
    BY DEF IInv, TypeOK
  <2>2. walk' = Idle \/ walk'.loop = walk.loop
    BY <1>4, <2>1 DEF ThinkStep, ChooseStep, FreeSound, KeepSound
  <2>3. walk.loop # "listen"
    BY <1>4 DEF ThinkStep, ChooseStep
  <2> QED
    BY <2>2, <2>3 DEF HearingFits, Idle
<1>5. ASSUME walk = Idle, UNCHANGED walk PROVE HearingFits'
  BY <1>5 DEF HearingFits, Idle
<1>6. ASSUME NEW type, InsertSound(type) PROVE HearingFits'
  BY <1>5, <1>6 DEF InsertSound, Quiet
<1>7. CASE LoadGame \/ \E i \in Pool : Expire(i)
  BY <1>5, <1>7 DEF LoadGame, Expire, Quiet
<1>8. ASSUME NEW c, UpdatePlayerSound(c) \/ Reset(c) PROVE HearingFits'
  BY <1>5, <1>8 DEF UpdatePlayerSound, Reset, Quiet
<1>9. ASSUME NEW m \in Monsters, Think \/ Recall(m) PROVE HearingFits'
  BY <1>9 DEF Think, Recall, PBestSound, HearingFits, Idle
<1>10. CASE Think
  BY <1>10 DEF Think, HearingFits, Idle
<1> QED
  BY <1>1, <1>2, <1>3, <1>4, <1>6, <1>7, <1>8, <1>9, <1>10 DEF Next, WalkStep


(***************************************************************************)
(* The loops end                                                           *)
(***************************************************************************)

(* The list of a monster that has listened has no circle, although all     *)
(* monsters share its link and any of them may link its entries anew; and  *)
(* PBestSound walks such a list only.                                      *)
EarsFit ==
  /\ \A m \in listened : NoCircle(AudibleList(m), nextAudible)
  /\ walk.loop = "listen" => walk.who \in listened
  /\ walk.loop = "choose" => NoCircle(List(walk.cur, nextAudible), nextAudible)

(* An entry x is linked before the list of head y, which has no circle and *)
(* does not hold it: no list gets one.                                     *)
LEMMA LinkMakesNoCircle ==
  ASSUME NEW link \in [Pool -> Links], NEW x \in Pool, NEW y \in Links,
         x \notin List(y, link), NoCircle(List(y, link), link),
         NEW h \in Links, NoCircle(List(h, link), link)
  PROVE  NoCircle(List(h, [link EXCEPT ![x] = y]), [link EXCEPT ![x] = y])
<1> DEFINE new == [link EXCEPT ![x] = y]
           Y == List(y, link)
           H == List(h, link)
<1>1. /\ Y \in SUBSET Pool /\ Closed(Y, link) /\ y \in Y \cup {EMPTY} /\ x \notin Y
      /\ H \in SUBSET Pool /\ Closed(H, link) /\ h \in H \cup {EMPTY}
      /\ NoCircle(Y, link) /\ NoCircle(H, link)
  BY ListFacts
<1>2. new \in [Pool -> Links] /\ new[x] = y /\ \A i \in Pool \ {x} : new[i] = link[i]
  OBVIOUS
<1> HIDE DEF new, Y, H
<1>3. List(h, new) \subseteq H \cup Y
  <2>1. Closed(H \cup Y, new)
    BY <1>1, <1>2 DEF Closed
  <2> QED
    BY <1>1, <2>1, ListLeast
<1>4. SUFFICES ASSUME NEW S \in SUBSET List(h, new), S # {}, \A i \in S : new[i] \in S
               PROVE  FALSE
  BY DEF NoCircle, new
<1>5. S \subseteq Pool
  BY <1>1, <1>3
<1>6. EMPTY \notin S
  BY <1>5, PoolIsNat
<1>7. S \cap Y = {}
  <2>1. \A i \in S \cap Y : link[i] \in S \cap Y
    BY <1>1, <1>2, <1>4, <1>5, <1>6 DEF Closed
  <2> QED
    BY <1>1, <2>1 DEF NoCircle
<1>8. x \notin S
  BY <1>1, <1>2, <1>4, <1>6, <1>7
<1>9. \A i \in S : link[i] \in S
  BY <1>2, <1>4, <1>5, <1>8
<1>10. S \in SUBSET H
  BY <1>3, <1>7
<1> QED
  BY <1>1, <1>4, <1>9, <1>10 DEF NoCircle

LEMMA NoCircleInNothing == ASSUME NEW link PROVE NoCircle(List(EMPTY, link), link)
BY EmptyList DEF NoCircle

LEMMA HearKeepsEars ==
  ASSUME IInv, HearingFits, EarsFit, NEW m \in Monsters, NEW i \in Pool,
         walk.loop = "listen", walk.who = m, walk.cur = i, Hear(m, i)
  PROVE  \A n \in listened' : NoCircle(AudibleList(n), nextAudible)'
<1>1. /\ nextAudible \in [Pool -> Links] /\ audible \in [Monsters -> Links]
      /\ listened \subseteq Monsters
  BY DEF IInv, TypeOK
<1>2. /\ nextAudible' = [nextAudible EXCEPT ![i] = audible[m]]
      /\ audible' = [audible EXCEPT ![m] = i] /\ listened' = listened
  BY DEF Hear
<1>3. /\ m \in listened /\ NoCircle(List(audible[m], nextAudible), nextAudible)
      /\ audible[m] \in Links /\ i \in Links /\ nextAudible' \in [Pool -> Links]
  BY <1>1, <1>2 DEF EarsFit, AudibleList, Links
<1>4. i \notin List(audible[m], nextAudible)
  <2>1. next \in [Pool -> Links]
    BY Facts
  <2>2. i \in List(i, next)
    BY <1>3, <2>1, ListFacts, PoolIsNat
  <2> QED
    BY <2>2 DEF HearingFits, AudibleList
<1>5. ASSUME NEW n \in listened, n # m PROVE NoCircle(List(audible'[n], nextAudible'), nextAudible')
  <2>1. audible'[n] = audible[n] /\ audible[n] \in Links
    BY <1>1, <1>2, <1>5
  <2>2. NoCircle(List(audible[n], nextAudible), nextAudible)
    BY DEF EarsFit, AudibleList
  <2> QED
    BY <1>1, <1>2, <1>3, <1>4, <2>1, <2>2, LinkMakesNoCircle
<1>6. NoCircle(List(i, nextAudible'), nextAudible')
  <2> DEFINE L == List(audible[m], nextAudible)
  <2>1. /\ List(i, nextAudible') = L \cup {i}
    BY <1>1, <1>2, <1>3, <1>4, LinkHead
  <2>2. L \in SUBSET Pool /\ Closed(L, nextAudible) /\ audible[m] \in L \cup {EMPTY}
    BY <1>1, <1>3, ListFacts
  <2>3. /\ i \notin L /\ NoCircle(L, nextAudible) /\ nextAudible'[i] = audible[m]
        /\ \A j \in L : nextAudible'[j] = nextAudible[j]
    BY <1>1, <1>2, <1>3, <1>4, <2>2
  <2> HIDE DEF L
  <2>4. SUFFICES ASSUME NEW S \in SUBSET (L \cup {i}), S # {}, \A j \in S : nextAudible'[j] \in S
                 PROVE  FALSE
    BY <2>1 DEF NoCircle
  <2>5. EMPTY \notin S
    BY <2>2, <2>4, PoolIsNat
  <2>6. \A j \in S \cap L : nextAudible[j] \in S \cap L
    BY <2>2, <2>3, <2>4, <2>5 DEF Closed
  <2>7. S \cap L = {}
    BY <2>3, <2>6 DEF NoCircle
  <2> QED
    BY <2>2, <2>3, <2>4, <2>5, <2>7
<1>7. audible'[m] = i
  BY <1>1, <1>2
<1> QED
  BY <1>2, <1>5, <1>6, <1>7 DEF AudibleList

LEMMA StepEars ==
  ASSUME ~Wary, IInv, HearingFits, EarsFit, [Next]_vars
  PROVE  EarsFit'
<1>1. CASE UNCHANGED vars
  BY <1>1 DEF vars, pool, ears, EarsFit, AudibleList
<1>2. ASSUME NEW m \in Monsters, Listen(m) PROVE EarsFit'
  <2>1. /\ walk'.loop = "listen" /\ walk'.who = m
        /\ audible' = [audible EXCEPT ![m] = EMPTY] /\ audible \in [Monsters -> Links]
        /\ listened' = listened \cup {m} /\ listened \subseteq Monsters /\ UNCHANGED nextAudible
    BY <1>2 DEF Listen, Idle, IInv, TypeOK
  <2>2. NoCircle(List(audible'[m], nextAudible), nextAudible)
    BY <2>1, NoCircleInNothing
  <2>3. ASSUME NEW n \in listened, n # m
        PROVE  NoCircle(List(audible'[n], nextAudible), nextAudible)
    BY <2>1, <2>3 DEF EarsFit, AudibleList
  <2> QED
    BY <2>1, <2>2, <2>3 DEF EarsFit, AudibleList
<1>3. ASSUME NEW m \in Monsters, PBestSound(m), UNCHANGED ears PROVE EarsFit'
  <2>1. m \in listened /\ walk'.loop = "choose" /\ walk'.cur = audible[m]
    BY <1>3 DEF PBestSound, Idle
  <2> QED
    BY <1>3, <2>1 DEF EarsFit, AudibleList, ears
<1>4. ASSUME walk'.loop \in {"none", "think"}, UNCHANGED <<nextAudible, audible, listened>>
      PROVE  EarsFit'
  BY <1>4 DEF EarsFit, AudibleList
<1>5. CASE ListenStep
  <2>1. walk.loop = "listen" /\ walk.who \in Monsters
    BY <1>5 DEF ListenStep, IInv, WalkFits
  <2>2. CASE walk.cur # EMPTY
    <3>1. walk' = [walk EXCEPT !.cur = next[@]] /\ walk.cur \in Pool
      BY <1>5, <2>1, <2>2, Facts DEF ListenStep, IInv, WalkFits
    <3>2. walk'.loop = "listen" /\ walk'.who = walk.who
      BY <2>1, <3>1 DEF IInv, TypeOK
    <3>3. CASE Hear(walk.who, walk.cur)
      <4>1. \A n \in listened' : NoCircle(AudibleList(n), nextAudible)'
        BY <2>1, <3>1, <3>3, HearKeepsEars
      <4>2. listened' = listened
        BY <3>3 DEF Hear
      <4> QED
        BY <2>1, <3>2, <4>1, <4>2 DEF EarsFit
    <3>4. CASE UNCHANGED ears
      BY <2>1, <3>2, <3>4 DEF ears, EarsFit, AudibleList
    <3> QED
      BY <1>5, <2>2, <3>3, <3>4 DEF ListenStep
  <2>3. CASE walk.cur = EMPTY
    <3>1. UNCHANGED ears /\ (PBestSound(walk.who) \/ walk' = Idle)
      BY <1>5, <2>3 DEF ListenStep
    <3>2. CASE walk' = Idle
      BY <1>4, <3>1, <3>2 DEF ears, Idle
    <3> QED
      BY <1>3, <2>1, <3>1, <3>2
  <2> QED
    BY <2>2, <2>3
<1>6. CASE ChooseStep
  <2>1. walk.loop = "choose" /\ UNCHANGED <<nextAudible, audible, listened>>
    BY <1>6 DEF ChooseStep
  <2>2. CASE walk.cur = EMPTY
    BY <1>4, <1>6, <2>1, <2>2 DEF ChooseStep, Idle
  <2>3. CASE walk.cur # EMPTY
    <3>1. /\ walk' = [walk EXCEPT !.cur = nextAudible[@]] /\ walk.cur \in Pool
          /\ nextAudible \in [Pool -> Links]
      BY <1>6, <2>1, <2>3 DEF ChooseStep, IInv, TypeOK, Links
    <3>2. walk'.loop = "choose" /\ walk'.cur = nextAudible[walk.cur]
      BY <2>1, <3>1 DEF IInv, TypeOK
    <3>3. NoCircle(List(walk.cur, nextAudible), nextAudible)
      BY <2>1 DEF EarsFit
    <3>4. List(nextAudible[walk.cur], nextAudible) \subseteq List(walk.cur, nextAudible)
      BY <3>1, <3>3, Behind
    <3>5. NoCircle(List(nextAudible[walk.cur], nextAudible), nextAudible)
      BY <3>3, <3>4 DEF NoCircle
    <3> QED
      BY <2>1, <3>2, <3>5 DEF EarsFit, AudibleList
  <2> QED
    BY <2>2, <2>3
<1>7. CASE Think \/ ThinkStep
  <2>1. walk'.loop \in {"none", "think"} /\ UNCHANGED ears
    <3>1. CASE Think
      BY <3>1 DEF Think, Idle
    <3>2. CASE ThinkStep
      <4>1. walk \in [loop : {"none", "think", "listen", "choose"},
                      who : Monsters \cup {Nobody}, prev : Links, cur : Links]
        BY DEF IInv, TypeOK
      <4>2. walk.loop = "think" /\ UNCHANGED ears
        BY <3>2 DEF ThinkStep
      <4>3. walk' = Idle \/ walk'.loop = walk.loop
        BY <3>2, <4>1 DEF ThinkStep, FreeSound, KeepSound
      <4> QED
        BY <4>2, <4>3 DEF Idle
    <3> QED
      BY <1>7, <3>1, <3>2
  <2> QED
    BY <1>4, <2>1 DEF ears
<1>8. ASSUME NEW m \in Monsters, Recall(m) PROVE EarsFit'
  BY <1>3, <1>8 DEF Recall
<1>9. ASSUME walk = Idle, UNCHANGED walk, UNCHANGED ears PROVE EarsFit'
  BY <1>4, <1>9 DEF Idle, ears
<1>10. ASSUME NEW type, InsertSound(type) PROVE EarsFit'
  BY <1>9, <1>10 DEF InsertSound, Quiet
<1>11. ASSUME NEW i, Expire(i) \/ UpdatePlayerSound(i) \/ Reset(i) PROVE EarsFit'
  BY <1>9, <1>11 DEF Expire, UpdatePlayerSound, Reset, Quiet
<1>12. CASE LoadGame
  BY <1>12 DEF LoadGame, EarsFit, Quiet, Idle
<1> QED
  BY <1>1, <1>2, <1>5, <1>6, <1>7, <1>8, <1>10, <1>11, <1>12 DEF Next, WalkStep

(* The entries the loop that runs is still to visit.                       *)
Rest == List(walk.cur, IF walk.loop = "choose" THEN nextAudible ELSE next)

(* Every turn of a loop is done with the entry it is at for good.          *)
WalkShrinks ==
  walk.loop # "none" /\ walk'.loop = walk.loop
    => walk.cur \in Rest /\ Rest' \subseteq Rest \ {walk.cur}

LEMMA StepShrinks ==
  ASSUME IInv, EarsFit, Next
  PROVE  WalkShrinks
<1>1. SUFFICES ASSUME walk.loop # "none", walk'.loop = walk.loop PROVE WalkShrinks
  BY DEF WalkShrinks
<1>2. walk # Idle
  BY <1>1 DEF Idle
<1>3. WalkStep
  BY <1>2 DEF Next, InsertSound, Expire, Think, UpdatePlayerSound, Reset, Listen, Recall,
              LoadGame, Quiet
<1>4. walk.cur # EMPTY
  <2>1. walk' # Idle
    BY <1>1 DEF Idle
  <2>2. CASE ListenStep
    <3>1. ~PBestSound(walk.who)
      BY <1>1, <2>2 DEF ListenStep, PBestSound, Idle
    <3> QED
      BY <2>1, <2>2, <3>1 DEF ListenStep
  <2> QED
    BY <1>3, <2>1, <2>2 DEF WalkStep, ThinkStep, ChooseStep
<1> DEFINE i == walk.cur
<1>5. i \in Pool /\ next \in [Pool -> Links] /\ nextAudible \in [Pool -> Links]
  BY <1>4, Facts DEF IInv, TypeOK, Links
<1>6. /\ List(next[i], next) \subseteq List(i, next) \ {i}
      /\ i \in List(i, next)
  <2>1. NoCircle(List(i, next), next)
    BY <1>5, AcyclicIsEnough DEF IInv, LinksFit, Links
  <2> QED
    BY <1>5, <2>1, Behind
<1>7. CASE ListenStep
  <2>1. UNCHANGED pool /\ walk.loop = "listen" /\ walk' = [walk EXCEPT !.cur = next[@]]
    BY <1>4, <1>7 DEF ListenStep
  <2>2. walk'.cur = next[i] /\ next' = next
    BY <2>1 DEF pool, IInv, TypeOK
  <2> QED
    BY <1>1, <1>6, <2>1, <2>2 DEF WalkShrinks, Rest
<1>8. CASE ChooseStep
  <2>1. /\ walk.loop = "choose" /\ UNCHANGED nextAudible
        /\ walk' = [walk EXCEPT !.cur = nextAudible[@]]
    BY <1>4, <1>8 DEF ChooseStep
  <2>2. walk'.cur = nextAudible[i]
    BY <2>1 DEF IInv, TypeOK
  <2>3. NoCircle(List(i, nextAudible), nextAudible)
    BY <2>1 DEF EarsFit
  <2>4. /\ List(nextAudible[i], nextAudible) \subseteq List(i, nextAudible) \ {i}
        /\ i \in List(i, nextAudible)
    BY <1>5, <2>3, Behind
  <2> QED
    BY <1>1, <2>1, <2>2, <2>4 DEF WalkShrinks, Rest
<1>9. CASE ThinkStep
  <2>1. walk.loop = "think" /\ walk'.cur = next[i]
    BY <1>4, <1>9 DEF ThinkStep, FreeSound, KeepSound, IInv, TypeOK
  <2> DEFINE M == List(next[i], next)
  <2>2. M \in SUBSET Pool /\ Closed(M, next) /\ next[i] \in M \cup {EMPTY} /\ i \notin M
    <3>1. next[i] \in Links
      BY <1>5
    <3> QED
      BY <1>5, <1>6, <3>1, ListFacts
  <2>3. \A j \in Pool : j # i => next'[j] \in {next[j], next[i]}
    <3>1. CASE FreeSound
      BY <1>5, <3>1 DEF FreeSound
    <3>2. CASE KeepSound
      BY <3>2 DEF KeepSound, pool
    <3> QED
      BY <1>4, <1>9, <3>1, <3>2 DEF ThinkStep
  <2> HIDE DEF M
  <2>4. Closed(M, next')
    BY <2>2, <2>3 DEF Closed
  <2>5. List(next[i], next') \subseteq M
    BY <2>2, <2>4, ListLeast
  <2> QED
    BY <1>1, <1>6, <2>1, <2>5 DEF WalkShrinks, Rest, M
<1> QED
  BY <1>3, <1>7, <1>8, <1>9 DEF WalkStep

(***************************************************************************)
(* The lists stand for a pool                                              *)
(***************************************************************************)

LEMMA InitRefines == Init => Abstract!Init
<1> SUFFICES ASSUME Init PROVE Abstract!Init
  OBVIOUS
<1>1. /\ maxClients \in 1 .. MaxPlayers /\ over = {}
      /\ next = InitialNext /\ activeHead = maxClients - 1 /\ freeHead = InitialFree
  BY DEF Init
<1>2. ActiveList = Clients /\ FreeList = Pool \ Clients /\ Clients \in SUBSET Pool
  BY <1>1, InitialLists DEF ActiveList, FreeList
<1> QED
  BY <1>1, <1>2 DEF Abstract!Init

(* The steps that leave the links of the pool alone.                       *)
LEMMA SameLists ==
  ASSUME UNCHANGED <<maxClients, next, activeHead, freeHead>>
  PROVE  UNCHANGED <<Clients, FreeList, ActiveList>>
BY DEF Clients, FreeList, ActiveList

LEMMA StepRefines == IInv /\ [Next]_vars => [Abstract!Next]_Abstract!vars
<1> SUFFICES ASSUME IInv, [Next]_vars
             PROVE  Abstract!Next \/ UNCHANGED <<Clients, FreeList, ActiveList, over>>
  BY DEF Abstract!vars
<1>1. ASSUME UNCHANGED pool PROVE UNCHANGED <<Clients, FreeList, ActiveList, over>>
  BY <1>1, SameLists DEF pool
<1>2. ASSUME NEW type, InsertSound(type) PROVE Abstract!Next
  <2>1. UNCHANGED <<over, Clients>>
    BY <1>2 DEF InsertSound, Clients
  <2>2. Abstract!Insert(freeHead) /\ freeHead \in FreeList
    BY <1>2, <2>1, InsertSoundStep DEF Abstract!Insert
  <2> QED
    BY <2>2 DEF Abstract!Next
<1>3. ASSUME NEW i \in Pool, Expire(i) PROVE Abstract!Next
  <2>1. /\ i \in ActiveList \ Clients /\ i \notin over /\ over' = over \cup {i}
        /\ UNCHANGED <<Clients, FreeList, ActiveList>>
    BY <1>3, SameLists DEF Expire
  <2>2. Abstract!Expire(i)
    BY <2>1 DEF Abstract!Expire
  <2> QED
    BY <2>1, <2>2 DEF Abstract!Next
<1>4. CASE ThinkStep
  <2>1. CASE walk.cur # EMPTY /\ FreeSound
    <3>1. walk.loop = "think" /\ UNCHANGED ears
      BY <1>4 DEF ThinkStep
    <3>2. /\ walk.cur \in (ActiveList \cap over) \ Clients
          /\ over' = over \ {walk.cur} /\ UNCHANGED maxClients
          /\ ActiveList' = ActiveList \ {walk.cur} /\ FreeList' = FreeList \cup {walk.cur}
      BY <2>1, <3>1, FreeSoundStep
    <3>3. UNCHANGED Clients
      BY <3>2 DEF Clients
    <3>4. Abstract!Release(walk.cur)
      BY <3>2, <3>3 DEF Abstract!Release
    <3> QED
      BY <3>2, <3>4 DEF Abstract!Next
  <2>2. CASE UNCHANGED pool
    BY <1>1, <2>2
  <2> QED
    BY <1>4, <2>1, <2>2 DEF ThinkStep, KeepSound
<1>5. ASSUME NEW c \in Clients, Reset(c) PROVE Abstract!Next
  <2>1. UNCHANGED <<over, Clients>>
    BY <1>5 DEF Reset, Clients
  <2>2. /\ FreeList' = FreeList /\ ActiveList' \subseteq ActiveList
        /\ ActiveList \subseteq ActiveList' \cup Clients
    BY <1>5, ResetStep
  <2> DEFINE S == ActiveList \ ActiveList'
  <2>3. S \in SUBSET Clients /\ ActiveList' = ActiveList \ S
    BY <2>2
  <2> HIDE DEF S
  <2>4. Abstract!Lose(S)
    BY <2>1, <2>2, <2>3 DEF Abstract!Lose
  <2> QED
    BY <2>3, <2>4 DEF Abstract!Next
<1>6. ASSUME NEW c \in Clients, UpdatePlayerSound(c)
      PROVE  UNCHANGED <<Clients, FreeList, ActiveList, over>>
  BY <1>6, SameLists DEF UpdatePlayerSound
<1>7. CASE LoadGame
  <2>1. /\ maxClients \in 1 .. MaxPlayers /\ UNCHANGED maxClients /\ over' = {}
        /\ next' = InitialNext /\ activeHead' = maxClients - 1 /\ freeHead' = InitialFree
    BY <1>7 DEF LoadGame, IInv, TypeOK
  <2>2. ActiveList' = Clients /\ FreeList' = Pool \ Clients /\ UNCHANGED Clients
    BY <2>1, InitialLists DEF ActiveList, FreeList, Clients
  <2> QED
    BY <2>1, <2>2 DEF Abstract!Next, Abstract!Restart
<1>8. ASSUME NEW m \in Monsters, Listen(m) \/ Recall(m) PROVE UNCHANGED pool
  BY <1>8 DEF Listen, Recall
<1>9. ASSUME Think \/ ListenStep \/ ChooseStep \/ UNCHANGED vars PROVE UNCHANGED pool
  BY <1>9 DEF Think, ListenStep, ChooseStep, vars
<1> QED
  BY <1>1, <1>2, <1>3, <1>4, <1>5, <1>6, <1>7, <1>8, <1>9 DEF Next, WalkStep

(* Every reachable state has the declared types.                           *)
THEOREM TypeCorrect == Spec => []TypeOK
<1>1. IInv => TypeOK
  BY DEF IInv
<1> QED
  BY Invariance, <1>1, PTL

(* No sequence of insertions, expiries, deaths of players and loaded games *)
(* puts an entry on both lists (IAllocSound, FreeSound, CSound::Reset).    *)
THEOREM ListsStayApart == Spec => []ListsAreApart
<1>1. IInv => ListsAreApart
  BY DEF IInv
<1> QED
  BY Invariance, <1>1, PTL

(* The links of m_iNext never close a circle: the loops over the active    *)
(* and the free list end, whatever the size of the pool.                   *)
THEOREM ListsEnd == Spec => []NoListIsCircular
<1>1. IInv => NoListIsCircular
  BY DEF IInv, LinksFit, Acyclic, NoListIsCircular
<1> QED
  BY Invariance, <1>1, PTL

(* The entries reserved for clients are never handed out, and CSound::Reset *)
(* loses no other: the pool keeps its capacity for sounds.                 *)
THEOREM PoolKeepsItsSounds == Spec => []OnlyClientsAreLost
<1>1. IInv => OnlyClientsAreLost
  BY DEF IInv
<1> QED
  BY Invariance, <1>1, PTL

(* A monster that has just listened with the condition set finds a noise   *)
(* in its list when it asks for the best sound: the ASSERT of              *)
(* GetIdealState and GetSchedule holds.                                    *)
THEOREM HeardIsFound == Spec => HeardSoundIsFound
<1>1. Init => HearingFits
  BY DEF Init, HearingFits, Idle
<1>2. HearingFits /\ [Next]_vars =>
        [walk.loop = "listen" /\ walk'.loop = "choose" /\ walk.who \in hears
           => \E i \in AudibleList(walk.who) : i \in noise]_vars
  BY DEF HearingFits
<1> QED
  BY <1>1, <1>2, StepHears, Invariance, PTL DEF Spec, HeardSoundIsFound

(* The loops of Think, Listen and PBestSound over links that others cut    *)
(* and make anew are done with an entry each turn, and never come to it    *)
(* again: in a pool of finite size they end.                               *)
THEOREM LoopsShrink ==
  ASSUME ~Wary
  PROVE  Spec => [][WalkShrinks]_vars
<1>1. Init => HearingFits /\ EarsFit
  BY DEF Init, HearingFits, EarsFit, Idle
<1>2. IInv /\ HearingFits /\ [Next]_vars => HearingFits'
  BY StepHears
<1>3. IInv /\ HearingFits /\ EarsFit /\ [Next]_vars => EarsFit'
  BY StepEars
<1>4. IInv /\ EarsFit /\ [Next]_vars => [WalkShrinks]_vars
  BY StepShrinks
<1> QED
  BY <1>1, <1>2, <1>3, <1>4, Invariance, PTL DEF Spec

(* SoundList implements SoundPool: with all their links the two lists are  *)
(* no more and no less than a free and an active set, between which a step *)
(* moves one slot, and from which only slots of clients are lost.          *)
THEOREM PoolIsImplemented == Spec => ImplementsPool
<1>1. Spec => Abstract!Init /\ [][Abstract!Next]_Abstract!vars
  BY InitRefines, StepRefines, Invariance, PTL DEF Spec
<1> QED
  BY <1>1 DEF ImplementsPool, Abstract!Spec
=============================================================================
