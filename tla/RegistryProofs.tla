--------------------------- MODULE RegistryProofs ---------------------------
(***************************************************************************)
(* The registry, for any numbers of browsers, workers and names: its types *)
(* and that the list without duplicates offers every game exactly once.    *)
(*                                                                         *)
(* The list is decided by ranks, so it is right because a room belongs to  *)
(* a registered worker and registered workers have ranks of their own,     *)
(* below the next one to be given (Ranked).                                *)
(***************************************************************************)
EXTENDS Registry, FiniteSetTheorems, WellFoundedInduction, TLAPS

Ranked ==
    /\ \A w \in Workers : InRooms(w) => w \in workers
    /\ \A w \in workers : workerOrder[w] \in Nat /\ workerOrder[w] < nextWorkerOrder
    /\ \A v, w \in workers : workerOrder[v] = workerOrder[w] => v = w

(* The inductive invariant.                                                *)
IInv == TypeOK /\ Ranked

LEMMA IInvInit == Init => IInv
  BY DEF Init, IInv, TypeOK, Ranked, InRooms

LEMMA IInvKept == IInv /\ [Next]_vars => IInv'
<1> SUFFICES ASSUME IInv, [Next]_vars PROVE IInv'
  OBVIOUS
<1>1. ASSUME NEW b \in Browsers, RegisterClient(b) \/ UnregisterClient(b) \/ UnbindClient(b)
      PROVE  IInv'
  BY <1>1 DEF IInv, TypeOK, Ranked, InRooms, RegisterClient, UnregisterClient, UnbindClient
<1>2. ASSUME NEW b \in Browsers, NEW w \in Workers, BindClient(b, w)
      PROVE  IInv'
  BY <1>2 DEF IInv, TypeOK, Ranked, InRooms, BindClient
<1>3. ASSUME NEW w \in Workers, w \notin workers, RegisterWorker(w)
      PROVE  IInv'
  <2>1. TypeOK'
    BY <1>3 DEF IInv, TypeOK, RegisterWorker
  <2>2. /\ workerOrder'[w] = nextWorkerOrder
        /\ \A v \in Workers : v # w => workerOrder'[v] = workerOrder[v]
        /\ workers' = workers \cup {w} /\ gameRooms' = gameRooms
        /\ nextWorkerOrder' = nextWorkerOrder + 1 /\ nextWorkerOrder \in Nat
        /\ workers \subseteq Workers
    BY <1>3 DEF IInv, TypeOK, RegisterWorker
  <2>3. Ranked'
    BY <1>3, <2>2 DEF IInv, Ranked, InRooms
  <2>4. QED
    BY <2>1, <2>3 DEF IInv
<1>4. ASSUME NEW w \in Workers, UnregisterWorker(w)
      PROVE  IInv'
  <2>1. TypeOK'
    BY <1>4 DEF IInv, TypeOK, UnregisterWorker, BoundTo
  <2>2. /\ \A v \in Workers : v # w => workerOrder'[v] = workerOrder[v]
        /\ \A v \in Workers : gameRooms'[v] = IF v = w THEN None ELSE gameRooms[v]
        /\ workers' = workers \ {w} /\ nextWorkerOrder' = nextWorkerOrder
        /\ workers \subseteq Workers
    BY <1>4 DEF IInv, TypeOK, UnregisterWorker
  <2>3. Ranked'
    BY <2>2 DEF IInv, Ranked, InRooms
  <2>4. QED
    BY <2>1, <2>3 DEF IInv
<1>5. ASSUME NEW w \in workers, NEW g \in GameNames, SetWorkerGame(w, g)
      PROVE  IInv'
  BY <1>5 DEF IInv, TypeOK, Ranked, InRooms, SetWorkerGame
<1>6. ASSUME NEW w \in Workers, NEW n \in Counts, SetWorkerPlayerCount(w, n)
      PROVE  IInv'
  BY <1>6 DEF IInv, TypeOK, Ranked, InRooms, SetWorkerPlayerCount
<1>7. ASSUME UNCHANGED vars
      PROVE  IInv'
  BY <1>7 DEF vars, IInv, TypeOK, Ranked, InRooms
<1>8. QED
  BY <1>1, <1>2, <1>3, <1>4, <1>5, <1>6, <1>7 DEF Next

LEMMA IInvHolds == Spec => []IInv
  BY IInvInit, IInvKept, PTL DEF Spec

(* A set of numbers that is not empty has a least one.                     *)
LEMMA LeastExists ==
    ASSUME NEW S \in SUBSET Nat, S # {}
    PROVE  \E n \in S : \A m \in S : n <= m
<1> DEFINE R == OpToRel(<, Nat)
<1>1. IsWellFoundedOn(R, Nat)
  BY NatLessThanWellFounded
<1>2. \A q, p \in Nat : <<q, p>> \in R <=> q < p
  BY DEF OpToRel
<1> HIDE DEF R
<1>3. S \subseteq Nat /\ S # {}
  OBVIOUS
<1>4. PICK n \in S : \A m \in S : ~(<<m, n>> \in R)
  BY <1>1, <1>3, WFMin
<1>5. ASSUME NEW m \in S PROVE n <= m
  <2>1. m \in Nat /\ n \in Nat /\ ~(<<m, n>> \in R)
    BY <1>3, <1>4
  <2>2. ~(m < n)
    BY <1>2, <2>1
  <2>3. QED
    BY <2>1, <2>2
<1>6. QED
  BY <1>5

(* Of the workers that run one game one registered before the others.      *)
LEMMA OldestExists ==
    ASSUME IInv, NEW v \in Workers, InRooms(v)
    PROVE  \E w \in Workers :
              /\ InRooms(w) /\ SameGame[gameRooms[w]] = SameGame[gameRooms[v]]
              /\ \A u \in Workers :
                    InRooms(u) /\ SameGame[gameRooms[u]] = SameGame[gameRooms[v]] =>
                        u = w \/ workerOrder[w] < workerOrder[u]
<1> DEFINE Running == {w \in Workers : InRooms(w) /\ SameGame[gameRooms[w]] = SameGame[gameRooms[v]]}
           Ranks == {workerOrder[w] : w \in Running}
<1>1. Running \subseteq workers /\ v \in Running
  BY DEF IInv, Ranked
<1>2. Ranks \subseteq Nat /\ Ranks # {}
  BY <1>1 DEF IInv, Ranked
<1>3. PICK w \in Running : \A u \in Running : workerOrder[w] <= workerOrder[u]
  <2> HIDE DEF Ranks
  <2>1. PICK rank \in Ranks : \A r \in Ranks : rank <= r
    BY <1>2, LeastExists
  <2>2. QED
    BY <2>1 DEF Ranks
<1>4. ASSUME NEW u \in Running
      PROVE  u = w \/ workerOrder[w] < workerOrder[u]
  <2>1. workerOrder[u] \in Nat /\ workerOrder[w] \in Nat
    BY <1>1 DEF IInv, Ranked
  <2>2. workerOrder[u] = workerOrder[w] => u = w
    BY <1>1 DEF IInv, Ranked
  <2>3. QED
    BY <1>3, <2>1, <2>2
<1>5. QED
  BY <1>3, <1>4

(* The tables keep their types: no binding, rank or count of somebody      *)
(* unknown (registry.rs:11-39).                                            *)
THEOREM TypeCorrect == Spec => []TypeOK
<1>1. IInv => TypeOK
  BY DEF IInv
<1>2. QED
  BY <1>1, IInvHolds, PTL

(* With duplicates removed every game that some worker runs is offered by  *)
(* exactly one room, in whatever order workers came, left and changed      *)
(* their games (registry.rs:147-183).                                      *)
THEOREM GamesListedOnce == Spec => []EveryGameListedOnce
<1>1. ASSUME IInv PROVE EveryGameListedOnce
  <2> DEFINE listed == {w \in Workers : GamesPayload(TRUE)[w] # None}
  <2>1. \A w \in Workers :
            w \in listed <=> InRooms(w) /\ \A v \in Workers : ~Shadows(v, w)
    BY DEF GamesPayload, InRooms
  <2>2. ASSUME NEW v \in Workers, InRooms(v)
        PROVE  \E w \in listed : \A u \in listed :
                    SameGame[gameRooms[u]] = SameGame[gameRooms[v]] <=> u = w
    <3>1. PICK w \in Workers :
              /\ InRooms(w) /\ SameGame[gameRooms[w]] = SameGame[gameRooms[v]]
              /\ \A u \in Workers :
                    InRooms(u) /\ SameGame[gameRooms[u]] = SameGame[gameRooms[v]] =>
                        u = w \/ workerOrder[w] < workerOrder[u]
      BY <1>1, <2>2, OldestExists
    <3>2. \A u \in Workers : InRooms(u) => workerOrder[u] \in Nat
      BY <1>1 DEF IInv, Ranked
    <3>3. w \in listed
      <4>1. ASSUME NEW u \in Workers
            PROVE  ~Shadows(u, w)
        <5>1. CASE InRooms(u) /\ SameGame[gameRooms[u]] = SameGame[gameRooms[w]]
          <6>1. u = w \/ workerOrder[w] < workerOrder[u]
            BY <3>1, <5>1
          <6>2. workerOrder[u] \in Nat /\ workerOrder[w] \in Nat
            BY <3>1, <3>2, <5>1
          <6>3. ~(workerOrder[u] < workerOrder[w])
            BY <6>1, <6>2
          <6>4. QED
            BY <6>3 DEF Shadows
        <5>2. QED
          BY <5>1 DEF Shadows
      <4>2. QED
        BY <2>1, <3>1, <4>1
    <3>4. ASSUME NEW u \in listed
          PROVE  SameGame[gameRooms[u]] = SameGame[gameRooms[v]] <=> u = w
      BY <2>1, <3>1, <3>4 DEF Shadows
    <3>5. QED
      BY <3>3, <3>4
  <2>3. QED
    BY <2>2 DEF EveryGameListedOnce
<1>2. QED
  BY <1>1, IInvHolds, PTL
-----------------------------------------------------------------------------
Game(w) == SameGame[gameRooms[w]]
Games == {SameGame[g] : g \in GameNames}

(* What the loop has selected when it has seen some entries: the oldest    *)
(* worker of each game that it saw.                                        *)
Oldest(selected, seen) ==
    /\ selected \in [Games -> Workers \cup {None}]
    /\ \A game \in Games :
            IF selected[game] = None
            THEN \A v \in seen : ~(InRooms(v) /\ Game(v) = game)
            ELSE /\ selected[game] \in seen /\ InRooms(selected[game])
                 /\ Game(selected[game]) = game
                 /\ \A v \in seen : InRooms(v) /\ Game(v) = game =>
                        workerOrder[selected[game]] <= workerOrder[v]

(* One turn of the loop (registry.rs:153-174).                             *)
LEMMA TurnKeepsOldest ==
    ASSUME IInv, NEW seen \in SUBSET Workers, NEW selected, Oldest(selected, seen),
           NEW w \in Workers
    PROVE  Oldest(KeepOldest(selected, w), seen \cup {w})
<1>1. /\ \A v \in Workers : InRooms(v) => workerOrder[v] \in Nat
      /\ InRooms(w) => gameRooms[w] \in GameNames \ BlankNames
      /\ None \notin Workers
  BY WorkersAssumption DEF IInv, Ranked, TypeOK, InRooms
<1>2. selected \in [Games -> Workers \cup {None}]
  BY DEF Oldest
<1>3. CASE ~InRooms(w)
  <2>1. KeepOldest(selected, w) = selected
    BY <1>3 DEF KeepOldest
  <2>2. QED
    BY <1>3, <2>1 DEF Oldest
<1>4. CASE InRooms(w)
  <2> DEFINE game == Game(w)
             kept == KeepOldest(selected, w)
  <2>1. game \in Games
    BY <1>1, <1>4 DEF Games, Game
  <2>2. \/ /\ selected[game] = None \/ workerOrder[w] < workerOrder[selected[game]]
           /\ kept = [selected EXCEPT ![game] = w]
        \/ /\ selected[game] # None /\ ~(workerOrder[w] < workerOrder[selected[game]])
           /\ kept = selected
    BY <1>1, <1>4 DEF KeepOldest, Game
  <2> HIDE DEF kept
  <2>3. kept \in [Games -> Workers \cup {None}]
    BY <1>2, <2>1, <2>2
  <2>4. ASSUME NEW other \in Games, other # game
        PROVE  IF kept[other] = None
               THEN \A v \in seen \cup {w} : ~(InRooms(v) /\ Game(v) = other)
               ELSE /\ kept[other] \in seen \cup {w} /\ InRooms(kept[other])
                    /\ Game(kept[other]) = other
                    /\ \A v \in seen \cup {w} : InRooms(v) /\ Game(v) = other =>
                            workerOrder[kept[other]] <= workerOrder[v]
    <3>1. kept[other] = selected[other]
      BY <1>2, <2>1, <2>2, <2>4
    <3>2. QED
      BY <2>4, <3>1 DEF Oldest
  <2>5. /\ kept[game] # None /\ kept[game] \in seen \cup {w} /\ InRooms(kept[game])
        /\ Game(kept[game]) = game
        /\ \A v \in seen \cup {w} : InRooms(v) /\ Game(v) = game =>
                workerOrder[kept[game]] <= workerOrder[v]
    <3>1. CASE selected[game] = None
      <4>1. kept[game] = w
        BY <1>2, <2>1, <2>2, <3>1
      <4>2. \A v \in seen : ~(InRooms(v) /\ Game(v) = game)
        BY <2>1, <3>1 DEF Oldest
      <4>3. QED
        BY <1>1, <1>4, <4>1, <4>2
    <3>2. CASE selected[game] # None
      <4> DEFINE u == selected[game]
      <4>1. /\ u \in seen /\ InRooms(u) /\ Game(u) = game /\ u \in Workers
            /\ \A v \in seen : InRooms(v) /\ Game(v) = game => workerOrder[u] <= workerOrder[v]
        BY <2>1, <3>2 DEF Oldest
      <4>2. kept[game] = IF workerOrder[w] < workerOrder[u] THEN w ELSE u
        BY <1>2, <2>1, <2>2, <3>2
      <4>3. \A v \in seen : InRooms(v) => workerOrder[v] \in Nat
        BY <1>1
      <4>4. workerOrder[u] \in Nat /\ workerOrder[w] \in Nat
        BY <1>1, <1>4, <4>1
      <4> HIDE DEF u, game
      <4>5. QED
        BY <1>1, <1>4, <4>1, <4>2, <4>3, <4>4 DEF game
    <3>3. QED
      BY <3>1, <3>2
  <2>6. QED
    BY <2>3, <2>4, <2>5 DEF Oldest, kept
<1>5. QED
  BY <1>3, <1>4
(* The loop runs: it selects something after every number of turns.        *)
LEMMA LoopRuns ==
    ASSUME NEW visits, Len(visits) \in Nat
    PROVE  \E f : /\ f[0] = NoneSelected
                  /\ \A n \in 1..Len(visits) : f[n] = KeepOldest(f[n - 1], visits[n])
                  /\ SelectedAfter(visits) = f[Len(visits)]
<1> DEFINE Turns(f, m) == f = [n \in 0..m |->
                IF n = 0 THEN NoneSelected ELSE KeepOldest(f[n - 1], visits[n])]
           Stuck == {m \in Nat : ~\E f : Turns(f, m)}
<1>1. Stuck = {}
  <2> SUFFICES ASSUME Stuck # {} PROVE FALSE
    OBVIOUS
  <2>1. PICK m \in Stuck : \A l \in Stuck : m <= l
    <3> HIDE DEF Stuck
    <3>1. Stuck \subseteq Nat
      BY DEF Stuck
    <3>2. QED
      BY <3>1, LeastExists
  <2>2. CASE m = 0
    <3>1. Turns([n \in 0..0 |-> NoneSelected], 0)
      OBVIOUS
    <3>2. QED
      BY <2>2, <3>1
  <2>3. CASE m # 0
    <3>1. m - 1 \in Nat /\ m - 1 \notin Stuck
      BY <2>1, <2>3
    <3>2. PICK f : Turns(f, m - 1)
      BY <3>1
    <3> DEFINE g == [n \in 0..m |-> IF n = m THEN KeepOldest(f[m - 1], visits[m]) ELSE f[n]]
    <3>3. ASSUME NEW n \in 0..m
          PROVE  g[n] = IF n = 0 THEN NoneSelected ELSE KeepOldest(g[n - 1], visits[n])
      <4>1. CASE n = m
        <5>1. g[n - 1] = f[m - 1] /\ n # 0
          BY <2>3, <3>1, <4>1
        <5>2. QED
          BY <4>1, <5>1
      <4>2. CASE n # m
        <5>1. n \in 0..(m - 1) /\ g[n] = f[n]
          BY <3>1, <4>2
        <5>2. f[n] = IF n = 0 THEN NoneSelected ELSE KeepOldest(f[n - 1], visits[n])
          BY <3>2, <5>1
        <5>3. n # 0 => g[n - 1] = f[n - 1]
          BY <3>1, <5>1
        <5>4. QED
          BY <5>1, <5>2, <5>3
      <4>3. QED
        BY <4>1, <4>2
    <3>4. Turns(g, m)
      <4>1. g = [n \in 0..m |-> g[n]]
        OBVIOUS
      <4> HIDE DEF g
      <4>2. QED
        BY <3>3, <4>1
    <3>5. QED
      BY <3>4
  <2>4. QED
    BY <2>2, <2>3
<1> DEFINE N == Len(visits)
           f == CHOOSE f : Turns(f, N)
<1>2. Turns(f, N)
  BY <1>1
<1>3. SelectedAfter(visits) = f[N]
  BY DEF SelectedAfter
<1> HIDE DEF f
<1>4. f[0] = NoneSelected
  BY <1>2
<1>5. \A n \in 1..N : f[n] = KeepOldest(f[n - 1], visits[n])
  BY <1>2
<1>6. QED
  BY <1>3, <1>4, <1>5

(* The loop selects the oldest worker of every game that it has seen.      *)
LEMMA LoopSelectsOldest ==
    ASSUME IInv, NEW visits \in Seq(Workers)
    PROVE  Oldest(SelectedAfter(visits), {visits[i] : i \in 1..Len(visits)})
<1>1. PICK f : /\ f[0] = NoneSelected
               /\ \A n \in 1..Len(visits) : f[n] = KeepOldest(f[n - 1], visits[n])
               /\ SelectedAfter(visits) = f[Len(visits)]
  BY LoopRuns
<1> DEFINE Seen(n) == {visits[i] : i \in 1..n}
           Wrong == {n \in 0..Len(visits) : ~Oldest(f[n], Seen(n))}
<1>0. Len(visits) \in Nat
  OBVIOUS
<1>2. Wrong = {}
  <2> SUFFICES ASSUME Wrong # {} PROVE FALSE
    OBVIOUS
  <2>1. PICK n \in Wrong : \A m \in Wrong : n <= m
    <3>1. Wrong \subseteq Nat
      OBVIOUS
    <3> HIDE DEF Wrong
    <3>2. QED
      BY <3>1, LeastExists
  <2>2. CASE n = 0
    <3>1. Seen(0) = {}
      OBVIOUS
    <3>2. Oldest(NoneSelected, {})
      BY DEF Oldest, NoneSelected, Games
    <3>3. QED
      BY <1>1, <2>1, <2>2, <3>1, <3>2
  <2>3. CASE n # 0
    <3>1. n \in 1..Len(visits) /\ n - 1 \in 0..Len(visits) /\ n - 1 \notin Wrong
      <4>1. n \in 0..Len(visits) /\ n \in 1..Len(visits) /\ n - 1 \in 0..Len(visits)
        BY <1>0, <2>1, <2>3
      <4> HIDE DEF Wrong
      <4>2. n - 1 \notin Wrong
        BY <2>1, <4>1
      <4>3. QED
        BY <4>1, <4>2
    <3>2. Oldest(f[n - 1], Seen(n - 1))
      BY <3>1
    <3>3. /\ f[n] = KeepOldest(f[n - 1], visits[n])
          /\ visits[n] \in Workers /\ Seen(n - 1) \subseteq Workers
      BY <1>1, <3>1
    <3>4. Seen(n) = Seen(n - 1) \cup {visits[n]}
      BY <3>1
    <3> HIDE DEF Seen
    <3>5. Oldest(f[n], Seen(n))
      BY <3>2, <3>3, <3>4, TurnKeepsOldest
    <3>6. QED
      BY <2>1, <3>5
  <2>4. QED
    BY <2>2, <2>3
<1>3. Oldest(f[Len(visits)], Seen(Len(visits)))
  <2>1. Len(visits) \in 0..Len(visits) /\ Len(visits) \notin Wrong
    <3> HIDE DEF Wrong
    <3>1. QED
      BY <1>0, <1>2
  <2> HIDE DEF Seen
  <2>2. QED
    BY <2>1
<1>4. Oldest(SelectedAfter(visits), Seen(Len(visits)))
  <2> HIDE DEF Seen
  <2>1. SelectedAfter(visits) = f[Len(visits)]
    BY <1>1
  <2>2. QED
    BY <1>3, <2>1
<1>5. QED
  BY <1>4

(* The list of rooms without duplicates is the same in whatever order the  *)
(* hash map yields its entries: one room for each game, that of the worker *)
(* that registered first (registry.rs:153-180).                            *)
THEOREM DedupeHasOneResult == Spec => []DedupeIgnoresMapOrder
<1>1. ASSUME IInv, NEW visits \in SetToSeqs(Workers)
      PROVE  DedupedInOrder(visits) = GamesPayload(TRUE)
  <2> DEFINE n == Cardinality(Workers)
             selected == SelectedAfter(visits)
  <2>1. n \in Nat /\ IsFiniteSet(1..n) /\ Cardinality(1..n) = n
    BY WorkersAssumption, FS_CardinalityType, FS_Interval
  <2>2. /\ visits \in [1..n -> Workers]
        /\ \A i, j \in 1..n : i # j => visits[i] # visits[j]
    BY DEF SetToSeqs
  <2>3. visits \in Injection(1..n, Workers)
    BY <2>2 DEF Injection, IsInjective
  <2>4. visits \in Surjection(1..n, Workers)
    BY <2>1, <2>3, WorkersAssumption, FS_Injection
  <2>5. visits \in Seq(Workers) /\ Len(visits) = n
    BY <2>1, <2>2
  <2>6. {visits[i] : i \in 1..Len(visits)} = Workers
    BY <2>2, <2>4, <2>5 DEF Surjection
  <2>7. Oldest(selected, Workers)
    BY <1>1, <2>5, <2>6, LoopSelectsOldest
  <2> HIDE DEF selected
  <2>8. ASSUME NEW w \in Workers
        PROVE  (\E game \in DOMAIN selected : selected[game] = w)
                    <=> InRooms(w) /\ ~\E v \in Workers : Shadows(v, w)
    <3>1. DOMAIN selected = Games /\ w # None
      BY <2>7, WorkersAssumption DEF Oldest
    <3>2. \A v \in Workers : InRooms(v) => workerOrder[v] \in Nat
      BY <1>1 DEF IInv, Ranked
    <3>3. ASSUME NEW game \in Games, selected[game] = w
          PROVE  InRooms(w) /\ ~\E v \in Workers : Shadows(v, w)
      BY <2>7, <3>1, <3>2, <3>3 DEF Oldest, Shadows, Game
    <3>4. ASSUME InRooms(w), ~\E v \in Workers : Shadows(v, w)
          PROVE  selected[Game(w)] = w /\ Game(w) \in Games
      <4> DEFINE u == selected[Game(w)]
      <4>1. Game(w) \in Games
        BY <1>1, <3>4 DEF IInv, TypeOK, InRooms, Game, Games
      <4>2. /\ u \in Workers /\ InRooms(u) /\ Game(u) = Game(w)
            /\ workerOrder[u] <= workerOrder[w]
        BY <2>7, <3>4, <4>1 DEF Oldest
      <4>3. ~(workerOrder[u] < workerOrder[w])
        BY <3>4, <4>2 DEF Shadows, Game
      <4> HIDE DEF u
      <4>4. workerOrder[u] = workerOrder[w]
        BY <3>2, <3>4, <4>2, <4>3
      <4>5. u = w
        BY <1>1, <3>4, <4>2, <4>4 DEF IInv, Ranked
      <4>6. QED
        BY <4>1, <4>5 DEF u
    <3>5. QED
      BY <3>1, <3>3, <3>4
  <2>9. \A w \in Workers : ~InRooms(w) => gameRooms[w] = None
    BY DEF InRooms
  <2>10. QED
    BY <2>8, <2>9 DEF DedupedInOrder, GamesPayload, selected
<1>2. IInv => DedupeIgnoresMapOrder
  BY <1>1 DEF DedupeIgnoresMapOrder
<1>3. QED
  BY <1>2, IInvHolds, PTL
=============================================================================
