------------------------------ MODULE Registry ------------------------------
(***************************************************************************)
(* The registry of the signaling server (arcade-signal/src/registry.rs):   *)
(* which browsers and workers are connected, which worker each browser is  *)
(* bound to, and what each worker runs.  Every method locks the one mutex  *)
(* around RegistryState for its whole body, so each operator below is      *)
(* either one atomic action or a read taken in one step.  SignalServer     *)
(* sequences them into the handlers of ws.rs.                              *)
(***************************************************************************)
EXTENDS Naturals, SequencesExt

CONSTANTS
    Browsers,       \* session ids of browser sockets
    Workers,        \* session ids of worker sockets
    GameNames,      \* names workers announce
    BlankNames,     \* those normalize_game_name reduces to nothing
    SameGame,       \* name -> its normal form
    Counts,         \* player counts workers report
    MaxWorkers,     \* bound: registrations of workers in a behaviour
    None            \* absence of a map entry

ASSUME BlankAssumption == BlankNames \subseteq GameNames
ASSUME SameGameAssumption == DOMAIN SameGame = GameNames
ASSUME BoundsAssumption == Counts \subseteq Nat /\ MaxWorkers \in Nat
ASSUME WorkersAssumption == IsFiniteSet(Workers) /\ None \notin Workers

VARIABLES
    clients,            \* browsers with a sender
    workers,            \* workers with a sender
    clientToWorker,     \* browser -> worker it is bound to
    gameRooms,          \* worker -> game it announced
    playerCounts,       \* worker -> player count it reported
    workerOrder,        \* worker -> rank of its registration
    nextWorkerOrder     \* rank the next worker gets

vars == <<clients, workers, clientToWorker, gameRooms, playerCounts,
          workerOrder, nextWorkerOrder>>

TypeOK ==
    /\ clients \subseteq Browsers
    /\ workers \subseteq Workers
    /\ clientToWorker \in [Browsers -> Workers \cup {None}]
    /\ gameRooms \in [Workers -> (GameNames \ BlankNames) \cup {None}]
    /\ playerCounts \in [Workers -> Counts \cup {None}]
    /\ workerOrder \in [Workers -> Nat \cup {None}]
    /\ nextWorkerOrder \in Nat

Init ==
    /\ clients = {}
    /\ workers = {}
    /\ clientToWorker = [b \in Browsers |-> None]
    /\ gameRooms = [w \in Workers |-> None]
    /\ playerCounts = [w \in Workers |-> None]
    /\ workerOrder = [w \in Workers |-> None]
    /\ nextWorkerOrder = 0

-----------------------------------------------------------------------------
RegisterClient(b) ==
    /\ clients' = clients \cup {b}
    /\ UNCHANGED <<workers, clientToWorker, gameRooms, playerCounts,
                   workerOrder, nextWorkerOrder>>

(* The rank saturates at u64::MAX in the code, a bound out of reach.       *)
RegisterWorker(w) ==
    /\ workers' = workers \cup {w}
    /\ workerOrder' = [workerOrder EXCEPT ![w] = nextWorkerOrder]
    /\ nextWorkerOrder' = nextWorkerOrder + 1
    /\ UNCHANGED <<clients, clientToWorker, gameRooms, playerCounts>>

(* Fault: a client that leaves stays bound.                                *)
UnregisterClientKeepsBinding(b) ==
    /\ clients' = clients \ {b}
    /\ UNCHANGED <<workers, clientToWorker, gameRooms, playerCounts,
                   workerOrder, nextWorkerOrder>>

UnregisterClient(b) ==
    /\ clients' = clients \ {b}
    /\ clientToWorker' = [clientToWorker EXCEPT ![b] = None]
    /\ UNCHANGED <<workers, gameRooms, playerCounts, workerOrder, nextWorkerOrder>>

BoundTo(w) == {b \in Browsers : clientToWorker[b] = w}

(* The clients unregister_worker hands back to be closed. *)
ClientsToClose(w) == BoundTo(w) \cap clients

UnregisterWorker(w) ==
    /\ workers' = workers \ {w}
    /\ workerOrder' = [workerOrder EXCEPT ![w] = None]
    /\ gameRooms' = [gameRooms EXCEPT ![w] = None]
    /\ playerCounts' = [playerCounts EXCEPT ![w] = None]
    /\ clientToWorker' =
            [b \in Browsers |-> IF b \in BoundTo(w) THEN None ELSE clientToWorker[b]]
    /\ clients' = clients \ BoundTo(w)
    /\ UNCHANGED nextWorkerOrder

BindClient(b, w) ==
    /\ clientToWorker' = [clientToWorker EXCEPT ![b] = w]
    /\ UNCHANGED <<clients, workers, gameRooms, playerCounts, workerOrder, nextWorkerOrder>>

UnbindClient(b) ==
    /\ clientToWorker' = [clientToWorker EXCEPT ![b] = None]
    /\ UNCHANGED <<clients, workers, gameRooms, playerCounts, workerOrder, nextWorkerOrder>>

(* Fault: a name is recorded that is blank once normalised.                *)
SetWorkerGameUnchecked(w, g) ==
    /\ gameRooms' = [gameRooms EXCEPT ![w] = g]
    /\ UNCHANGED <<clients, workers, clientToWorker, playerCounts,
                   workerOrder, nextWorkerOrder>>

SetWorkerGame(w, g) ==
    /\ g \notin BlankNames
    /\ gameRooms' = [gameRooms EXCEPT ![w] = g]
    /\ UNCHANGED <<clients, workers, clientToWorker, playerCounts,
                   workerOrder, nextWorkerOrder>>

SetWorkerPlayerCount(w, n) ==
    /\ playerCounts' = [playerCounts EXCEPT ![w] = n]
    /\ UNCHANGED <<clients, workers, clientToWorker, gameRooms,
                   workerOrder, nextWorkerOrder>>

-----------------------------------------------------------------------------
(* games_payload: the rooms, or with dedupe on one room for each game. The *)
(* loop visits the hash map in any order and keeps, for each normal form,  *)
(* the worker that registered first. (Its cases for an entry without a     *)
(* rank, and for a tie, need a worker in the rooms that is not registered.) *)
InRooms(w) == gameRooms[w] # None

(* Fault: the first entry visited is kept, however old it is.              *)
KeepFirst(selected, w) ==
    LET game == SameGame[gameRooms[w]]
    IN  IF InRooms(w) /\ selected[game] = None THEN [selected EXCEPT ![game] = w] ELSE selected

KeepOldest(selected, w) ==
    LET game == SameGame[gameRooms[w]]
    IN  IF ~InRooms(w) THEN selected
        ELSE IF gameRooms[w] \in BlankNames THEN selected
        ELSE IF selected[game] = None THEN [selected EXCEPT ![game] = w]
        ELSE IF workerOrder[w] < workerOrder[selected[game]] THEN [selected EXCEPT ![game] = w]
        ELSE selected

NoneSelected == [game \in {SameGame[g] : g \in GameNames} |-> None]

(* What is selected when visits are over.                                  *)
SelectedAfter(visits) ==
    LET selected[n \in 0..Len(visits)] ==
            IF n = 0 THEN NoneSelected ELSE KeepOldest(selected[n - 1], visits[n])
    IN  selected[Len(visits)]

DedupedInOrder(visits) ==
    LET selected == SelectedAfter(visits)
    IN  [w \in Workers |->
            IF \E game \in DOMAIN selected : selected[game] = w THEN gameRooms[w] ELSE None]

(* Fault: a worker also gives way to one of its own rank, itself.          *)
ShadowsItself(v, w) ==
    /\ InRooms(v) /\ InRooms(w)
    /\ SameGame[gameRooms[v]] = SameGame[gameRooms[w]]
    /\ workerOrder[v] <= workerOrder[w]

(* The same list without the loop: a worker is left out when another one   *)
(* that runs the same game registered before it.                           *)
Shadows(v, w) ==
    /\ InRooms(v) /\ InRooms(w)
    /\ SameGame[gameRooms[v]] = SameGame[gameRooms[w]]
    /\ workerOrder[v] < workerOrder[w]

GamesPayload(dedupe) ==
    [w \in Workers |->
        IF dedupe /\ \E v \in Workers : Shadows(v, w) THEN None ELSE gameRooms[w]]

-----------------------------------------------------------------------------
(* Any order of calls in which a worker speaks only while it is registered. *)
Next ==
    \/ \E b \in Browsers :
            \/ RegisterClient(b) \/ UnregisterClient(b) \/ UnbindClient(b)
            \/ \E w \in Workers : BindClient(b, w)
    \/ \E w \in Workers :
            \/ w \notin workers /\ nextWorkerOrder < MaxWorkers /\ RegisterWorker(w)
            \/ w \in workers /\ UnregisterWorker(w)
            \/ \E g \in GameNames : w \in workers /\ SetWorkerGame(w, g)
            \/ \E n \in Counts : w \in workers /\ SetWorkerPlayerCount(w, n)

Spec == Init /\ [][Next]_vars

-----------------------------------------------------------------------------
(* The deduplicated list does not depend on the order in which the hash    *)
(* map yields its entries, and is the one of the oldest worker of each     *)
(* game, whoever left or changed game before (registry.rs:153-180).        *)
DedupeIgnoresMapOrder ==
    \A visits \in SetToSeqs(Workers) : DedupedInOrder(visits) = GamesPayload(TRUE)

(* Every game that some worker runs is offered by exactly one room of the  *)
(* deduplicated list (registry.rs:147-183).                                *)
EveryGameListedOnce ==
    LET listed == {w \in Workers : GamesPayload(TRUE)[w] # None}
    IN  \A v \in Workers : InRooms(v) =>
            \E w \in listed :
                \A u \in listed :
                    SameGame[gameRooms[u]] = SameGame[gameRooms[v]] <=> u = w
=============================================================================
