------------------------- MODULE SignalServerProofs -------------------------
(***************************************************************************)
(* The signaling server, for any numbers of screens, phones, workers and   *)
(* codes.                                                                  *)
(*                                                                         *)
(* First its types, and the pairing table: however its tasks interleave,   *)
(* every step of the server is a step of Controllers or leaves the table   *)
(* alone, so that the table's invariants hold of it.                       *)
(*                                                                         *)
(* Then screens, bindings and sessions: no interleaving lets a screen's    *)
(* message reach a live worker the screen is not bound to, or leaves a     *)
(* session at a worker whose screen is not bound to it and has no          *)
(* terminateSession on its way. The binding is checked, withdrawn and set  *)
(* in one critical section, the message is sent in another. What saves the *)
(* server is that both belong to one task, and that the only other author, *)
(* a worker's cleanup, takes the worker away with the binding.             *)
(* ScreenTaskFits says so: it lists the forms the work left to a screen's  *)
(* task can take, each with what is then known of the binding and of the   *)
(* session.                                                                *)
(*                                                                         *)
(* Then the registry, which the server keeps to in the same way, and last  *)
(* the phones: a route and the player slot it stands for are set by        *)
(* different tasks, and agree whenever none of them has anything to do.    *)
(***************************************************************************)
EXTENDS SignalServer, FiniteSetTheorems, TLAPS

CP == INSTANCE ControllersProofs WITH gone <- {b \in Browsers : link[b] = "gone"}
RP == INSTANCE RegistryProofs WITH MaxWorkers <- Cardinality(Workers)

(* What the types leave open: only screens host, only browsers unregister. *)
StepOf(p) ==
    {s \in Step : /\ s.op = "host" => p \in Screens
                  /\ s.op = "unregister" => p \in Browsers}

TasksFit == \A p \in Peers : todo[p] \in Seq(StepOf(p))

(* A task whose socket is over no longer registers a host: what it still   *)
(* runs was scheduled by the cleanup.                                      *)
PartingStep(p) == {s \in StepOf(p) : s.op # "host"}

GoneTasksDontHost ==
    \A p \in Peers : link[p] = "gone" => todo[p] \in Seq(PartingStep(p))

(* The inductive invariant. *)
IInv == TypeOK /\ TasksFit /\ GoneTasksDontHost

-----------------------------------------------------------------------------
(* The constructors of steps build steps (protocol of ws.rs:84-144).       *)
LEMMA StepsBuilt ==
    /\ \A w \in Workers, b \in Browsers, ev \in WorkerEvents, p \in Peers :
            ToWorker(w, b, ev) \in StepOf(p)
    /\ \A b \in Phones, s \in Screens, ev \in {"joined", "left"}, p \in Peers :
            ToClient(b, ev, s) \in StepOf(p) /\ ToClient(s, ev, b) \in StepOf(p)
    /\ \A b \in Browsers, c \in Codes, p \in Peers : ToClient(b, "ready", c) \in StepOf(p)
    /\ \A b \in Browsers, p \in Peers : ToClient(b, "rejected", None) \in StepOf(p)
    /\ \A b \in Browsers, list \in Payloads, p \in Peers : ToClient(b, "games", list) \in StepOf(p)
    /\ \A w \in Workers, p \in Peers : Bind(w) \in StepOf(p)
    /\ \A w \in Workers, s \in Screens : Host(w) \in StepOf(s)
    /\ \A w \in Workers, n \in Counts, p \in Peers : BroadcastCount(w, n) \in StepOf(p)
    /\ \A list \in Payloads, p \in Peers :
            BroadcastGames(list) \in StepOf(p) /\ GreetGames(list) \in StepOf(p)
    /\ \A counts \in CountMaps, p \in Peers : GreetCounts(counts) \in StepOf(p)
    /\ \A name \in {"unbind", "readGames", "greet"}, p \in Peers : Do(name) \in StepOf(p)
    /\ \A b \in Browsers : Do("unregister") \in StepOf(b)
<1>1. \A w \in Workers, b \in Browsers, ev \in WorkerEvents, p \in Peers :
            ToWorker(w, b, ev) \in StepOf(p)
  BY DEF StepOf, Step, ToWorker
<1>2. \A b \in Phones, s \in Screens, ev \in {"joined", "left"}, p \in Peers :
            ToClient(b, ev, s) \in StepOf(p) /\ ToClient(s, ev, b) \in StepOf(p)
  BY DEF StepOf, Step, ToClient
<1>3. \A b \in Browsers, c \in Codes, p \in Peers : ToClient(b, "ready", c) \in StepOf(p)
  BY DEF StepOf, Step, ToClient
<1>4. \A b \in Browsers, p \in Peers : ToClient(b, "rejected", None) \in StepOf(p)
  BY DEF StepOf, Step, ToClient
<1>5. \A b \in Browsers, list \in Payloads, p \in Peers :
            ToClient(b, "games", list) \in StepOf(p)
  BY DEF StepOf, Step, ToClient
<1>6. \A w \in Workers, p \in Peers : Bind(w) \in StepOf(p)
  BY DEF StepOf, Step, Bind
<1>7. \A w \in Workers, s \in Screens : Host(w) \in StepOf(s)
  BY DEF StepOf, Step, Host
<1>8. \A w \in Workers, n \in Counts, p \in Peers : BroadcastCount(w, n) \in StepOf(p)
  BY DEF StepOf, Step, BroadcastCount
<1>9. \A list \in Payloads, p \in Peers :
            BroadcastGames(list) \in StepOf(p) /\ GreetGames(list) \in StepOf(p)
  BY DEF StepOf, Step, BroadcastGames, GreetGames
<1>10. \A counts \in CountMaps, p \in Peers : GreetCounts(counts) \in StepOf(p)
  BY DEF StepOf, Step, GreetCounts
<1>11. \A name \in {"unbind", "readGames", "greet"}, p \in Peers : Do(name) \in StepOf(p)
  BY DEF StepOf, Step, Do
<1>12. \A b \in Browsers : Do("unregister") \in StepOf(b)
  BY DEF StepOf, Step, Do
<1>13. QED
  BY <1>1, <1>2, <1>3, <1>4, <1>5, <1>6, <1>7, <1>8, <1>9, <1>10, <1>11, <1>12

(* What is known of a step that is about to run. *)
LEMMA StepFields ==
    ASSUME NEW p \in Peers, NEW s \in StepOf(p)
    PROVE  /\ s.op = "toWorker" => s.worker \in Workers /\ s.peer \in Browsers
           /\ s.op = "toClient" =>
                /\ s.client \in Browsers
                /\ s.ev = "games" => s.about \in Payloads
                /\ s.ev = "ready" => s.about \in Codes
                /\ s.ev = "joined" /\ s.client \in Phones => s.about \in Screens
           /\ s.op \in {"bind", "host"} => s.worker \in Workers
           /\ s.op = "host" => p \in Screens
           /\ s.op = "unregister" => p \in Browsers
           /\ s.op = "broadcastCount" => s.worker \in Workers /\ s.count \in Counts
           /\ s.op \in {"broadcastGames", "greetGames"} => s.games \in Payloads
           /\ s.op = "greetCounts" => s.counts \in CountMaps
  BY RolesAssumption DEF StepOf, Step, Browsers

(* Replacing the work of one task, and running its next step, keep types.  *)
LEMMA TodoSteps ==
    ASSUME todo \in [Peers -> Seq(Step)], TasksFit, NEW p \in Peers
    PROVE  /\ \A steps \in Seq(StepOf(p)) :
                Schedule(p, steps) => todo' \in [Peers -> Seq(Step)] /\ TasksFit'
           /\ todo[p] # <<>> => Head(todo[p]) \in StepOf(p)
           /\ todo[p] # <<>> /\ Finish(p) => todo' \in [Peers -> Seq(Step)] /\ TasksFit'
           /\ \A steps \in Seq(StepOf(p)) :
                todo[p] # <<>> /\ Continue(p, steps) =>
                    todo' \in [Peers -> Seq(Step)] /\ TasksFit'
<1>0. todo[p] \in Seq(StepOf(p))
  BY DEF TasksFit
<1>a. \A steps \in Seq(StepOf(p)) : steps \in Seq(Step)
  <2> DEFINE S == Step
             T == StepOf(p)
  <2>1. T \subseteq S
    BY DEF StepOf
  <2> HIDE DEF S, T
  <2>2. \A steps \in Seq(T) : steps \in Seq(S)
    BY <2>1
  <2>3. QED
    BY <2>2 DEF S, T
<1>1. ASSUME NEW steps \in Seq(StepOf(p)), todo' = [todo EXCEPT ![p] = steps]
      PROVE  todo' \in [Peers -> Seq(Step)] /\ TasksFit'
  BY <1>1, <1>a DEF TasksFit, StepOf
<1>2. ASSUME todo[p] # <<>>
      PROVE  Head(todo[p]) \in StepOf(p) /\ Tail(todo[p]) \in Seq(StepOf(p))
  BY <1>0, <1>2
<1>3. ASSUME todo[p] # <<>>, Finish(p)
      PROVE  todo' \in [Peers -> Seq(Step)] /\ TasksFit'
  BY <1>1, <1>2, <1>3 DEF Finish, Rest
<1>4. ASSUME NEW steps \in Seq(StepOf(p)), todo[p] # <<>>, Continue(p, steps)
      PROVE  todo' \in [Peers -> Seq(Step)] /\ TasksFit'
  <2>1. steps \o Tail(todo[p]) \in Seq(StepOf(p))
    BY <1>2, <1>4
  <2>2. QED
    BY <1>1, <2>1, <1>4 DEF Continue, Rest
<1>5. QED
  BY <1>1, <1>2, <1>3, <1>4 DEF Schedule

-----------------------------------------------------------------------------
(* What the registry's operations keep (registry.rs:44-188).               *)
LEMMA RegistryTypes ==
    ASSUME R!TypeOK, NEW b, NEW w
    PROVE  /\ b \in Browsers /\ R!RegisterClient(b) => R!TypeOK'
           /\ w \in Workers /\ R!RegisterWorker(w) => R!TypeOK'
           /\ R!UnregisterClient(b) => R!TypeOK'
           /\ R!UnregisterWorker(w) => R!TypeOK'
           /\ w \in Workers /\ R!BindClient(b, w) => R!TypeOK'
           /\ R!UnbindClient(b) => R!TypeOK'
           /\ \A g \in GameNames : R!SetWorkerGame(w, g) => R!TypeOK'
           /\ \A n \in Counts : R!SetWorkerPlayerCount(w, n) => R!TypeOK'
           /\ UNCHANGED registryVars => R!TypeOK'
<1> USE DEF R!TypeOK
<1>1. b \in Browsers /\ R!RegisterClient(b) => R!TypeOK'
  BY DEF R!RegisterClient
<1>2. w \in Workers /\ R!RegisterWorker(w) => R!TypeOK'
  BY DEF R!RegisterWorker
<1>3. R!UnregisterClient(b) => R!TypeOK'
  BY DEF R!UnregisterClient
<1>4. R!UnregisterWorker(w) => R!TypeOK'
  BY DEF R!UnregisterWorker
<1>5. w \in Workers /\ R!BindClient(b, w) => R!TypeOK'
  BY DEF R!BindClient
<1>6. R!UnbindClient(b) => R!TypeOK'
  BY DEF R!UnbindClient
<1>7. \A g \in GameNames : R!SetWorkerGame(w, g) => R!TypeOK'
  BY DEF R!SetWorkerGame
<1>8. \A n \in Counts : R!SetWorkerPlayerCount(w, n) => R!TypeOK'
  BY DEF R!SetWorkerPlayerCount
<1>9. UNCHANGED registryVars => R!TypeOK'
  BY DEF registryVars
<1>10. QED
  BY <1>1, <1>2, <1>3, <1>4, <1>5, <1>6, <1>7, <1>8, <1>9

(* What handlers read from it to send (registry.rs:147-197).               *)
LEMMA RegistryReads ==
    ASSUME R!TypeOK
    PROVE  R!GamesPayload(Dedupe) \in Payloads /\ playerCounts \in CountMaps
  BY DEF R!TypeOK, R!GamesPayload, Payloads, CountMaps

(* The table of the server and the one the proofs of Controllers are about *)
(* are the same.                                                           *)
LEMMA SameTable ==
    /\ CP!Init <=> C!Init
    /\ [CP!Next]_(CP!vars) <=> [C!Next]_(C!vars)
    /\ CP!TypeOK <=> C!TypeOK
<1> USE DEF C!TypeOK, CP!TypeOK, C!Init, CP!Init, C!Next, CP!Next, C!vars, CP!vars,
            C!HostRegistration, CP!HostRegistration, C!ControllerRoute,
            CP!ControllerRoute, C!Peers, CP!Peers, C!Registered, CP!Registered,
            C!Expired, CP!Expired, C!Live, CP!Live, C!PrunedCodes, CP!PrunedCodes,
            C!PrunedHosts, CP!PrunedHosts, C!RoutesRefreshed, CP!RoutesRefreshed,
            C!CodeFor, CP!CodeFor, C!RegisterHost, CP!RegisterHost, C!JoinAccepted,
            CP!JoinAccepted, C!JoinRefused, CP!JoinRefused, C!IsRouted, CP!IsRouted,
            C!RoutedTo, CP!RoutedTo, C!CleanupController, CP!CleanupController,
            C!CleanupHost, CP!CleanupHost, C!CleanupPeer, CP!CleanupPeer, C!Tick,
            CP!Tick
<1>1. CP!Init <=> C!Init
  OBVIOUS
<1>2. CP!Next <=> C!Next
  OBVIOUS
<1>3. UNCHANGED CP!vars <=> UNCHANGED C!vars
  OBVIOUS
<1>4. CP!TypeOK <=> C!TypeOK
  OBVIOUS
<1>5. QED
  BY <1>1, <1>2, <1>3, <1>4

LEMMA TableAssumptions == CP!TTLAssumption /\ CP!NoneAssumption
  BY TTLAssumption, NoneAssumption
     DEF CP!TTLAssumption, CP!NoneAssumption, Browsers

(* A table step of the server, typed by what is proved of the table.       *)
LEMMA TableTypes ==
    ASSUME C!TypeOK, [C!Next]_(C!vars)
    PROVE  C!TypeOK'
<1>1. [CP!Next]_(CP!vars)
  BY SameTable
<1>2. CP!TypeOK
  BY SameTable
<1>3. CP!TypeOK'
  BY CP!TypeOKStep, TableAssumptions, <1>1, <1>2
<1>4. (CP!TypeOK <=> C!TypeOK)'
  BY SameTable, PTL
<1>5. QED
  BY <1>3, <1>4

(* Messages leave browsers and workers with values of their types.         *)
LEMMA MessageTypes ==
    ASSUME view \in [Browsers -> View], room \in [Workers -> SUBSET Browsers]
    PROVE  /\ \A w \in Workers, b \in Browsers : \A ev :
                Delivered(w, b, ev) \in [Workers -> SUBSET Browsers]
           /\ \A b \in Browsers : \A ev, about :
                /\ ev = "games" => about \in Payloads
                /\ ev = "ready" => about \in Codes
                /\ ev = "joined" /\ b \in Phones => about \in Screens
                => TellOne(b, ev, about) \in [Browsers -> View]
           /\ \A list \in Payloads : TellAllGames(list) \in [Browsers -> View]
           /\ \A w \in Workers, n \in Counts : TellAllCount(w, n) \in [Browsers -> View]
<1>1. \A w \in Workers, b \in Browsers : \A ev :
            Delivered(w, b, ev) \in [Workers -> SUBSET Browsers]
  BY DEF Delivered
<1>2. ASSUME NEW b \in Browsers, NEW ev, NEW about,
             ev = "games" => about \in Payloads,
             ev = "ready" => about \in Codes,
             ev = "joined" /\ b \in Phones => about \in Screens
      PROVE  TellOne(b, ev, about) \in [Browsers -> View]
  <2>1. Told(b, ev, about) \in View
    BY <1>2 DEF Told, View
  <2>2. QED
    BY <2>1 DEF TellOne
<1>3. \A list \in Payloads : TellAllGames(list) \in [Browsers -> View]
  BY DEF TellAllGames, View
<1>4. \A w \in Workers, n \in Counts : TellAllCount(w, n) \in [Browsers -> View]
  BY DEF TellAllCount, View, CountMaps
<1>5. QED
  BY <1>1, <1>2, <1>3, <1>4

-----------------------------------------------------------------------------
(* Every step of the server is a step of the pairing table or leaves it as *)
(* it is, whichever task takes it (ws.rs:205-256, 457).                    *)
LEMMA TableRefined ==
    ASSUME IInv, [Next]_vars
    PROVE  [C!Next]_(C!vars)
<1> USE DEF IInv
<1>a. ASSUME UNCHANGED tableVars, \A q \in Browsers : link'[q] = "gone" <=> link[q] = "gone"
      PROVE  UNCHANGED C!vars
  BY <1>a DEF tableVars, C!vars
<1>b. ASSUME UNCHANGED tableVars, UNCHANGED link
      PROVE  UNCHANGED C!vars
  BY <1>a, <1>b
<1>c. link \in [Peers -> {"new", "open", "gone"}]
  BY DEF TypeOK
<1>1. ASSUME NEW p \in Peers, Proceed(p)
      PROVE  [C!Next]_(C!vars)
  <2>1. CASE DoHost(p)
    <3>1. PICK c \in Codes : C!RegisterHost(p, Head(todo[p]).worker, c)
      BY <2>1 DEF DoHost
    <3>2. p \in Screens /\ Head(todo[p]).worker \in Workers
      BY <2>1, TodoSteps, StepFields DEF TypeOK, DoHost, NextIs
    <3>3. link[p] # "gone"
      <4>1. Head(todo[p]).op = "host" /\ todo[p] # <<>>
        BY <2>1 DEF DoHost, NextIs
      <4>2. todo[p] \notin Seq(PartingStep(p))
        <5>1. \A S : todo[p] \in Seq(S) => Head(todo[p]) \in S
          BY <4>1
        <5>2. QED
          BY <4>1, <5>1 DEF PartingStep
      <4>3. QED
        BY <4>2 DEF GoneTasksDontHost
    <3>4. QED
      BY <3>1, <3>2, <3>3 DEF C!Next
  <2>2. CASE ~DoHost(p)
    BY <1>1, <2>2, <1>b DEF Proceed, SendToWorker, SendToClient, DoBind, DoUnbind,
                    DoUnregister, DoReadGames, DoBroadcast, DoGreet
  <2>3. QED
    BY <2>1, <2>2
<1>2. ASSUME NEW b \in Browsers, ConnectBrowser(b)
      PROVE  [C!Next]_(C!vars)
  <2>1. \A q \in Browsers : link'[q] = "gone" <=> link[q] = "gone"
    BY <1>2, <1>c DEF ConnectBrowser
  <2>2. QED
    BY <1>2, <2>1, <1>a DEF ConnectBrowser
<1>3. ASSUME NEW b \in Browsers, Leave(b)
      PROVE  [C!Next]_(C!vars)
  BY <1>3 DEF Leave, Idle, LeaveAsPhone, LeaveAsHost, C!Next, C!CleanupPeer, C!Peers, Browsers
<1>4. ASSUME NEW w \in Workers, ConnectWorker(w) \/ WorkerLeaves(w)
      PROVE  [C!Next]_(C!vars)
  <2>1. \A q \in Browsers : link'[q] = link[q]
    BY <1>4, <1>c, RolesAssumption DEF ConnectWorker, WorkerLeaves, Peers
  <2>2. QED
    BY <1>4, <2>1, <1>a DEF ConnectWorker, WorkerLeaves
<1>5. ASSUME NEW p \in Phones, NEW c \in Codes, ControllerJoin(p, c)
      PROVE  [C!Next]_(C!vars)
  BY <1>5 DEF ControllerJoin, Idle, C!Next
<1>6. ASSUME CodesAge
      PROVE  [C!Next]_(C!vars)
  BY <1>6 DEF CodesAge, C!Next
<1>7. ASSUME NEW b \in Browsers, RequestGames(b)
      PROVE  [C!Next]_(C!vars)
  BY <1>7, <1>b DEF RequestGames
<1>8. ASSUME NEW s \in Screens,
             \/ \E ev \in BindingEvents : OpenRoom(s, ev)
             \/ \E ev \in WorkerEvents : Relay(s, ev)
             \/ \E target \in Workers \cup {None} : Terminate(s, target)
             \/ ControllerHost(s)
      PROVE  [C!Next]_(C!vars)
  BY <1>8, <1>b DEF OpenRoom, Relay, Terminate, ControllerHost
<1>9. ASSUME NEW p \in Phones, NEW h \in Screens, ControllerInput(p, h)
      PROVE  [C!Next]_(C!vars)
  BY <1>9, <1>b DEF ControllerInput
<1>10. ASSUME NEW w \in Workers,
              \/ \E g \in GameNames : GameInfo(w, g)
              \/ \E n \in Counts : UpdatePlayerCount(w, n)
       PROVE  [C!Next]_(C!vars)
  BY <1>10, <1>b DEF GameInfo, UpdatePlayerCount
<1>11. CASE UNCHANGED vars
  BY <1>11, <1>b DEF vars
<1>12. QED
  BY <1>1, <1>2, <1>3, <1>4, <1>5, <1>6, <1>7, <1>8, <1>9, <1>10, <1>11 DEF Next

-----------------------------------------------------------------------------
(* The order in which a set of notices goes out is a sequence of them.     *)
LEMMA OrdersAreSequences ==
    ASSUME NEW T, NEW S, S \subseteq T, IsFiniteSet(S), NEW s \in Orders(S)
    PROVE  s \in Seq(T)
<1>1. Cardinality(S) \in Nat
  BY FS_CardinalityType
<1>2. s \in [1..Cardinality(S) -> T]
  BY DEF Orders
<1>3. QED
  BY <1>1, <1>2

(* Sequences of parting steps are sequences of steps.                      *)
LEMMA PartingSequences ==
    ASSUME NEW p
    PROVE  Seq(PartingStep(p)) \subseteq Seq(StepOf(p))
<1> DEFINE S == PartingStep(p)
           T == StepOf(p)
<1>1. S \subseteq T
  BY DEF PartingStep
<1> HIDE DEF S, T
<1>2. Seq(S) \subseteq Seq(T)
  BY <1>1
<1>3. QED
  BY <1>2 DEF S, T

(* The steps of the cleanup are parting steps (ws.rs:456-485).             *)
LEMMA PartingBuilt ==
    ASSUME NEW p \in Peers
    PROVE  /\ \A w \in Workers, b \in Browsers :
                ToWorker(w, b, "terminateSession") \in PartingStep(p)
           /\ \A b \in Phones, s \in Screens :
                /\ ToClient(b, "left", s) \in PartingStep(p)
                /\ ToClient(s, "left", b) \in PartingStep(p)
           /\ p \in Browsers => Do("unregister") \in PartingStep(p)
<1>1. \A w \in Workers, b \in Browsers : ToWorker(w, b, "terminateSession") \in PartingStep(p)
  <2>1. \A w \in Workers, b \in Browsers : ToWorker(w, b, "terminateSession") \in StepOf(p)
    BY StepsBuilt DEF WorkerEvents
  <2>2. QED
    BY <2>1 DEF PartingStep, ToWorker
<1>2. ASSUME NEW b \in Phones, NEW s \in Screens
      PROVE  ToClient(b, "left", s) \in PartingStep(p) /\ ToClient(s, "left", b) \in PartingStep(p)
  <2>1. ToClient(b, "left", s) \in StepOf(p) /\ ToClient(s, "left", b) \in StepOf(p)
    BY StepsBuilt
  <2>2. QED
    BY <2>1 DEF PartingStep, ToClient
<1>3. p \in Browsers => Do("unregister") \in PartingStep(p)
  BY StepsBuilt DEF PartingStep, Do
<1>4. QED
  BY <1>1, <1>2, <1>3

(* A browser that leaves unregisters, then tells those it concerns: the    *)
(* workers hear only of phones that had a route, its own or to it          *)
(* (ws.rs:456-485).                                                        *)
LEMMA LeavingTells ==
    ASSUME IInv, NEW b \in Browsers, Leave(b), NEW T,
           \A p \in Phones, s \in Screens :
                ToClient(p, "left", s) \in T /\ ToClient(s, "left", p) \in T,
           \A p \in Phones :
                controllerToHost[p] # None /\ (p = b \/ controllerToHost[p].host = b) =>
                    ToWorker(controllerToHost[p].worker, p, "terminateSession") \in T
    PROVE  \E h \in Seq(T) : Schedule(b, <<Do("unregister")>> \o h)
<1>0. C!TypeOK
  BY DEF IInv, TypeOK
<1> DEFINE u == Do("unregister")
<1>1. CASE LeaveAsPhone(b)
  <2>1. b \in Phones /\ controllerToHost[b] # None /\ controllerToHost[b].host \in Screens
    BY <1>0, <1>1 DEF LeaveAsPhone, C!CleanupController, C!IsRouted, C!TypeOK, C!ControllerRoute
  <2> DEFINE x == ToClient(controllerToHost[b].host, "left", b)
             y == ToWorker(controllerToHost[b].worker, b, "terminateSession")
  <2>2. x \in T /\ y \in T
    BY <2>1
  <2>3. Schedule(b, <<u, x, y>>)
    BY <1>1 DEF LeaveAsPhone
  <2> HIDE DEF u, x, y
  <2>4. <<x, y>> \in Seq(T) /\ <<u, x, y>> = <<u>> \o <<x, y>>
    BY <2>2
  <2>5. QED
    BY <2>3, <2>4 DEF u
<1>2. CASE LeaveAsHost(b)
  <2> DEFINE phones == C!RoutedTo(b)
             f == [p \in phones |-> ToClient(p, "left", b)]
             g == [p \in phones |->
                        ToWorker(controllerToHost[p].worker, p, "terminateSession")]
  <2>1. PICK notices \in Orders(Notices(b, phones)),
             terminations \in Orders(Terminations(phones)) :
                Schedule(b, <<u>> \o notices \o terminations)
    BY <1>2 DEF LeaveAsHost
  <2>2. IsFiniteSet(phones)
    BY RolesAssumption, FS_Subset DEF C!RoutedTo
  <2>3. \A p \in phones : p \in Phones /\ b \in Screens
    BY <1>0 DEF C!RoutedTo, C!TypeOK, C!ControllerRoute
  <2>4. notices \in Seq(T)
    <3>1. Notices(b, phones) \subseteq T
      BY <2>3 DEF Notices
    <3>2. f \in Surjection(phones, Notices(b, phones))
      BY DEF Surjection, Notices
    <3> HIDE DEF f, phones
    <3>3. IsFiniteSet(Notices(b, phones))
      BY <2>2, <3>2, FS_Surjection
    <3>4. QED
      BY <3>1, <3>3, OrdersAreSequences
  <2>5. terminations \in Seq(T)
    <3>1. Terminations(phones) \subseteq T
      BY <2>3 DEF Terminations, C!RoutedTo
    <3>2. g \in Surjection(phones, Terminations(phones))
      BY DEF Surjection, Terminations
    <3> HIDE DEF g, phones
    <3>3. IsFiniteSet(Terminations(phones))
      BY <2>2, <3>2, FS_Surjection
    <3>4. QED
      BY <3>1, <3>3, OrdersAreSequences
  <2> HIDE DEF u
  <2>6. <<u>> \o notices \o terminations = <<u>> \o (notices \o terminations)
    <3>1. notices \in Seq(T \cup {u}) /\ terminations \in Seq(T \cup {u})
      BY <2>4, <2>5
    <3>2. \A V : u \in V /\ notices \in Seq(V) /\ terminations \in Seq(V) =>
                <<u>> \o notices \o terminations = <<u>> \o (notices \o terminations)
      OBVIOUS
    <3>3. QED
      BY <3>1, <3>2
  <2>7. notices \o terminations \in Seq(T)
    BY <2>4, <2>5
  <2>8. Schedule(b, <<u>> \o (notices \o terminations))
    BY <2>1, <2>6
  <2>9. QED
    BY <2>7, <2>8 DEF u
<1>3. QED
  BY <1>1, <1>2 DEF Leave

(* Leaving schedules well formed steps, of the cleanup (ws.rs:456-485).    *)
LEMMA LeaveSchedules ==
    ASSUME IInv, NEW b \in Browsers, Leave(b)
    PROVE  \E steps \in Seq(PartingStep(b)) : Schedule(b, steps)
<1>0. C!TypeOK /\ b \in Peers
  BY DEF IInv, TypeOK, Browsers, Peers
<1> DEFINE T == PartingStep(b)
           u == Do("unregister")
<1>1. /\ \A p \in Phones, s \in Screens :
            ToClient(p, "left", s) \in T /\ ToClient(s, "left", p) \in T
      /\ u \in T
  BY <1>0, PartingBuilt
<1>2. \A p \in Phones : controllerToHost[p] # None =>
            ToWorker(controllerToHost[p].worker, p, "terminateSession") \in T
  BY <1>0, PartingBuilt DEF C!TypeOK, C!ControllerRoute, Browsers
<1>3. PICK h \in Seq(T) : Schedule(b, <<u>> \o h)
  <2> HIDE DEF T, u
  <2>1. QED
    BY <1>1, <1>2, LeavingTells DEF u
<1> HIDE DEF T, u
<1>4. <<u>> \o h \in Seq(T)
  BY <1>1
<1>5. QED
  BY <1>3, <1>4 DEF T

-----------------------------------------------------------------------------
(* All of the type invariant but the table's, which TableTypes covers, and *)
(* the history's, which HistoryStep covers.                                *)
ServerTypes ==
    /\ R!TypeOK
    /\ link \in [Peers -> {"new", "open", "gone"}]
    /\ todo \in [Peers -> Seq(Step)]
    /\ closing \subseteq Browsers
    /\ plays \in [Screens -> Workers]
    /\ view \in [Browsers -> View]
    /\ room \in [Workers -> SUBSET Browsers]
    /\ TasksFit

(* Executing a step of a task keeps the types (ws.rs:84-144, 456-495).     *)
LEMMA ProceedTypes ==
    ASSUME IInv, NEW p \in Peers, Proceed(p)
    PROVE  ServerTypes'
<1> USE DEF ServerTypes
<1>0. ServerTypes /\ C!TypeOK
  BY DEF IInv, TypeOK
<1> DEFINE s == Head(todo[p])
<1>a. ASSUME todo[p] # <<>>
      PROVE  s \in StepOf(p)
  BY <1>0, <1>a, TodoSteps
<1>b. p \in Browsers \/ p \in Workers
  BY DEF Peers
<1>1. CASE SendToWorker(p)
  <2>1. s.worker \in Workers /\ s.peer \in Browsers
    BY <1>1, <1>a, StepFields DEF SendToWorker, NextIs
  <2>2. room' \in [Workers -> SUBSET Browsers]
    BY <1>0, <1>1, <2>1, MessageTypes DEF SendToWorker
  <2>3. todo' \in [Peers -> Seq(Step)] /\ TasksFit'
    BY <1>0, <1>1, TodoSteps DEF SendToWorker, NextIs
  <2>4. R!TypeOK'
    BY <1>0, <1>1, RegistryTypes DEF SendToWorker
  <2>5. QED
    BY <1>0, <1>1, <2>2, <2>3, <2>4 DEF SendToWorker
<1>2. CASE SendToClient(p)
  <2>1. /\ s.client \in Browsers
        /\ s.ev = "games" => s.about \in Payloads
        /\ s.ev = "ready" => s.about \in Codes
        /\ s.ev = "joined" /\ s.client \in Phones => s.about \in Screens
    BY <1>2, <1>a, StepFields DEF SendToClient, NextIs
  <2>2. view' \in [Browsers -> View]
    BY <1>0, <1>2, <2>1, MessageTypes DEF SendToClient
  <2>3. todo' \in [Peers -> Seq(Step)] /\ TasksFit'
    BY <1>0, <1>2, TodoSteps DEF SendToClient, NextIs
  <2>4. R!TypeOK'
    BY <1>0, <1>2, RegistryTypes DEF SendToClient
  <2>5. QED
    BY <1>0, <1>2, <2>2, <2>3, <2>4 DEF SendToClient
<1>3. CASE DoBind(p)
  <2>1. s.worker \in Workers
    BY <1>3, <1>a, StepFields DEF DoBind, NextIs
  <2>2. todo' \in [Peers -> Seq(Step)] /\ TasksFit'
    BY <1>0, <1>3, TodoSteps DEF DoBind, NextIs
  <2>3. R!TypeOK'
    BY <1>0, <1>3, <2>1, RegistryTypes DEF DoBind
  <2>4. QED
    BY <1>0, <1>3, <2>2, <2>3 DEF DoBind
<1>4. CASE DoUnbind(p)
  <2>1. todo' \in [Peers -> Seq(Step)] /\ TasksFit'
    BY <1>0, <1>4, TodoSteps DEF DoUnbind, NextIs
  <2>2. R!TypeOK'
    BY <1>0, <1>4, RegistryTypes DEF DoUnbind
  <2>3. QED
    BY <1>0, <1>4, <2>1, <2>2 DEF DoUnbind
<1>5. CASE DoHost(p)
  <2>1. p \in Browsers
    BY <1>5, <1>a, StepFields DEF DoHost, NextIs, Browsers
  <2>2. PICK c \in Codes : Continue(p, <<ToClient(p, "ready", c)>>)
    BY <1>5 DEF DoHost
  <2>3. <<ToClient(p, "ready", c)>> \in Seq(StepOf(p))
    BY <2>1, StepsBuilt
  <2>4. todo' \in [Peers -> Seq(Step)] /\ TasksFit'
    BY <1>0, <1>5, <2>2, <2>3, TodoSteps DEF DoHost, NextIs
  <2>5. R!TypeOK'
    BY <1>0, <1>5, RegistryTypes DEF DoHost
  <2>6. QED
    BY <1>0, <1>5, <2>4, <2>5 DEF DoHost
<1>6. CASE DoUnregister(p)
  <2> DEFINE w == clientToWorker[p]
             steps == IF w = None THEN <<>> ELSE <<ToWorker(w, p, "terminateSession")>>
  <2>1. p \in Browsers
    BY <1>6, <1>a, StepFields DEF DoUnregister, NextIs
  <2>2. w \in Workers \cup {None}
    BY <1>0, <2>1 DEF R!TypeOK
  <2>3. steps \in Seq(StepOf(p))
    BY <2>1, <2>2, StepsBuilt DEF WorkerEvents
  <2>4. Continue(p, steps)
    BY <1>6 DEF DoUnregister
  <2>5. todo' \in [Peers -> Seq(Step)] /\ TasksFit'
    BY <1>0, <1>6, <2>3, <2>4, TodoSteps DEF DoUnregister, NextIs
  <2>6. R!TypeOK'
    BY <1>0, <1>6, RegistryTypes DEF DoUnregister
  <2>7. QED
    BY <1>0, <1>6, <2>5, <2>6 DEF DoUnregister
<1>7. CASE DoReadGames(p)
  <2>1. <<BroadcastGames(R!GamesPayload(Dedupe))>> \in Seq(StepOf(p))
    BY <1>0, RegistryReads, StepsBuilt
  <2>2. todo' \in [Peers -> Seq(Step)] /\ TasksFit'
    BY <1>0, <1>7, <2>1, TodoSteps DEF DoReadGames, NextIs
  <2>3. R!TypeOK'
    BY <1>0, <1>7, RegistryTypes DEF DoReadGames
  <2>4. QED
    BY <1>0, <1>7, <2>2, <2>3 DEF DoReadGames
<1>8. CASE DoBroadcast(p)
  <2>1. view' \in [Browsers -> View]
    BY <1>0, <1>8, <1>a, StepFields, MessageTypes DEF DoBroadcast, NextIs
  <2>2. todo' \in [Peers -> Seq(Step)] /\ TasksFit'
    BY <1>0, <1>8, TodoSteps DEF DoBroadcast, NextIs
  <2>3. R!TypeOK'
    BY <1>0, <1>8, RegistryTypes DEF DoBroadcast
  <2>4. QED
    BY <1>0, <1>8, <2>1, <2>2, <2>3 DEF DoBroadcast
<1>9. CASE DoGreet(p)
  <2>1. /\ <<GreetGames(R!GamesPayload(Dedupe))>> \in Seq(StepOf(p))
        /\ <<GreetCounts(playerCounts)>> \in Seq(StepOf(p))
    BY <1>0, RegistryReads, StepsBuilt
  <2>2. todo' \in [Peers -> Seq(Step)] /\ TasksFit'
    BY <1>0, <1>9, <2>1, TodoSteps DEF DoGreet, NextIs
  <2>3. view' \in [Browsers -> View]
    <3>1. CASE NextIs(p, "greet") /\ UNCHANGED view
      BY <1>0, <3>1
    <3>2. CASE NextIs(p, "greetGames") /\ view' = [view EXCEPT ![p].games = s.games]
      <4>1. s.games \in Payloads
        BY <1>a, <3>2, StepFields DEF NextIs
      <4>2. QED
        BY <1>0, <3>2, <4>1 DEF View
    <3>3. CASE /\ NextIs(p, "greetCounts")
               /\ view' = [view EXCEPT ![p].counts =
                    [w \in Workers |-> IF s.counts[w] # None THEN s.counts[w] ELSE @[w]]]
      <4>1. s.counts \in CountMaps
        BY <1>a, <3>3, StepFields DEF NextIs
      <4>2. QED
        BY <1>0, <3>3, <4>1 DEF View, CountMaps
    <3>4. QED
      BY <1>9, <3>1, <3>2, <3>3 DEF DoGreet
  <2>4. R!TypeOK'
    BY <1>0, <1>9, RegistryTypes DEF DoGreet
  <2>5. QED
    BY <1>0, <1>9, <2>2, <2>3, <2>4 DEF DoGreet
<1>10. QED
  BY <1>1, <1>2, <1>3, <1>4, <1>5, <1>6, <1>7, <1>8, <1>9 DEF Proceed

(* The same of connecting, and of each first critical section of a handler. *)
LEMMA HandlerTypes ==
    ASSUME IInv, [Next]_vars, \A p \in Peers : ~Proceed(p)
    PROVE  ServerTypes'
<1> USE DEF ServerTypes
<1>0. ServerTypes /\ C!TypeOK
  BY DEF IInv, TypeOK
<1>a. Screens \subseteq Browsers /\ Phones \subseteq Browsers
      /\ Browsers \subseteq Peers /\ Workers \subseteq Peers
  BY DEF Browsers, Peers
<1>b. \A b \in Browsers : clientToWorker[b] \in Workers \cup {None}
  BY <1>0 DEF R!TypeOK
<1>1. ASSUME NEW b \in Browsers, ConnectBrowser(b)
      PROVE  ServerTypes'
  <2>1. <<Do("greet")>> \in Seq(StepOf(b))
    BY <1>a, StepsBuilt
  <2>2. todo' \in [Peers -> Seq(Step)] /\ TasksFit'
    BY <1>0, <1>1, <1>a, <2>1, TodoSteps DEF ConnectBrowser
  <2>3. R!TypeOK'
    BY <1>0, <1>1, RegistryTypes DEF ConnectBrowser
  <2>4. QED
    BY <1>0, <1>1, <2>2, <2>3 DEF ConnectBrowser
<1>2. ASSUME NEW w \in Workers, ConnectWorker(w)
      PROVE  ServerTypes'
  <2>1. R!TypeOK'
    BY <1>0, <1>2, RegistryTypes DEF ConnectWorker
  <2>2. QED
    BY <1>0, <1>2, <2>1 DEF ConnectWorker, TasksFit
<1>3. ASSUME NEW b \in Browsers, Leave(b)
      PROVE  ServerTypes'
  <2>0. PICK steps \in Seq(PartingStep(b)) : Schedule(b, steps)
    BY <1>3, LeaveSchedules
  <2>a. steps \in Seq(StepOf(b))
    BY PartingSequences
  <2>1. todo' \in [Peers -> Seq(Step)] /\ TasksFit'
    BY <1>0, <1>a, <2>0, <2>a, TodoSteps
  <2>2. R!TypeOK'
    BY <1>0, <1>3, RegistryTypes DEF Leave
  <2>3. QED
    BY <1>0, <1>3, <2>1, <2>2 DEF Leave
<1>4. ASSUME NEW w \in Workers, WorkerLeaves(w)
      PROVE  ServerTypes'
  <2>1. <<Do("readGames")>> \in Seq(StepOf(w))
    BY <1>a, StepsBuilt
  <2>2. todo' \in [Peers -> Seq(Step)] /\ TasksFit'
    BY <1>0, <1>4, <1>a, <2>1, TodoSteps DEF WorkerLeaves
  <2>3. R!TypeOK'
    BY <1>0, <1>4, RegistryTypes DEF WorkerLeaves
  <2>4. QED
    BY <1>0, <1>4, <2>2, <2>3 DEF WorkerLeaves, R!ClientsToClose, R!BoundTo
<1>5. ASSUME NEW b \in Browsers, RequestGames(b)
      PROVE  ServerTypes'
  <2>1. <<ToClient(b, "games", R!GamesPayload(Dedupe))>> \in Seq(StepOf(b))
    BY <1>0, <1>a, RegistryReads, StepsBuilt
  <2>2. todo' \in [Peers -> Seq(Step)] /\ TasksFit'
    BY <1>0, <1>5, <1>a, <2>1, TodoSteps DEF RequestGames
  <2>3. R!TypeOK'
    BY <1>0, <1>5, RegistryTypes DEF RequestGames
  <2>4. QED
    BY <1>0, <1>5, <2>2, <2>3 DEF RequestGames
<1>6. ASSUME NEW s \in Screens, NEW ev \in WorkerEvents, OpenRoom(s, ev) \/ Relay(s, ev)
      PROVE  ServerTypes'
  <2>1. /\ <<Bind(plays[s]), ToWorker(plays[s], s, ev)>> \in Seq(StepOf(s))
        /\ <<ToWorker(plays[s], s, ev)>> \in Seq(StepOf(s))
    BY <1>0, <1>a, StepsBuilt
  <2>2. todo' \in [Peers -> Seq(Step)] /\ TasksFit'
    BY <1>0, <1>6, <1>a, <2>1, TodoSteps DEF OpenRoom, Relay
  <2>3. R!TypeOK'
    BY <1>0, <1>6, RegistryTypes DEF OpenRoom, Relay
  <2>4. QED
    BY <1>0, <1>6, <2>2, <2>3 DEF OpenRoom, Relay
<1>7. ASSUME NEW s \in Screens, NEW target, Terminate(s, target)
      PROVE  ServerTypes'
  <2>1. clientToWorker[s] \in Workers
    BY <1>7, <1>a, <1>b DEF Terminate
  <2>2. <<ToWorker(clientToWorker[s], s, "terminateSession"), Do("unbind")>> \in Seq(StepOf(s))
    BY <1>a, <2>1, StepsBuilt DEF WorkerEvents
  <2>3. todo' \in [Peers -> Seq(Step)] /\ TasksFit'
    BY <1>0, <1>7, <1>a, <2>2, TodoSteps DEF Terminate
  <2>4. R!TypeOK'
    BY <1>0, <1>7, RegistryTypes DEF Terminate
  <2>5. QED
    BY <1>0, <1>7, <2>3, <2>4 DEF Terminate
<1>8. ASSUME NEW s \in Screens, ControllerHost(s)
      PROVE  ServerTypes'
  <2>1. <<Host(plays[s])>> \in Seq(StepOf(s))
    BY <1>0, StepsBuilt
  <2>2. todo' \in [Peers -> Seq(Step)] /\ TasksFit'
    BY <1>0, <1>8, <1>a, <2>1, TodoSteps DEF ControllerHost
  <2>3. R!TypeOK'
    BY <1>0, <1>8, RegistryTypes DEF ControllerHost
  <2>4. QED
    BY <1>0, <1>8, <2>2, <2>3 DEF ControllerHost
<1>9. ASSUME NEW p \in Phones, NEW c \in Codes, ControllerJoin(p, c)
      PROVE  ServerTypes'
  <2>1. C!Live(c) => codeToHost[c].host \in Screens /\ codeToHost[c].worker \in Workers
    BY <1>0 DEF C!Live, C!Registered, C!TypeOK, C!HostRegistration
  <2>2. CASE Schedule(p, <<ToClient(p, "rejected", None)>>)
    <3>1. <<ToClient(p, "rejected", None)>> \in Seq(StepOf(p))
      BY <1>a, StepsBuilt
    <3>2. QED
      BY <1>0, <1>9, <1>a, <2>2, <3>1, TodoSteps, RegistryTypes DEF ControllerJoin
  <2>3. CASE /\ C!JoinAccepted(p, c)
             /\ Schedule(p, <<ToClient(p, "joined", codeToHost[c].host),
                              ToClient(codeToHost[c].host, "joined", p),
                              ToWorker(codeToHost[c].worker, p, "joinRoom")>>)
    <3>1. <<ToClient(p, "joined", codeToHost[c].host),
            ToClient(codeToHost[c].host, "joined", p),
            ToWorker(codeToHost[c].worker, p, "joinRoom")>> \in Seq(StepOf(p))
      BY <1>a, <2>1, <2>3, StepsBuilt DEF C!JoinAccepted, WorkerEvents
    <3>2. QED
      BY <1>0, <1>9, <1>a, <2>3, <3>1, TodoSteps, RegistryTypes DEF ControllerJoin
  <2>4. QED
    BY <1>9, <2>2, <2>3 DEF ControllerJoin
<1>10. ASSUME NEW p \in Phones, NEW h \in Screens, ControllerInput(p, h)
       PROVE  ServerTypes'
  <2>1. C!WorkerForInput(p, h) \in Workers
    BY <1>0, <1>10 DEF ControllerInput, C!WorkerForInput, C!TypeOK, C!ControllerRoute
  <2>2. <<ToWorker(C!WorkerForInput(p, h), p, "input")>> \in Seq(StepOf(p))
    BY <1>a, <2>1, StepsBuilt DEF WorkerEvents
  <2>3. todo' \in [Peers -> Seq(Step)] /\ TasksFit'
    BY <1>0, <1>10, <1>a, <2>2, TodoSteps DEF ControllerInput
  <2>4. R!TypeOK'
    BY <1>0, <1>10, RegistryTypes DEF ControllerInput
  <2>5. QED
    BY <1>0, <1>10, <2>3, <2>4 DEF ControllerInput
<1>11. ASSUME NEW w \in Workers, NEW g \in GameNames, GameInfo(w, g)
       PROVE  ServerTypes'
  <2>1. <<Do("readGames")>> \in Seq(StepOf(w))
    BY <1>a, StepsBuilt
  <2>2. todo' \in [Peers -> Seq(Step)] /\ TasksFit'
    BY <1>0, <1>11, <1>a, <2>1, TodoSteps DEF GameInfo
  <2>3. R!TypeOK'
    BY <1>0, <1>11, RegistryTypes DEF GameInfo
  <2>4. QED
    BY <1>0, <1>11, <2>2, <2>3 DEF GameInfo
<1>12. ASSUME NEW w \in Workers, NEW n \in Counts, UpdatePlayerCount(w, n)
       PROVE  ServerTypes'
  <2>1. <<BroadcastCount(w, n)>> \in Seq(StepOf(w))
    BY <1>a, StepsBuilt
  <2>2. todo' \in [Peers -> Seq(Step)] /\ TasksFit'
    BY <1>0, <1>12, <1>a, <2>1, TodoSteps DEF UpdatePlayerCount
  <2>3. R!TypeOK'
    BY <1>0, <1>12, RegistryTypes DEF UpdatePlayerCount
  <2>4. QED
    BY <1>0, <1>12, <2>2, <2>3 DEF UpdatePlayerCount
<1>13. CASE CodesAge \/ UNCHANGED vars
  <2>1. UNCHANGED <<registryVars, link, todo, closing, plays, view, room>>
    BY <1>13 DEF CodesAge, vars
  <2>2. QED
    BY <1>0, <2>1, RegistryTypes DEF TasksFit
<1>14. BindingEvents \subseteq WorkerEvents
  BY DEF BindingEvents, WorkerEvents
<1>15. QED
  BY <1>1, <1>2, <1>3, <1>4, <1>5, <1>6, <1>7, <1>8, <1>9, <1>10, <1>11, <1>12, <1>13, <1>14
  DEF Next

-----------------------------------------------------------------------------
(* A task leaves its handlers behind when its socket ends: leaving needs an *)
(* idle task, and no handler starts afterwards (ws.rs:383-455).            *)
LEMMA GoneTasksDontHostStep ==
    ASSUME IInv, [Next]_vars
    PROVE  GoneTasksDontHost'
<1>0. /\ link \in [Peers -> {"new", "open", "gone"}]
      /\ todo \in [Peers -> Seq(Step)]
      /\ TypeOK /\ TasksFit /\ GoneTasksDontHost
  BY DEF IInv, TypeOK
<1>a. Screens \subseteq Browsers /\ Phones \subseteq Browsers
      /\ Browsers \subseteq Peers /\ Workers \subseteq Peers
  BY DEF Browsers, Peers
<1>b. ASSUME NEW p \in Peers, NEW steps, Schedule(p, steps), UNCHANGED link, link[p] = "open"
      PROVE  GoneTasksDontHost'
  BY <1>0, <1>b DEF GoneTasksDontHost, PartingStep, StepOf, Schedule
<1>1. ASSUME NEW p \in Peers, Proceed(p)
      PROVE  GoneTasksDontHost'
  <2> DEFINE S == PartingStep(p)
  <2>1. UNCHANGED link /\ todo' = [todo EXCEPT ![p] = todo'[p]] /\ todo[p] # <<>>
    BY <1>0, <1>1 DEF Proceed, SendToWorker, SendToClient, DoBind, DoUnbind, DoHost,
       DoUnregister, DoReadGames, DoBroadcast, DoGreet, Finish, Continue, Rest, NextIs
  <2>2. SUFFICES ASSUME link[p] = "gone"
                 PROVE  todo'[p] \in Seq(S)
    BY <1>0, <2>1 DEF GoneTasksDontHost, PartingStep, StepOf
  <2>3. todo[p] \in Seq(S)
    BY <1>0, <2>2 DEF GoneTasksDontHost
  <2> HIDE DEF S
  <2>4. Head(todo[p]) \in S /\ Tail(todo[p]) \in Seq(S)
    BY <2>1, <2>3
  <2>5. CASE Finish(p)
    BY <1>0, <2>4, <2>5 DEF Finish, Rest
  <2>6. ASSUME NEW x \in S, Continue(p, <<x>>)
        PROVE  todo'[p] \in Seq(S)
    BY <1>0, <2>4, <2>6 DEF Continue, Rest
  <2>7. CASE Continue(p, <<>>)
    BY <1>0, <2>4, <2>7 DEF Continue, Rest
  <2>8. ~NextIs(p, "host")
    BY <2>4 DEF NextIs, S, PartingStep
  <2>9. CASE DoUnregister(p)
    <3>1. p \in Browsers
      BY <1>0, <2>4, <2>9, StepFields DEF DoUnregister, NextIs, S, PartingStep
    <3>2. ASSUME clientToWorker[p] # None
          PROVE  ToWorker(clientToWorker[p], p, "terminateSession") \in S
      BY <1>0, <3>1, <3>2, StepsBuilt
         DEF TypeOK, R!TypeOK, WorkerEvents, S, PartingStep, ToWorker
    <3>3. QED
      BY <2>6, <2>7, <2>9, <3>2 DEF DoUnregister
  <2>10. CASE DoReadGames(p) \/ DoGreet(p)
    <3>1. /\ BroadcastGames(R!GamesPayload(Dedupe)) \in S
          /\ GreetGames(R!GamesPayload(Dedupe)) \in S
          /\ GreetCounts(playerCounts) \in S
      BY <1>0, RegistryReads, StepsBuilt
         DEF TypeOK, S, PartingStep, BroadcastGames, GreetGames, GreetCounts
    <3>2. QED
      BY <2>5, <2>6, <2>10, <3>1 DEF DoReadGames, DoGreet
  <2>11. QED
    BY <1>1, <2>5, <2>8, <2>9, <2>10
       DEF Proceed, SendToWorker, SendToClient, DoBind, DoUnbind, DoHost, DoBroadcast
<1>2. ASSUME NEW b \in Browsers, Leave(b)
      PROVE  GoneTasksDontHost'
  <2>1. PICK steps \in Seq(PartingStep(b)) : Schedule(b, steps)
    BY <1>2, LeaveSchedules
  <2>2. QED
    BY <1>0, <1>2, <1>a, <2>1 DEF Leave, Schedule, GoneTasksDontHost, PartingStep, StepOf
<1>3. ASSUME NEW w \in Workers, WorkerLeaves(w)
      PROVE  GoneTasksDontHost'
  <2>1. <<Do("readGames")>> \in Seq(PartingStep(w))
    BY <1>a, StepsBuilt DEF PartingStep, Do
  <2>2. QED
    BY <1>0, <1>3, <1>a, <2>1
       DEF WorkerLeaves, Schedule, GoneTasksDontHost, PartingStep, StepOf
<1>4. ASSUME NEW b \in Browsers, ConnectBrowser(b)
      PROVE  GoneTasksDontHost'
  BY <1>0, <1>4, <1>a DEF ConnectBrowser, Schedule, GoneTasksDontHost, PartingStep, StepOf
<1>5. ASSUME NEW w \in Workers, ConnectWorker(w)
      PROVE  GoneTasksDontHost'
  BY <1>0, <1>5, <1>a DEF ConnectWorker, GoneTasksDontHost, PartingStep, StepOf
<1>6. ASSUME NEW b \in Browsers, RequestGames(b)
      PROVE  GoneTasksDontHost'
  BY <1>6, <1>a, <1>b DEF RequestGames, Idle
<1>7. ASSUME NEW s \in Screens,
             \/ \E ev \in BindingEvents : OpenRoom(s, ev)
             \/ \E ev \in WorkerEvents : Relay(s, ev)
             \/ \E target \in Workers \cup {None} : Terminate(s, target)
             \/ ControllerHost(s)
      PROVE  GoneTasksDontHost'
  BY <1>7, <1>a, <1>b DEF OpenRoom, Relay, Terminate, ControllerHost, Idle
<1>8. ASSUME NEW p \in Phones, NEW c \in Codes, ControllerJoin(p, c)
      PROVE  GoneTasksDontHost'
  BY <1>8, <1>a, <1>b DEF ControllerJoin, Idle
<1>9. ASSUME NEW p \in Phones, NEW h \in Screens, ControllerInput(p, h)
      PROVE  GoneTasksDontHost'
  BY <1>9, <1>a, <1>b DEF ControllerInput, Idle
<1>10. ASSUME NEW w \in Workers,
              \/ \E g \in GameNames : GameInfo(w, g)
              \/ \E n \in Counts : UpdatePlayerCount(w, n)
       PROVE  GoneTasksDontHost'
  BY <1>10, <1>a, <1>b DEF GameInfo, UpdatePlayerCount, Idle
<1>11. CASE CodesAge \/ UNCHANGED vars
  BY <1>0, <1>11 DEF CodesAge, vars, GoneTasksDontHost, PartingStep, StepOf
<1>12. QED
  BY <1>1, <1>2, <1>3, <1>4, <1>5, <1>6, <1>7, <1>8, <1>9, <1>10, <1>11 DEF Next

-----------------------------------------------------------------------------
(* Only a message to a worker and a join touch the history of overtaken    *)
(* phones (ws.rs:84-98, 226-256).                                          *)
LEMMA HistoryStep ==
    ASSUME [Next]_vars
    PROVE  /\ \/ overtaken' = overtaken
              \/ \E q \in Peers : SendToWorker(q)
              \/ \E q \in Phones, c \in Codes : ControllerJoin(q, c)
           /\ overtaken \subseteq Phones => overtaken' \subseteq Phones
<1>1. ASSUME NEW q \in Peers, Proceed(q), ~SendToWorker(q)
      PROVE  overtaken' = overtaken
  BY <1>1 DEF Proceed, SendToClient, DoBind, DoUnbind, DoHost, DoUnregister, DoReadGames,
     DoBroadcast, DoGreet
<1>2. ASSUME NEW q \in Peers, SendToWorker(q)
      PROVE  overtaken' \subseteq overtaken
  BY <1>2 DEF SendToWorker, NoteSent
<1>3. ASSUME NEW b \in Browsers, ConnectBrowser(b) \/ Leave(b) \/ RequestGames(b)
      PROVE  overtaken' = overtaken
  BY <1>3 DEF ConnectBrowser, Leave, RequestGames
<1>4. ASSUME NEW s \in Screens,
             \/ \E ev \in BindingEvents : OpenRoom(s, ev)
             \/ \E ev \in WorkerEvents : Relay(s, ev)
             \/ \E target \in Workers \cup {None} : Terminate(s, target)
             \/ ControllerHost(s)
      PROVE  overtaken' = overtaken
  BY <1>4 DEF OpenRoom, Relay, Terminate, ControllerHost
<1>5. ASSUME NEW q \in Phones, NEW c \in Codes, ControllerJoin(q, c)
      PROVE  overtaken' \subseteq overtaken \cup {q}
  BY <1>5 DEF ControllerJoin, NotePaired
<1>6. ASSUME NEW q \in Phones, NEW h \in Screens, ControllerInput(q, h)
      PROVE  overtaken' = overtaken
  BY <1>6 DEF ControllerInput
<1>7. ASSUME NEW w \in Workers,
             \/ ConnectWorker(w) \/ WorkerLeaves(w)
             \/ \E g \in GameNames : GameInfo(w, g)
             \/ \E n \in Counts : UpdatePlayerCount(w, n)
      PROVE  overtaken' = overtaken
  BY <1>7 DEF ConnectWorker, WorkerLeaves, GameInfo, UpdatePlayerCount
<1>8. CASE CodesAge \/ UNCHANGED vars
  BY <1>8 DEF CodesAge, vars
<1>9. QED
  BY <1>1, <1>2, <1>3, <1>4, <1>5, <1>6, <1>7, <1>8 DEF Next

LEMMA IInvStep ==
    ASSUME IInv, [Next]_vars
    PROVE  IInv'
<1>1. C!TypeOK'
  BY TableRefined, TableTypes DEF IInv, TypeOK
<1>2. ServerTypes'
  BY ProceedTypes, HandlerTypes
<1>3. GoneTasksDontHost'
  BY GoneTasksDontHostStep
<1>4. (overtaken \subseteq Phones)'
  BY HistoryStep DEF IInv, TypeOK
<1>5. QED
  BY <1>1, <1>2, <1>3, <1>4 DEF ServerTypes, IInv, TypeOK

LEMMA IInvInit == Init => IInv
<1> SUFFICES ASSUME Init PROVE IInv
  OBVIOUS
<1>1. C!TypeOK
  BY DEF Init, C!Init, C!TypeOK, C!Peers, Browsers
<1>2. R!TypeOK
  BY DEF Init, R!Init, R!TypeOK
<1>3. BlankView \in View
  BY DEF BlankView, View, Payloads, CountMaps
<1>4. TypeOK
  BY <1>1, <1>2, <1>3 DEF Init, TypeOK
<1>5. TasksFit
  BY DEF Init, TasksFit
<1>6. GoneTasksDontHost
  BY DEF Init, GoneTasksDontHost
<1>7. QED
  BY <1>4, <1>5, <1>6 DEF IInv

(* Type correctness of the server, and the roles of its tasks' work.       *)
LEMMA IInvHolds == Spec => []IInv
<1>1. IInv /\ [Next]_vars => IInv'
  BY IInvStep
<1>2. QED
  BY IInvInit, <1>1, PTL DEF Spec

(* Every value in every task, socket queue and table of the server has its *)
(* type: in particular no message is addressed to a worker or a browser    *)
(* that a lookup failed to find (ws.rs:84-495).                            *)
THEOREM TypeCorrect == Spec => []TypeOK
<1>1. IInv => TypeOK
  BY DEF IInv
<1>2. QED
  BY <1>1, IInvHolds, PTL

(* The server implements the pairing table's specification, for any number *)
(* of sockets and however their tasks interleave (ws.rs:205-256, 457).     *)
THEOREM ServerRefinesTable == Spec => TableSpec
<1>1. Init => C!Init
  <2>1. ASSUME Init
        PROVE  {b \in Browsers : link[b] = "gone"} = {}
    BY <2>1 DEF Init, Peers
  <2>2. QED
    BY <2>1 DEF Init, C!Init
<1>2. IInv /\ [Next]_vars => [C!Next]_(C!vars)
  BY TableRefined
<1>3. QED
  BY <1>1, <1>2, IInvHolds, PTL DEF Spec, TableSpec, C!Spec

(* Hence what is proved of the table holds in the server: codes and hosts  *)
(* pair up, every route and registration names the worker its host         *)
(* registered with last, and a peer whose socket is over has left no code  *)
(* and no route behind (controllers.rs, ws.rs:457).                        *)
THEOREM TableInvariantsHold ==
    Spec => [](CP!CodesMatchHosts /\ CP!InputsFollowHost /\ CP!GoneLeavesNothing)
<1>1. TableSpec => CP!Spec
  <2>1. C!Init => CP!Init
    BY SameTable
  <2>2. [C!Next]_(C!vars) => [CP!Next]_(CP!vars)
    BY SameTable
  <2>3. QED
    BY <2>1, <2>2, PTL DEF TableSpec, C!Spec, CP!Spec
<1>2. CP!Spec => []CP!CodesMatchHosts
  BY CP!CodesAgree, TableAssumptions
<1>3. CP!Spec => []CP!InputsFollowHost
  BY CP!InputsReachTheHostsWorker, TableAssumptions
<1>4. CP!Spec => []CP!GoneLeavesNothing
  BY CP!CleanupIsComplete, TableAssumptions
<1>5. QED
  BY <1>1, <1>2, <1>3, <1>4, ServerRefinesTable, PTL

-----------------------------------------------------------------------------
(* Steps that concern no binding and no session of a screen.               *)
HarmlessStep ==
    {x \in Step : /\ x.op \notin {"bind", "unbind", "unregister"}
                  /\ x.op = "toWorker" => x.peer \in Phones /\ x.ev = "terminateSession"}

(* Steps of phones and workers: none sends anything for a screen.          *)
OthersStep == {x \in Step : x.op = "toWorker" => x.peer \in Phones}

Held(s) == s \in room[plays[s]] => clientToWorker[s] = plays[s]

EndSession(s) == ToWorker(plays[s], s, "terminateSession")

Unconcerned(s) == todo[s] \in Seq(HarmlessStep) /\ Held(s)

Departing(s) ==
    /\ todo[s] # <<>>
    /\ Tail(todo[s]) \in Seq(HarmlessStep)
    /\ \/ Head(todo[s]) = Do("unregister") /\ Held(s)
       \/ Head(todo[s]) = EndSession(s)

Ending(s) ==
    \/ todo[s] = <<EndSession(s), Do("unbind")>>
    \/ todo[s] = <<Do("unbind")>> /\ s \notin room[plays[s]]

Opening(s) ==
    /\ \E ev \in BindingEvents : todo[s] = <<Bind(plays[s]), ToWorker(plays[s], s, ev)>>
    /\ Held(s)
    /\ link[plays[s]] # "new"

Sending(s) ==
    /\ \E ev \in WorkerEvents \ {"terminateSession"} :
            todo[s] = <<ToWorker(plays[s], s, ev)>>
    /\ Held(s)
    /\ link[plays[s]] = "gone" \/ clientToWorker[s] = plays[s]

ScreenTaskFits(s) ==
    Unconcerned(s) \/ Departing(s) \/ Ending(s) \/ Opening(s) \/ Sending(s)

(* A registered worker is one whose socket is open; the others hold nobody. *)
WorkersOpen ==
    \A w \in Workers :
        /\ w \in workers <=> link[w] = "open"
        /\ w \notin workers => room[w] = {}

(* A screen is bound to the room of its page or to none, and held there or *)
(* nowhere.                                                                *)
ScreensAtHome ==
    \A s \in Screens :
        /\ clientToWorker[s] \in {None, plays[s]}
        /\ \A w \in Workers : s \in room[w] => w = plays[s]
        /\ link[s] = "new" => todo[s] = <<>>

OthersSeatPhones == \A p \in Peers \ Screens : todo[p] \in Seq(OthersStep)

Bindings ==
    /\ WorkersOpen
    /\ ScreensAtHome
    /\ OthersSeatPhones
    /\ \A s \in Screens : ScreenTaskFits(s)

BInv == IInv /\ Bindings

-----------------------------------------------------------------------------
(* The two properties are read off the forms.                              *)
LEMMA FormsSuffice == BInv => RelaysStayBound /\ RoomsHoldBoundScreens
<1> SUFFICES ASSUME BInv PROVE RelaysStayBound /\ RoomsHoldBoundScreens
  OBVIOUS
<1> USE DEF BInv, Bindings
<1>0. \A s \in Screens : plays[s] \in Workers /\ todo[s] \in Seq(Step)
  BY DEF IInv, TypeOK, Peers, Browsers
<1>1. ASSUME NEW s \in Screens, NextIs(s, "toWorker"), Head(todo[s]).ev # "terminateSession"
      PROVE  \/ Head(todo[s]).worker \notin workers
             \/ clientToWorker[s] = Head(todo[s]).worker
  <2> USE <1>1 DEF NextIs
  <2>1. CASE Unconcerned(s)
    <3> DEFINE S == HarmlessStep
    <3>1. todo[s] \in Seq(S)
      BY <2>1 DEF Unconcerned
    <3> HIDE DEF S
    <3>2. Head(todo[s]) \in S
      BY <3>1
    <3>3. QED
      BY <3>2 DEF S, HarmlessStep
  <2>2. CASE Departing(s) \/ Ending(s) \/ Opening(s)
    <3>1. ~Opening(s)
      BY DEF Opening, Bind
    <3>2. ~Ending(s)
      BY DEF Ending, EndSession, ToWorker, Do
    <3>3. ~Departing(s)
      BY DEF Departing, EndSession, ToWorker, Do
    <3>4. QED
      BY <2>2, <3>1, <3>2, <3>3
  <2>3. CASE Sending(s)
    <3>1. Head(todo[s]).worker = plays[s]
      BY <2>3 DEF Sending, ToWorker
    <3>2. link[plays[s]] = "gone" => plays[s] \notin workers
      BY <1>0 DEF WorkersOpen
    <3>3. QED
      BY <2>3, <3>1, <3>2 DEF Sending
  <2>4. QED
    BY <2>1, <2>2, <2>3 DEF ScreenTaskFits
<1>2. ASSUME NEW w \in workers, NEW s \in room[w] \cap Screens
      PROVE  \/ clientToWorker[s] = w
             \/ Pending(s, ToWorker(w, s, "terminateSession"))
  <2>1. w \in Workers /\ w = plays[s]
    BY DEF IInv, TypeOK, R!TypeOK, ScreensAtHome
  <2>2. CASE Held(s)
    BY <2>1, <2>2 DEF Held
  <2>3. CASE ~Held(s)
    <3>1. todo[s] # <<>> /\ Head(todo[s]) = EndSession(s)
      BY <2>1, <2>3
         DEF ScreenTaskFits, Unconcerned, Departing, Ending, Opening, Sending, EndSession
    <3>2. 1 \in DOMAIN todo[s] /\ todo[s][1] = Head(todo[s])
      BY <1>0, <3>1
    <3>3. QED
      BY <2>1, <3>1, <3>2 DEF Pending, EndSession
  <2>4. QED
    BY <2>2, <2>3
<1>3. QED
  BY <1>1, <1>2 DEF RelaysStayBound, RoomsHoldBoundScreens

-----------------------------------------------------------------------------
(* A step that leaves a screen's task, its binding and its session alone,  *)
(* or takes its worker away with both, keeps the form: a socket that is    *)
(* over never opens again (registry.rs:64-89, ws.rs:487-495).              *)
LEMMA Undisturbed ==
    ASSUME NEW s \in Screens, ScreenTaskFits(s),
           todo'[s] = todo[s], plays' = plays,
           link[plays[s]] # "new" => link'[plays[s]] # "new",
           link[plays[s]] = "gone" => link'[plays[s]] = "gone",
           s \in room'[plays[s]] => s \in room[plays[s]],
           \/ clientToWorker'[s] = clientToWorker[s]
           \/ link'[plays[s]] = "gone" /\ s \notin room'[plays[s]]
    PROVE  ScreenTaskFits(s)'
<1>1. Held(s) => Held(s)'
  BY DEF Held
<1>2. EndSession(s)' = EndSession(s)
  BY DEF EndSession, ToWorker
<1>3. Unconcerned(s) => Unconcerned(s)'
  BY <1>1 DEF Unconcerned, HarmlessStep
<1>4. Departing(s) => Departing(s)'
  BY <1>1, <1>2 DEF Departing
<1>5. Ending(s) => Ending(s)'
  BY <1>2 DEF Ending
<1>6. Opening(s) => Opening(s)'
  BY <1>1 DEF Opening
<1>7. Sending(s) => Sending(s)'
  BY <1>1 DEF Sending
<1>8. QED
  BY <1>3, <1>4, <1>5, <1>6, <1>7 DEF ScreenTaskFits

(* What the task of a peer may send to workers: about phones, or about the *)
(* screen it serves, to the room its page is for.                          *)
LEMMA WhomTasksSendFor ==
    ASSUME BInv, NEW p \in Peers, NextIs(p, "toWorker")
    PROVE  \/ Head(todo[p]).peer \in Phones
           \/ /\ p \in Screens
              /\ Head(todo[p]).peer = p
              /\ Head(todo[p]).worker = plays[p]
<1> USE DEF BInv, Bindings, NextIs
<1>1. CASE p \notin Screens
  <2> DEFINE S == OthersStep
  <2>1. todo[p] \in Seq(S)
    BY <1>1 DEF OthersSeatPhones
  <2> HIDE DEF S
  <2>2. Head(todo[p]) \in S
    BY <2>1
  <2>3. QED
    BY <2>2 DEF S, OthersStep
<1>2. CASE p \in Screens
  <2>1. CASE Unconcerned(p)
    <3> DEFINE S == HarmlessStep
    <3>1. todo[p] \in Seq(S)
      BY <2>1 DEF Unconcerned
    <3> HIDE DEF S
    <3>2. Head(todo[p]) \in S
      BY <3>1
    <3>3. QED
      BY <3>2 DEF S, HarmlessStep
  <2>2. CASE Departing(p)
    BY <1>2, <2>2 DEF Departing, EndSession, ToWorker, Do
  <2>3. CASE Ending(p)
    <3>1. Head(todo[p]) \in {EndSession(p), Do("unbind")}
      BY <2>3 DEF Ending
    <3>2. QED
      BY <1>2, <3>1 DEF EndSession, ToWorker, Do
  <2>4. CASE Opening(p)
    <3>1. Head(todo[p]) = Bind(plays[p])
      BY <2>4 DEF Opening
    <3>2. QED
      BY <3>1 DEF Bind
  <2>5. CASE Sending(p)
    <3>1. PICK ev \in WorkerEvents : Head(todo[p]) = ToWorker(plays[p], p, ev)
      BY <2>5 DEF Sending
    <3>2. QED
      BY <1>2, <3>1 DEF ToWorker
  <2>6. QED
    BY <1>2, <2>1, <2>2, <2>3, <2>4, <2>5 DEF ScreenTaskFits
<1>3. QED
  BY <1>1, <1>2

(* A message for one browser does not move another (signal_router.rs).     *)
LEMMA DeliveredToOne ==
    ASSUME TypeOK, NEW w \in Workers, NEW b \in Browsers, NEW ev, NEW v \in Workers
    PROVE  /\ \A c \in Browsers \ {b} : c \in Delivered(w, b, ev)[v] <=> c \in room[v]
           /\ v # w => Delivered(w, b, ev)[v] = room[v]
           /\ w \notin workers => Delivered(w, b, ev) = room
           /\ ev = "terminateSession" /\ w \in workers => b \notin Delivered(w, b, ev)[w]
  BY DEF Delivered, TypeOK

(* Executing a step changes nothing of a screen but the step's own.        *)
LEMMA ProceedLeavesOthers ==
    ASSUME BInv, NEW p \in Peers, Proceed(p), NEW s \in Screens, p # s
    PROVE  /\ todo'[s] = todo[s]
           /\ clientToWorker'[s] = clientToWorker[s]
           /\ \A v \in Workers : s \in room'[v] <=> s \in room[v]
<1>0. /\ TypeOK /\ TasksFit /\ R!TypeOK
      /\ s \in Browsers /\ s \in Peers
      /\ todo \in [Peers -> Seq(Step)]
  BY DEF BInv, IInv, TypeOK, Browsers, Peers
<1>1. todo'[s] = todo[s]
  BY <1>0 DEF Proceed, SendToWorker, SendToClient, DoBind, DoUnbind, DoHost,
     DoUnregister, DoReadGames, DoBroadcast, DoGreet, Finish, Continue
<1>2. CASE SendToWorker(p)
  <2>1. NextIs(p, "toWorker") /\ todo[p] # <<>>
    BY <1>2 DEF SendToWorker, NextIs
  <2>2. Head(todo[p]).worker \in Workers /\ Head(todo[p]).peer \in Browsers
    BY <1>0, <2>1, TodoSteps, StepFields DEF NextIs
  <2>3. Head(todo[p]).peer # s
    BY <2>1, WhomTasksSendFor, RolesAssumption
  <2>4. \A v \in Workers : s \in room'[v] <=> s \in room[v]
    BY <1>0, <1>2, <2>2, <2>3, DeliveredToOne DEF SendToWorker
  <2>5. QED
    BY <1>1, <1>2, <2>4 DEF SendToWorker, registryVars
<1>3. CASE DoBind(p) \/ DoUnbind(p) \/ DoUnregister(p)
  <2>1. clientToWorker'[s] = clientToWorker[s]
    BY <1>0, <1>3 DEF DoBind, DoUnbind, DoUnregister, R!BindClient, R!UnbindClient,
       R!UnregisterClient, R!TypeOK
  <2>2. QED
    BY <1>1, <1>3, <2>1 DEF DoBind, DoUnbind, DoUnregister
<1>4. CASE SendToClient(p) \/ DoHost(p) \/ DoReadGames(p) \/ DoBroadcast(p) \/ DoGreet(p)
  BY <1>1, <1>4 DEF SendToClient, DoHost, DoReadGames, DoBroadcast, DoGreet, registryVars
<1>5. QED
  BY <1>2, <1>3, <1>4 DEF Proceed

(* A task executes the step at its head.                                   *)
LEMMA StepTaken ==
    ASSUME NEW p, Proceed(p)
    PROVE  /\ todo[p] # <<>>
           /\ Head(todo[p]).op = "toWorker" => SendToWorker(p)
           /\ Head(todo[p]).op = "bind" => DoBind(p)
           /\ Head(todo[p]).op = "unbind" => DoUnbind(p)
           /\ Head(todo[p]).op = "unregister" => DoUnregister(p)
  BY DEF Proceed, SendToWorker, SendToClient, DoBind, DoUnbind, DoHost,
     DoUnregister, DoReadGames, DoBroadcast, DoGreet, NextIs

(* What a step that concerns no screen leaves: the rest, or the rest after *)
(* one more such step (ws.rs:84-144).                                      *)
LEMMA HarmlessContinues ==
    ASSUME BInv, NEW s \in Screens, Proceed(s), Unconcerned(s)
    PROVE  /\ todo'[s] \in Seq(HarmlessStep)
           /\ clientToWorker'[s] = clientToWorker[s]
           /\ \A v \in Workers : s \in room'[v] <=> s \in room[v]
<1>0. /\ TypeOK /\ TasksFit /\ R!TypeOK
      /\ s \in Browsers /\ s \in Peers
      /\ todo \in [Peers -> Seq(Step)]
  BY DEF BInv, IInv, TypeOK, Browsers, Peers
<1> DEFINE S == HarmlessStep
<1>1. todo[s] \in Seq(S) /\ todo[s] # <<>>
  BY StepTaken DEF Unconcerned
<1> HIDE DEF S
<1>2. Head(todo[s]) \in S /\ Tail(todo[s]) \in Seq(S)
  BY <1>1
<1>3. /\ Head(todo[s]).op \notin {"bind", "unbind", "unregister"}
      /\ Head(todo[s]).op = "toWorker" => Head(todo[s]).peer \in Phones
  BY <1>2 DEF S, HarmlessStep
<1>4. CASE SendToWorker(s)
  <2>1. todo'[s] = Tail(todo[s])
    BY <1>0, <1>4 DEF SendToWorker, Finish, Rest
  <2>2. Head(todo[s]).worker \in Workers /\ Head(todo[s]).peer \in Browsers \ {s}
    BY <1>0, <1>1, <1>3, <1>4, TodoSteps, StepFields, RolesAssumption
       DEF SendToWorker, NextIs
  <2>3. \A v \in Workers : s \in room'[v] <=> s \in room[v]
    BY <1>0, <1>4, <2>2, DeliveredToOne DEF SendToWorker
  <2>4. QED
    BY <1>2, <1>4, <2>1, <2>3 DEF SendToWorker, registryVars, S
<1>5. CASE ~SendToWorker(s)
  <2>1. /\ UNCHANGED <<clientToWorker, room>>
        /\ \/ Finish(s)
           \/ Continue(s, <<BroadcastGames(R!GamesPayload(Dedupe))>>)
           \/ Continue(s, <<GreetGames(R!GamesPayload(Dedupe))>>)
           \/ Continue(s, <<GreetCounts(playerCounts)>>)
           \/ \E c \in Codes : Continue(s, <<ToClient(s, "ready", c)>>)
    BY <1>3, <1>5 DEF Proceed, SendToWorker, SendToClient, DoBind, DoUnbind, DoHost,
       DoUnregister, DoReadGames, DoBroadcast, DoGreet, NextIs, registryVars
  <2>2. CASE Finish(s)
    BY <1>0, <1>2, <2>1, <2>2 DEF Finish, Rest, S
  <2>3. ASSUME NEW x \in S, Continue(s, <<x>>)
        PROVE  todo'[s] \in Seq(S)
    BY <1>0, <1>2, <2>3 DEF Continue, Rest
  <2>4. /\ BroadcastGames(R!GamesPayload(Dedupe)) \in S
        /\ GreetGames(R!GamesPayload(Dedupe)) \in S
        /\ GreetCounts(playerCounts) \in S
        /\ \A c \in Codes : ToClient(s, "ready", c) \in S
    BY <1>0, RegistryReads, StepsBuilt
       DEF S, HarmlessStep, StepOf, BroadcastGames, GreetGames, GreetCounts, ToClient
  <2>5. QED
    BY <2>1, <2>2, <2>3, <2>4 DEF S
<1>6. QED
  BY <1>4, <1>5

(* The task of a screen moves from form to form (ws.rs:158-175, 199-203,   *)
(* 457-463).                                                               *)
LEMMA OwnStep ==
    ASSUME BInv, NEW s \in Screens, Proceed(s)
    PROVE  /\ ScreenTaskFits(s)'
           /\ clientToWorker'[s] \in {None, plays[s]}
           /\ \A v \in Workers : s \in room'[v] => v = plays[s]
<1> DEFINE w == plays[s]
<1>0. /\ TypeOK /\ TasksFit /\ R!TypeOK
      /\ s \in Browsers /\ s \in Peers /\ w \in Workers
      /\ todo \in [Peers -> Seq(Step)]
      /\ room \in [Workers -> SUBSET Browsers]
      /\ clientToWorker[s] \in {None, plays[s]}
      /\ \A v \in Workers : s \in room[v] => v = plays[s]
      /\ \A v \in Workers : v \in workers <=> link[v] = "open"
      /\ \A v \in Workers : v \notin workers => room[v] = {}
      /\ ScreenTaskFits(s)
  BY DEF BInv, Bindings, IInv, TypeOK, Browsers, Peers, ScreensAtHome, WorkersOpen
<1>a. plays' = plays /\ link' = link /\ todo[s] # <<>>
  BY DEF Proceed, SendToWorker, SendToClient, DoBind, DoUnbind, DoHost,
     DoUnregister, DoReadGames, DoBroadcast, DoGreet, NextIs
<1>b. <<>> \in Seq(HarmlessStep)
  OBVIOUS
<1>c. EndSession(s)' = EndSession(s)
  BY <1>a DEF EndSession, ToWorker
(* Sending the end of the session ends it. *)
<1>d. ASSUME Head(todo[s]) = EndSession(s)
      PROVE  /\ todo'[s] = Tail(todo[s])
             /\ s \notin room'[w]
             /\ clientToWorker' = clientToWorker
             /\ \A v \in Workers : s \in room'[v] => v = plays[s]
  <2>1. Head(todo[s]).op = "toWorker" /\ Head(todo[s]).worker = w
        /\ Head(todo[s]).peer = s /\ Head(todo[s]).ev = "terminateSession"
    BY <1>d DEF EndSession, ToWorker
  <2>2. SendToWorker(s)
    BY <2>1, StepTaken
  <2>3. room' = Delivered(w, s, "terminateSession")
    BY <2>1, <2>2 DEF SendToWorker
  <2>4. s \notin room'[w] /\ \A v \in Workers : v # w => room'[v] = room[v]
    BY <1>0, <2>3, DeliveredToOne
  <2>5. QED
    BY <1>0, <2>2, <2>4 DEF SendToWorker, Finish, Rest, registryVars
<1>1. CASE Unconcerned(s)
  <2>1. Held(s)' /\ Unconcerned(s)'
    BY <1>0, <1>1, <1>a, HarmlessContinues DEF Unconcerned, Held, HarmlessStep
  <2>2. QED
    BY <1>0, <1>1, <2>1, HarmlessContinues DEF ScreenTaskFits
<1>2. CASE Departing(s) /\ Head(todo[s]) = Do("unregister")
  <2> DEFINE S == HarmlessStep
  <2>1. DoUnregister(s) /\ Tail(todo[s]) \in Seq(S) /\ Held(s)
    BY <1>2, StepTaken DEF Departing, Do, EndSession, ToWorker
  <2>2. clientToWorker'[s] = None /\ UNCHANGED room
    BY <1>0, <2>1 DEF DoUnregister, R!UnregisterClient, R!TypeOK
  <2> HIDE DEF S
  <2>3. CASE clientToWorker[s] = None
    <3>1. Continue(s, <<>>)
      BY <2>1, <2>3 DEF DoUnregister
    <3>2. todo'[s] = Tail(todo[s])
      BY <1>0, <2>1, <3>1 DEF Continue, Rest
    <3>3. s \notin room[w]
      BY <1>0, <2>1, <2>3, NoneAssumption DEF Held
    <3>4. Unconcerned(s)'
      BY <1>a, <2>1, <2>2, <3>2, <3>3 DEF Unconcerned, Held, HarmlessStep, S
    <3>5. QED
      BY <1>0, <2>2, <3>4 DEF ScreenTaskFits
  <2>4. CASE clientToWorker[s] # None
    <3>1. Continue(s, <<EndSession(s)>>)
      BY <1>0, <2>1, <2>4 DEF DoUnregister, EndSession
    <3>2. todo'[s] = <<EndSession(s)>> \o Tail(todo[s])
      BY <1>0, <2>1, <3>1 DEF Continue, Rest
    <3>3. EndSession(s) \in Step
      BY <1>0, StepsBuilt DEF EndSession, WorkerEvents, StepOf
    <3>4. /\ todo'[s] # <<>>
          /\ Head(todo'[s]) = EndSession(s)
          /\ Tail(todo'[s]) = Tail(todo[s])
      <4>1. Tail(todo[s]) \in Seq(Step) /\ <<EndSession(s)>> \in Seq(Step)
        BY <1>0, <1>a, <3>3
      <4> DEFINE e == EndSession(s)
                 t == Tail(todo[s])
      <4> HIDE DEF e, t
      <4>2. \A T : e \in T /\ t \in Seq(T) =>
                <<e>> \o t # <<>> /\ Head(<<e>> \o t) = e /\ Tail(<<e>> \o t) = t
        OBVIOUS
      <4>3. QED
        BY <3>2, <3>3, <4>1, <4>2 DEF e, t
    <3>5. Departing(s)'
      BY <1>c, <2>1, <3>4 DEF Departing, HarmlessStep, S
    <3>6. QED
      BY <1>0, <2>2, <3>5 DEF ScreenTaskFits
  <2>5. QED
    BY <2>3, <2>4
<1>3. CASE Departing(s) /\ Head(todo[s]) = EndSession(s)
  <2>1. Tail(todo[s]) \in Seq(HarmlessStep)
    BY <1>3 DEF Departing
  <2>2. Unconcerned(s)'
    BY <1>3, <1>a, <1>d, <2>1 DEF Unconcerned, Held, HarmlessStep
  <2>3. QED
    BY <1>0, <1>3, <1>d, <2>2 DEF ScreenTaskFits
<1>4. CASE Ending(s) /\ todo[s] = <<EndSession(s), Do("unbind")>>
  <2>1. Head(todo[s]) = EndSession(s) /\ Tail(todo[s]) = <<Do("unbind")>>
    BY <1>4
  <2>2. Ending(s)'
    BY <1>a, <1>d, <2>1 DEF Ending
  <2>3. QED
    BY <1>0, <1>d, <2>1, <2>2 DEF ScreenTaskFits
<1>5. CASE Ending(s) /\ todo[s] = <<Do("unbind")>>
  <2>1. Head(todo[s]) = Do("unbind") /\ Tail(todo[s]) = <<>> /\ Head(todo[s]).op = "unbind"
    BY <1>5 DEF Do
  <2>2. DoUnbind(s)
    BY <2>1, StepTaken
  <2>3. s \notin room[w]
    BY <1>5 DEF Ending, EndSession, ToWorker, Do
  <2>4. todo'[s] = <<>> /\ UNCHANGED room /\ clientToWorker'[s] = None
    BY <1>0, <2>1, <2>2 DEF DoUnbind, Finish, Rest, R!UnbindClient, R!TypeOK
  <2>5. Unconcerned(s)'
    BY <1>a, <1>b, <2>3, <2>4 DEF Unconcerned, Held
  <2>6. QED
    BY <1>0, <2>4, <2>5 DEF ScreenTaskFits
<1>6. CASE Opening(s)
  <2>1. PICK ev \in BindingEvents : todo[s] = <<Bind(w), ToWorker(w, s, ev)>>
    BY <1>6 DEF Opening
  <2>2. Head(todo[s]) = Bind(w) /\ Tail(todo[s]) = <<ToWorker(w, s, ev)>>
    BY <2>1
  <2>3. DoBind(s) /\ Head(todo[s]).worker = w
    BY <2>2, StepTaken DEF Bind
  <2>4. /\ todo'[s] = <<ToWorker(w, s, ev)>>
        /\ UNCHANGED room
        /\ clientToWorker'[s] = w
    BY <1>0, <2>2, <2>3 DEF DoBind, Finish, Rest, R!BindClient, R!TypeOK
  <2>5. ev \in WorkerEvents \ {"terminateSession"}
    BY DEF BindingEvents, WorkerEvents
  <2>6. Sending(s)'
    BY <1>a, <2>4, <2>5 DEF Sending, Held, ToWorker
  <2>7. QED
    BY <1>0, <2>4, <2>6 DEF ScreenTaskFits
<1>7. CASE Sending(s)
  <2>1. PICK ev \in WorkerEvents \ {"terminateSession"} : todo[s] = <<ToWorker(w, s, ev)>>
    BY <1>7 DEF Sending
  <2>2. Head(todo[s]) = ToWorker(w, s, ev) /\ Tail(todo[s]) = <<>>
    BY <2>1
  <2>3. SendToWorker(s) /\ Head(todo[s]).worker = w /\ Head(todo[s]).peer = s
    BY <2>2, StepTaken DEF ToWorker
  <2>4. /\ todo'[s] = <<>>
        /\ clientToWorker' = clientToWorker
        /\ room' = Delivered(w, s, Head(todo[s]).ev)
    BY <1>0, <2>2, <2>3 DEF SendToWorker, Finish, Rest, registryVars
  <2>5. \A v \in Workers : s \in room'[v] => v = plays[s]
    BY <1>0, <2>4, DeliveredToOne
  <2>6. Held(s)'
    <3>1. CASE w \in workers
      BY <1>0, <1>7, <1>a, <2>4, <3>1 DEF Sending, Held
    <3>2. CASE w \notin workers
      BY <1>0, <1>a, <2>4, <3>2, DeliveredToOne DEF Held
    <3>3. QED
      BY <3>1, <3>2
  <2>7. Unconcerned(s)'
    BY <1>b, <2>4, <2>6 DEF Unconcerned
  <2>8. QED
    BY <1>0, <2>4, <2>5, <2>7 DEF ScreenTaskFits
<1>8. QED
  BY <1>0, <1>1, <1>2, <1>3, <1>4, <1>5, <1>6, <1>7
     DEF ScreenTaskFits, Departing, Ending

-----------------------------------------------------------------------------
(* Executing steps keeps the bindings (ws.rs:84-144, 456-495).             *)
LEMMA ProceedKeepsBindings ==
    ASSUME BInv, NEW p \in Peers, Proceed(p)
    PROVE  Bindings'
<1>0. /\ TypeOK /\ TasksFit /\ R!TypeOK
      /\ todo \in [Peers -> Seq(Step)]
      /\ room \in [Workers -> SUBSET Browsers]
      /\ Screens \subseteq Browsers /\ Browsers \subseteq Peers
      /\ \A s \in Screens : plays[s] \in Workers
      /\ WorkersOpen /\ ScreensAtHome /\ OthersSeatPhones
      /\ \A s \in Screens : ScreenTaskFits(s)
  BY DEF BInv, Bindings, IInv, TypeOK, Browsers, Peers
<1>1. /\ plays' = plays /\ link' = link /\ workers' = workers
      /\ todo[p] # <<>>
      /\ \A q \in Peers \ {p} : todo'[q] = todo[q]
  BY <1>0 DEF Proceed, SendToWorker, SendToClient, DoBind, DoUnbind, DoHost,
     DoUnregister, DoReadGames, DoBroadcast, DoGreet, NextIs, Finish, Continue,
     registryVars, R!BindClient, R!UnbindClient, R!UnregisterClient
<1>2. WorkersOpen'
  <2>1. CASE SendToWorker(p)
    <3>1. Head(todo[p]).worker \in Workers /\ Head(todo[p]).peer \in Browsers
      BY <1>0, <1>1, <2>1, TodoSteps, StepFields DEF SendToWorker, NextIs
    <3>2. \A w \in Workers : w \notin workers => room'[w] = room[w]
      BY <1>0, <2>1, <3>1, DeliveredToOne DEF SendToWorker
    <3>3. QED
      BY <1>0, <1>1, <3>2 DEF WorkersOpen
  <2>2. CASE ~SendToWorker(p)
    <3>1. room' = room
      BY <2>2 DEF Proceed, SendToClient, DoBind, DoUnbind, DoHost, DoUnregister,
         DoReadGames, DoBroadcast, DoGreet
    <3>2. QED
      BY <1>0, <1>1, <3>1 DEF WorkersOpen
  <2>3. QED
    BY <2>1, <2>2
<1>3. ASSUME NEW s \in Screens
      PROVE  /\ ScreenTaskFits(s)'
             /\ clientToWorker'[s] \in {None, plays[s]}
             /\ \A w \in Workers : s \in room'[w] => w = plays[s]
             /\ link[s] = "new" => todo'[s] = <<>>
  <2>1. CASE p = s
    BY <1>0, <1>1, <2>1, OwnStep DEF ScreensAtHome
  <2>2. CASE p # s
    <3>1. /\ todo'[s] = todo[s]
          /\ clientToWorker'[s] = clientToWorker[s]
          /\ \A w \in Workers : s \in room'[w] <=> s \in room[w]
      BY <2>2, ProceedLeavesOthers
    <3>2. ScreenTaskFits(s)'
      BY <1>0, <1>1, <3>1, Undisturbed
    <3>3. QED
      BY <1>0, <3>1, <3>2 DEF ScreensAtHome
  <2>3. QED
    BY <2>1, <2>2
<1>4. ScreensAtHome'
  BY <1>1, <1>3 DEF ScreensAtHome
<1>5. OthersSeatPhones'
  <2> DEFINE S == OthersStep
  <2>1. S' = S
    BY DEF OthersStep, Step, Payloads, CountMaps
  <2>2. CASE p \in Screens
    BY <1>0, <1>1, <2>1, <2>2 DEF OthersSeatPhones
  <2>3. CASE p \notin Screens
    <3>1. todo[p] \in Seq(S)
      BY <1>0, <2>3 DEF OthersSeatPhones
    <3> HIDE DEF S
    <3>2. Tail(todo[p]) \in Seq(S)
      BY <1>1, <3>1
    <3>3. \/ Finish(p)
          \/ Continue(p, <<>>)
          \/ Continue(p, <<BroadcastGames(R!GamesPayload(Dedupe))>>)
          \/ Continue(p, <<GreetGames(R!GamesPayload(Dedupe))>>)
          \/ Continue(p, <<GreetCounts(playerCounts)>>)
          \/ /\ DoUnregister(p) /\ clientToWorker[p] # None
             /\ Continue(p, <<ToWorker(clientToWorker[p], p, "terminateSession")>>)
      <4>1. ~DoHost(p)
        BY <1>0, <1>1, <2>3, TodoSteps, StepFields DEF DoHost, NextIs
      <4>2. QED
        BY <4>1 DEF Proceed, SendToWorker, SendToClient, DoBind, DoUnbind, DoHost,
           DoUnregister, DoReadGames, DoBroadcast, DoGreet
    <3>4. ASSUME Finish(p)
          PROVE  todo'[p] \in Seq(S)
      BY <1>0, <3>2, <3>4 DEF Finish, Rest
    <3>5. ASSUME Continue(p, <<>>)
          PROVE  todo'[p] \in Seq(S)
      BY <1>0, <3>2, <3>5 DEF Continue, Rest
    <3>6. ASSUME NEW x \in S, Continue(p, <<x>>)
          PROVE  todo'[p] \in Seq(S)
      BY <1>0, <3>2, <3>6 DEF Continue, Rest
    <3>7. /\ BroadcastGames(R!GamesPayload(Dedupe)) \in S
          /\ GreetGames(R!GamesPayload(Dedupe)) \in S
          /\ GreetCounts(playerCounts) \in S
      BY <1>0, RegistryReads, StepsBuilt
         DEF S, OthersStep, StepOf, BroadcastGames, GreetGames, GreetCounts
    <3>8. ASSUME DoUnregister(p), clientToWorker[p] # None
          PROVE  ToWorker(clientToWorker[p], p, "terminateSession") \in S
      <4>1. p \in Phones
        BY <1>0, <1>1, <2>3, <3>8, TodoSteps, StepFields DEF DoUnregister, NextIs, Browsers
      <4>2. clientToWorker[p] \in Workers /\ p \in Browsers
        BY <1>0, <3>8, <4>1 DEF R!TypeOK, Browsers
      <4>3. ToWorker(clientToWorker[p], p, "terminateSession") \in Step
        BY <4>2, StepsBuilt DEF StepOf, WorkerEvents
      <4>4. QED
        BY <4>1, <4>3 DEF S, OthersStep, ToWorker
    <3>9. todo'[p] \in Seq(S)
      BY <3>3, <3>4, <3>5, <3>6, <3>7, <3>8
    <3>10. QED
      BY <1>0, <1>1, <2>1, <3>9 DEF OthersSeatPhones, S
  <2>4. QED
    BY <2>2, <2>3
<1>6. QED
  BY <1>2, <1>3, <1>4, <1>5 DEF Bindings

-----------------------------------------------------------------------------
(* A handler that a phone or a worker starts, and one of a screen that     *)
(* begins with steps that concern no binding.                              *)
LEMMA ScheduledByOthers ==
    ASSUME BInv, NEW p \in Peers, NEW steps, Schedule(p, steps),
           p \in Screens => todo[p] = <<>> /\ steps \in Seq(HarmlessStep),
           p \notin Screens => steps \in Seq(OthersStep),
           UNCHANGED <<workers, clientToWorker, plays, room>>,
           \/ UNCHANGED link /\ link[p] = "open"
           \/ p \in Browsers /\ \E state \in {"open", "gone"} : link' = [link EXCEPT ![p] = state]
    PROVE  Bindings'
<1>0. /\ TypeOK
      /\ todo \in [Peers -> Seq(Step)]
      /\ link \in [Peers -> {"new", "open", "gone"}]
      /\ Screens \subseteq Browsers /\ Browsers \subseteq Peers /\ Workers \subseteq Peers
      /\ \A s \in Screens : plays[s] \in Workers
      /\ WorkersOpen /\ ScreensAtHome /\ OthersSeatPhones
      /\ \A s \in Screens : ScreenTaskFits(s)
  BY DEF BInv, Bindings, IInv, TypeOK, Browsers, Peers
<1>1. \A w \in Workers : link'[w] = link[w]
  BY <1>0, RolesAssumption
<1>2. \A q \in Peers \ {p} : todo'[q] = todo[q]
  BY <1>0 DEF Schedule
<1>3. todo'[p] = steps
  BY <1>0 DEF Schedule
<1>4. WorkersOpen'
  BY <1>0, <1>1 DEF WorkersOpen
<1>5. ScreensAtHome'
  <2>1. ASSUME NEW s \in Screens, link'[s] = "new"
        PROVE  todo'[s] = <<>>
    <3>1. s # p /\ link[s] = "new"
      BY <1>0, <2>1
    <3>2. QED
      BY <1>0, <1>2, <3>1 DEF ScreensAtHome
  <2>2. QED
    BY <1>0, <2>1 DEF ScreensAtHome
<1>6. OthersSeatPhones'
  BY <1>0, <1>2, <1>3 DEF OthersSeatPhones, OthersStep, Step, Payloads, CountMaps
<1>7. ASSUME NEW s \in Screens
      PROVE  ScreenTaskFits(s)'
  <2>1. CASE s # p
    BY <1>0, <1>1, <1>2, <2>1, Undisturbed
  <2>2. CASE s = p
    <3>1. Unconcerned(s)
      <4>1. todo[s] = <<>>
        BY <2>2
      <4>2. ~Departing(s)
        BY <4>1 DEF Departing
      <4>3. ~Ending(s)
        BY <4>1 DEF Ending
      <4>4. ~Opening(s)
        BY <4>1 DEF Opening
      <4>5. ~Sending(s)
        BY <4>1 DEF Sending
      <4>6. QED
        BY <1>0, <4>2, <4>3, <4>4, <4>5 DEF ScreenTaskFits
    <3>2. Unconcerned(s)'
      BY <1>3, <2>2, <3>1 DEF Unconcerned, Held, HarmlessStep
    <3>3. QED
      BY <3>2 DEF ScreenTaskFits
  <2>3. QED
    BY <2>1, <2>2
<1>8. QED
  BY <1>4, <1>5, <1>6, <1>7 DEF Bindings

(* What a browser that leaves has its task do: unregister, then tell those *)
(* it concerned, of whom the workers hear about phones (ws.rs:456-485).    *)
LEMMA LeavingIsHarmless ==
    ASSUME BInv, NEW b \in Browsers, Leave(b)
    PROVE  \E h \in Seq(HarmlessStep) : Schedule(b, <<Do("unregister")>> \o h)
<1>0. /\ TypeOK /\ C!TypeOK /\ IInv
      /\ b \in Peers
  BY DEF BInv, IInv, TypeOK, Browsers, Peers
<1>a. /\ \A w \in Workers, p \in Phones :
            ToWorker(w, p, "terminateSession") \in HarmlessStep
      /\ \A p \in Phones, s \in Screens :
            ToClient(p, "left", s) \in HarmlessStep /\ ToClient(s, "left", p) \in HarmlessStep
  <2>1. ASSUME NEW w \in Workers, NEW p \in Phones
        PROVE  ToWorker(w, p, "terminateSession") \in HarmlessStep
    <3>1. ToWorker(w, p, "terminateSession") \in Step
      BY <1>0, StepsBuilt DEF StepOf, WorkerEvents, Browsers
    <3>2. QED
      BY <3>1 DEF HarmlessStep, ToWorker
  <2>2. ASSUME NEW p \in Phones, NEW s \in Screens
        PROVE  ToClient(p, "left", s) \in HarmlessStep /\ ToClient(s, "left", p) \in HarmlessStep
    <3>1. ToClient(p, "left", s) \in Step /\ ToClient(s, "left", p) \in Step
      BY <1>0, StepsBuilt DEF StepOf
    <3>2. QED
      BY <3>1 DEF HarmlessStep, ToClient
  <2>3. QED
    BY <2>1, <2>2
<1>1. \A p \in Phones : controllerToHost[p] # None =>
            ToWorker(controllerToHost[p].worker, p, "terminateSession") \in HarmlessStep
  BY <1>0, <1>a DEF C!TypeOK, C!ControllerRoute
<1> DEFINE T == HarmlessStep
<1>2. \E h \in Seq(T) : Schedule(b, <<Do("unregister")>> \o h)
  <2>1. /\ \A p \in Phones, s \in Screens :
                ToClient(p, "left", s) \in T /\ ToClient(s, "left", p) \in T
        /\ \A p \in Phones : controllerToHost[p] # None =>
                ToWorker(controllerToHost[p].worker, p, "terminateSession") \in T
    BY <1>a, <1>1
  <2> HIDE DEF T
  <2>2. QED
    BY <1>0, <2>1, LeavingTells
<1>3. QED
  BY <1>2

(* A browser that leaves is about to unregister, still bound as it was.    *)
LEMMA LeaveKeepsBindings ==
    ASSUME BInv, NEW b \in Browsers, Leave(b)
    PROVE  Bindings'
<1>0. /\ TypeOK
      /\ todo \in [Peers -> Seq(Step)]
      /\ link \in [Peers -> {"new", "open", "gone"}]
      /\ Screens \subseteq Browsers /\ Browsers \subseteq Peers /\ Workers \subseteq Peers
      /\ \A s \in Screens : plays[s] \in Workers
      /\ WorkersOpen /\ ScreensAtHome /\ OthersSeatPhones
      /\ \A s \in Screens : ScreenTaskFits(s)
  BY DEF BInv, Bindings, IInv, TypeOK, Browsers, Peers
<1>1. /\ todo[b] = <<>>
      /\ link' = [link EXCEPT ![b] = "gone"]
      /\ UNCHANGED <<workers, clientToWorker, plays, room>>
  BY DEF Leave, Idle, registryVars
<1>2. PICK h \in Seq(HarmlessStep) : Schedule(b, <<Do("unregister")>> \o h)
  BY LeavingIsHarmless
<1>3. CASE b \notin Screens
  <2>1. <<Do("unregister")>> \o h \in Seq(OthersStep)
    <3> DEFINE S == HarmlessStep
               T == OthersStep
               u == Do("unregister")
    <3>1. S \subseteq T /\ u \in T
      <4>1. Do("unregister") \in Step
        BY <1>0, StepsBuilt DEF StepOf
      <4>2. QED
        BY <4>1 DEF HarmlessStep, OthersStep, Do
    <3>2. h \in Seq(S)
      OBVIOUS
    <3> HIDE DEF S, T, u
    <3>3. h \in Seq(T)
      BY <3>1, <3>2
    <3>4. QED
      BY <3>1, <3>3 DEF T, u
  <2>2. QED
    BY <1>0, <1>1, <1>2, <1>3, <2>1, ScheduledByOthers
<1>4. CASE b \in Screens
  <2>1. \A w \in Workers : link'[w] = link[w]
    BY <1>0, <1>1, RolesAssumption
  <2>2. WorkersOpen'
    BY <1>0, <1>1, <2>1 DEF WorkersOpen
  <2>3. \A q \in Peers \ {b} : todo'[q] = todo[q] /\ link'[q] = link[q]
    BY <1>0, <1>1, <1>2 DEF Schedule
  <2>4. ScreensAtHome'
    BY <1>0, <1>1, <2>3 DEF ScreensAtHome
  <2>5. OthersSeatPhones'
    BY <1>0, <1>4, <2>3 DEF OthersSeatPhones, OthersStep, Step, Payloads, CountMaps
  <2>6. /\ todo'[b] # <<>>
        /\ Head(todo'[b]) = Do("unregister")
        /\ Tail(todo'[b]) = h
    <3> DEFINE u == Do("unregister")
               S == HarmlessStep
    <3>1. todo'[b] = <<u>> \o h /\ h \in Seq(S)
      BY <1>0, <1>2 DEF Schedule
    <3> HIDE DEF u, S
    <3>2. \A T : u \in T /\ h \in Seq(T) =>
                <<u>> \o h # <<>> /\ Head(<<u>> \o h) = u /\ Tail(<<u>> \o h) = h
      OBVIOUS
    <3>3. h \in Seq(S \cup {u})
      BY <3>1
    <3>4. QED
      BY <3>1, <3>2, <3>3 DEF u
  <2>7. Held(b)
    <3>1. ~Departing(b)
      BY <1>1 DEF Departing
    <3>2. ~Ending(b)
      BY <1>1 DEF Ending
    <3>3. QED
      BY <1>0, <1>4, <3>1, <3>2 DEF ScreenTaskFits, Unconcerned, Opening, Sending
  <2>8. Departing(b)'
    BY <1>1, <1>2, <2>6, <2>7 DEF Departing, Held, Do, HarmlessStep
  <2>9. ASSUME NEW s \in Screens
        PROVE  ScreenTaskFits(s)'
    <3>1. CASE s # b
      BY <1>0, <1>1, <2>1, <2>3, <3>1, Undisturbed
    <3>2. CASE s = b
      BY <2>8, <3>2 DEF ScreenTaskFits
    <3>3. QED
      BY <3>1, <3>2
  <2>10. QED
    BY <2>2, <2>4, <2>5, <2>9 DEF Bindings
<1>5. QED
  BY <1>3, <1>4

(* The handlers of a screen start from an idle task, so the session is     *)
(* held only if bound; what they schedule is one of the forms (ws.rs:154-   *)
(* 203).                                                                   *)
LEMMA ScreenHandlersKeepBindings ==
    ASSUME BInv, NEW s \in Screens,
           \/ \E ev \in BindingEvents : OpenRoom(s, ev)
           \/ \E ev \in WorkerEvents : Relay(s, ev)
           \/ \E target \in Workers \cup {None} : Terminate(s, target)
    PROVE  Bindings'
<1>0. /\ TypeOK
      /\ todo \in [Peers -> Seq(Step)]
      /\ link \in [Peers -> {"new", "open", "gone"}]
      /\ Screens \subseteq Browsers /\ Browsers \subseteq Peers /\ Workers \subseteq Peers
      /\ \A q \in Screens : plays[q] \in Workers
      /\ WorkersOpen /\ ScreensAtHome /\ OthersSeatPhones
      /\ \A q \in Screens : ScreenTaskFits(q)
  BY DEF BInv, Bindings, IInv, TypeOK, Browsers, Peers
<1>1. /\ todo[s] = <<>> /\ link[s] = "open"
      /\ UNCHANGED <<link, workers, clientToWorker, plays, room>>
      /\ \A q \in Peers \ {s} : todo'[q] = todo[q]
  BY <1>0 DEF OpenRoom, Relay, Terminate, Idle, registryVars, Schedule
<1>2. WorkersOpen'
  BY <1>0, <1>1 DEF WorkersOpen
<1>3. ScreensAtHome'
  BY <1>0, <1>1 DEF ScreensAtHome
<1>4. OthersSeatPhones'
  BY <1>0, <1>1 DEF OthersSeatPhones, OthersStep, Step, Payloads, CountMaps
<1>5. Held(s)
  <2>1. ~Departing(s)
    BY <1>1 DEF Departing
  <2>2. ~Ending(s)
    BY <1>1 DEF Ending
  <2>3. QED
    BY <1>0, <2>1, <2>2 DEF ScreenTaskFits, Unconcerned, Opening, Sending
<1>6. Held(s)'
  BY <1>1, <1>5 DEF Held
<1>7. ScreenTaskFits(s)'
  <2>1. ASSUME NEW ev \in BindingEvents, OpenRoom(s, ev)
        PROVE  Opening(s)'
    <3>1. todo'[s] = <<Bind(plays[s]), ToWorker(plays[s], s, ev)>>
      BY <1>0, <2>1 DEF OpenRoom, Schedule
    <3>2. link[plays[s]] = "open"
      BY <1>0, <2>1 DEF OpenRoom, WorkersOpen
    <3>3. QED
      BY <1>1, <1>6, <3>1, <3>2 DEF Opening, Bind, ToWorker
  <2>2. ASSUME NEW ev \in WorkerEvents, Relay(s, ev)
        PROVE  Sending(s)'
    <3>1. todo'[s] = <<ToWorker(plays[s], s, ev)>> /\ clientToWorker[s] = plays[s]
      BY <1>0, <2>2 DEF Relay, Schedule
    <3>2. ev \in WorkerEvents \ {"terminateSession"}
      BY <2>2 DEF Relay
    <3>3. QED
      BY <1>1, <1>6, <3>1, <3>2 DEF Sending, ToWorker
  <2>3. ASSUME NEW target, Terminate(s, target)
        PROVE  Ending(s)'
    <3>1. /\ todo'[s] = <<ToWorker(clientToWorker[s], s, "terminateSession"), Do("unbind")>>
          /\ clientToWorker[s] = plays[s]
      BY <1>0, <2>3 DEF Terminate, Schedule, ScreensAtHome
    <3>2. QED
      BY <1>1, <3>1 DEF Ending, EndSession, ToWorker, Do
  <2>4. QED
    BY <2>1, <2>2, <2>3 DEF ScreenTaskFits
<1>8. ASSUME NEW q \in Screens, q # s
      PROVE  ScreenTaskFits(q)'
  BY <1>0, <1>1, <1>8, Undisturbed
<1>9. QED
  BY <1>2, <1>3, <1>4, <1>7, <1>8 DEF Bindings

(* A worker that arrives holds nobody, and its room was asked for by no one *)
(* before; one that leaves takes its sessions and bindings along           *)
(* (registry.rs:48-89, ws.rs:487-495).                                     *)
LEMMA WorkersKeepBindings ==
    ASSUME BInv, NEW w \in Workers, ConnectWorker(w) \/ WorkerLeaves(w)
    PROVE  Bindings'
<1>0. /\ TypeOK /\ R!TypeOK
      /\ todo \in [Peers -> Seq(Step)]
      /\ link \in [Peers -> {"new", "open", "gone"}]
      /\ room \in [Workers -> SUBSET Browsers]
      /\ w \notin Screens
      /\ Screens \subseteq Browsers /\ Browsers \subseteq Peers /\ Workers \subseteq Peers
      /\ \A s \in Screens : plays[s] \in Workers
      /\ WorkersOpen /\ ScreensAtHome /\ OthersSeatPhones
      /\ \A s \in Screens : ScreenTaskFits(s)
  BY RolesAssumption DEF BInv, Bindings, IInv, TypeOK, Browsers, Peers
<1>1. /\ plays' = plays
      /\ \A q \in Peers \ {w} : link'[q] = link[q] /\ todo'[q] = todo[q]
      /\ \A v \in Workers \ {w} : room'[v] = room[v] /\ (v \in workers' <=> v \in workers)
  BY <1>0 DEF ConnectWorker, WorkerLeaves, R!RegisterWorker, R!UnregisterWorker, Schedule
<1>2. CASE ConnectWorker(w)
  <2>1. /\ link[w] = "new" /\ link'[w] = "open" /\ w \in workers'
        /\ UNCHANGED <<room, clientToWorker, todo>>
    BY <1>0, <1>2 DEF ConnectWorker, R!RegisterWorker
  <2>2. WorkersOpen'
    BY <1>0, <1>1, <2>1 DEF WorkersOpen
  <2>3. ScreensAtHome'
    BY <1>0, <1>1, <2>1 DEF ScreensAtHome
  <2>4. OthersSeatPhones'
    BY <1>0, <2>1 DEF OthersSeatPhones, OthersStep, Step, Payloads, CountMaps
  <2>5. ASSUME NEW s \in Screens
        PROVE  ScreenTaskFits(s)'
    <3>1. /\ link[plays[s]] # "new" => link'[plays[s]] # "new"
          /\ link[plays[s]] = "gone" => link'[plays[s]] = "gone"
      BY <1>0, <1>1, <2>1
    <3>2. QED
      BY <1>0, <1>1, <2>1, <3>1, Undisturbed
  <2>6. QED
    BY <2>2, <2>3, <2>4, <2>5 DEF Bindings
<1>3. CASE WorkerLeaves(w)
  <2>1. /\ link'[w] = "gone" /\ w \notin workers' /\ room'[w] = {}
        /\ todo'[w] = <<Do("readGames")>>
        /\ \A b \in Browsers :
                clientToWorker'[b] = IF clientToWorker[b] = w THEN None ELSE clientToWorker[b]
    BY <1>0, <1>3 DEF WorkerLeaves, R!UnregisterWorker, R!BoundTo, Schedule
  <2>2. WorkersOpen'
    BY <1>0, <1>1, <2>1 DEF WorkersOpen
  <2>3. ScreensAtHome'
    <3>1. ASSUME NEW s \in Screens
          PROVE  /\ clientToWorker'[s] \in {None, plays[s]}
                 /\ \A v \in Workers : s \in room'[v] => v = plays[s]
                 /\ link'[s] = "new" => todo'[s] = <<>>
      BY <1>0, <1>1, <2>1 DEF ScreensAtHome
    <3>2. QED
      BY <1>1, <3>1 DEF ScreensAtHome
  <2>4. OthersSeatPhones'
    <3> DEFINE S == OthersStep
    <3>1. S' = S
      BY DEF OthersStep, Step, Payloads, CountMaps
    <3>2. Do("readGames") \in S
      BY <1>0, StepsBuilt DEF StepOf, OthersStep, Do
    <3> HIDE DEF S
    <3>3. todo'[w] \in Seq(S)
      BY <2>1, <3>2
    <3>4. \A p \in Peers \ Screens : todo[p] \in Seq(S)
      BY <1>0 DEF OthersSeatPhones, S
    <3>5. \A p \in Peers \ Screens : todo'[p] \in Seq(S)
      BY <1>1, <3>3, <3>4
    <3>6. QED
      BY <3>1, <3>5 DEF OthersSeatPhones, S
  <2>5. ASSUME NEW s \in Screens
        PROVE  ScreenTaskFits(s)'
    <3>1. todo'[s] = todo[s]
      BY <1>0, <1>1
    <3>2. CASE plays[s] = w
      BY <1>0, <1>1, <2>1, <3>1, <3>2, Undisturbed
    <3>3. CASE plays[s] # w
      <4>1. clientToWorker'[s] = clientToWorker[s]
        BY <1>0, <2>1, <3>3, NoneAssumption DEF ScreensAtHome
      <4>2. link'[plays[s]] = link[plays[s]] /\ room'[plays[s]] = room[plays[s]]
        BY <1>0, <1>1, <3>3
      <4>3. QED
        BY <1>0, <1>1, <3>1, <4>1, <4>2, Undisturbed
    <3>4. QED
      BY <3>2, <3>3
  <2>6. QED
    BY <2>2, <2>3, <2>4, <2>5 DEF Bindings
<1>4. QED
  BY <1>2, <1>3

(* The other handlers start with steps that concern no binding; those of   *)
(* phones and workers send only for phones (ws.rs:146-306, 409-485).       *)
LEMMA OtherHandlersKeepBindings ==
    ASSUME BInv, NEW p \in Peers,
           \/ p \in Browsers /\ (ConnectBrowser(p) \/ RequestGames(p))
           \/ p \in Screens /\ ControllerHost(p)
           \/ p \in Phones /\ \E c \in Codes : ControllerJoin(p, c)
           \/ p \in Phones /\ \E h \in Screens : ControllerInput(p, h)
           \/ p \in Workers /\ \E g \in GameNames : GameInfo(p, g)
           \/ p \in Workers /\ \E n \in Counts : UpdatePlayerCount(p, n)
    PROVE  Bindings'
<1>0. /\ TypeOK /\ R!TypeOK /\ C!TypeOK
      /\ ScreensAtHome
      /\ \A s \in Screens : plays[s] \in Workers /\ s \in Browsers /\ s \in Peers
  BY DEF BInv, Bindings, IInv, TypeOK, Browsers, Peers
<1>a. ASSUME NEW steps \in Seq(OthersStep), Schedule(p, steps), p \notin Screens,
             UNCHANGED <<workers, clientToWorker, plays, room, link>>, link[p] = "open"
      PROVE  Bindings'
  BY <1>a, ScheduledByOthers
<1>b. ASSUME NEW step \in HarmlessStep, Schedule(p, <<step>>),
             p \in Screens => todo[p] = <<>>,
             UNCHANGED <<workers, clientToWorker, plays, room>>,
             \/ UNCHANGED link /\ link[p] = "open"
             \/ p \in Browsers /\ link' = [link EXCEPT ![p] = "open"]
      PROVE  Bindings'
  <2>1. <<step>> \in Seq(HarmlessStep)
    OBVIOUS
  <2>2. <<step>> \in Seq(OthersStep)
    BY DEF HarmlessStep, OthersStep
  <2>3. QED
    BY <1>b, <2>1, <2>2, ScheduledByOthers
<1>1. CASE p \in Browsers /\ ConnectBrowser(p)
  <2>1. Do("greet") \in HarmlessStep
    BY StepsBuilt DEF StepOf, HarmlessStep, Do
  <2>2. p \in Screens => todo[p] = <<>>
    BY <1>0, <1>1 DEF ConnectBrowser, ScreensAtHome
  <2>3. QED
    BY <1>1, <1>b, <2>1, <2>2 DEF ConnectBrowser, R!RegisterClient
<1>2. CASE p \in Browsers /\ RequestGames(p)
  <2>1. ToClient(p, "games", R!GamesPayload(Dedupe)) \in HarmlessStep
    BY <1>0, <1>2, RegistryReads, StepsBuilt DEF StepOf, HarmlessStep, ToClient
  <2>2. QED
    BY <1>2, <1>b, <2>1 DEF RequestGames, Idle, registryVars
<1>3. CASE p \in Screens /\ ControllerHost(p)
  <2>1. Host(plays[p]) \in HarmlessStep
    BY <1>0, <1>3, StepsBuilt DEF StepOf, HarmlessStep, Host
  <2>2. QED
    BY <1>3, <1>b, <2>1 DEF ControllerHost, Idle, registryVars
<1>4. ASSUME p \in Phones, NEW c \in Codes, ControllerJoin(p, c)
      PROVE  Bindings'
  <2>0. p \notin Screens /\ p \in Browsers
    BY <1>4, RolesAssumption DEF Browsers
  <2>1. CASE Schedule(p, <<ToClient(p, "rejected", None)>>)
    <3>1. ToClient(p, "rejected", None) \in HarmlessStep
      BY <2>0, StepsBuilt DEF StepOf, HarmlessStep, ToClient
    <3>2. QED
      BY <1>4, <1>b, <2>0, <2>1, <3>1 DEF ControllerJoin, Idle, registryVars
  <2>2. CASE /\ C!JoinAccepted(p, c)
             /\ Schedule(p, <<ToClient(p, "joined", codeToHost[c].host),
                              ToClient(codeToHost[c].host, "joined", p),
                              ToWorker(codeToHost[c].worker, p, "joinRoom")>>)
    <3>1. codeToHost[c].host \in Screens /\ codeToHost[c].worker \in Workers
      BY <1>0, <2>2 DEF C!JoinAccepted, C!Live, C!Registered, C!TypeOK, C!HostRegistration
    <3> DEFINE S == OthersStep
               x == ToClient(p, "joined", codeToHost[c].host)
               y == ToClient(codeToHost[c].host, "joined", p)
               z == ToWorker(codeToHost[c].worker, p, "joinRoom")
    <3>2. x \in Step /\ y \in Step /\ z \in Step
      BY <1>4, <2>0, <3>1, StepsBuilt DEF StepOf, WorkerEvents
    <3>3. x \in S /\ y \in S /\ z \in S
      BY <1>4, <3>2 DEF OthersStep, ToClient, ToWorker
    <3>4. Schedule(p, <<x, y, z>>)
      BY <2>2
    <3> HIDE DEF S, x, y, z
    <3>5. <<x, y, z>> \in Seq(S)
      BY <3>3
    <3>6. QED
      BY <1>4, <1>a, <2>0, <3>4, <3>5 DEF ControllerJoin, Idle, registryVars, S
  <2>3. QED
    BY <1>4, <2>1, <2>2 DEF ControllerJoin
<1>5. ASSUME p \in Phones, NEW h \in Screens, ControllerInput(p, h)
      PROVE  Bindings'
  <2>0. p \notin Screens /\ p \in Browsers
    BY <1>5, RolesAssumption DEF Browsers
  <2>1. C!WorkerForInput(p, h) \in Workers
    BY <1>0, <1>5 DEF ControllerInput, C!WorkerForInput, C!TypeOK, C!ControllerRoute
  <2> DEFINE S == OthersStep
             z == ToWorker(C!WorkerForInput(p, h), p, "input")
  <2>2. z \in Step
    BY <2>0, <2>1, StepsBuilt DEF StepOf, WorkerEvents
  <2>3. z \in S /\ Schedule(p, <<z>>)
    BY <1>5, <2>2 DEF OthersStep, ToWorker, ControllerInput
  <2> HIDE DEF S, z
  <2>4. <<z>> \in Seq(S)
    BY <2>3
  <2>5. QED
    BY <1>5, <1>a, <2>0, <2>3, <2>4 DEF ControllerInput, Idle, registryVars, S
<1>6. CASE p \in Workers /\ \E g \in GameNames : GameInfo(p, g)
  <2>1. Do("readGames") \in HarmlessStep
    BY StepsBuilt DEF StepOf, HarmlessStep, Do
  <2>2. p \notin Screens
    BY <1>6, RolesAssumption DEF Browsers
  <2>3. QED
    BY <1>6, <1>b, <2>1, <2>2 DEF GameInfo, Idle, R!SetWorkerGame
<1>7. ASSUME p \in Workers, NEW n \in Counts, UpdatePlayerCount(p, n)
      PROVE  Bindings'
  <2>1. BroadcastCount(p, n) \in HarmlessStep
    BY <1>7, StepsBuilt DEF StepOf, HarmlessStep, BroadcastCount
  <2>2. p \notin Screens
    BY <1>7, RolesAssumption DEF Browsers
  <2>3. QED
    BY <1>7, <1>b, <2>1, <2>2 DEF UpdatePlayerCount, Idle, R!SetWorkerPlayerCount
<1>8. QED
  BY <1>1, <1>2, <1>3, <1>4, <1>5, <1>6, <1>7

-----------------------------------------------------------------------------
LEMMA BInvStep ==
    ASSUME BInv, [Next]_vars
    PROVE  BInv'
<1>1. IInv'
  BY IInvStep DEF BInv
<1>2. Bindings'
  <2>1. ASSUME NEW p \in Peers, Proceed(p)
        PROVE  Bindings'
    BY <2>1, ProceedKeepsBindings
  <2>2. ASSUME NEW b \in Browsers, ConnectBrowser(b) \/ Leave(b) \/ RequestGames(b)
        PROVE  Bindings'
    BY <2>2, LeaveKeepsBindings, OtherHandlersKeepBindings DEF Peers
  <2>3. ASSUME NEW s \in Screens,
               \/ \E ev \in BindingEvents : OpenRoom(s, ev)
               \/ \E ev \in WorkerEvents : Relay(s, ev)
               \/ \E target \in Workers \cup {None} : Terminate(s, target)
               \/ ControllerHost(s)
        PROVE  Bindings'
    BY <2>3, ScreenHandlersKeepBindings, OtherHandlersKeepBindings DEF Peers, Browsers
  <2>4. ASSUME NEW p \in Phones,
               \/ \E c \in Codes : ControllerJoin(p, c)
               \/ \E h \in Screens : ControllerInput(p, h)
        PROVE  Bindings'
    BY <2>4, OtherHandlersKeepBindings DEF Peers, Browsers
  <2>5. ASSUME NEW w \in Workers,
               \/ ConnectWorker(w) \/ WorkerLeaves(w)
               \/ \E g \in GameNames : GameInfo(w, g)
               \/ \E n \in Counts : UpdatePlayerCount(w, n)
        PROVE  Bindings'
    BY <2>5, WorkersKeepBindings, OtherHandlersKeepBindings DEF Peers
  <2>6. CASE CodesAge \/ UNCHANGED vars
    <3>1. UNCHANGED <<registryVars, link, todo, closing, plays, view, room>>
      BY <2>6 DEF CodesAge, vars
    <3>2. \A s \in Screens : ScreenTaskFits(s)'
      BY <3>1, Undisturbed DEF BInv, Bindings, registryVars
    <3>3. WorkersOpen' /\ ScreensAtHome' /\ OthersSeatPhones'
      BY <3>1 DEF BInv, Bindings, registryVars, WorkersOpen, ScreensAtHome,
         OthersSeatPhones, OthersStep, Step, Payloads, CountMaps
    <3>4. QED
      BY <3>2, <3>3 DEF Bindings
  <2>7. QED
    BY <2>1, <2>2, <2>3, <2>4, <2>5, <2>6 DEF Next
<1>3. QED
  BY <1>1, <1>2 DEF BInv

LEMMA BInvInit == Init => BInv
<1> SUFFICES ASSUME Init PROVE BInv
  OBVIOUS
<1>1. IInv
  BY IInvInit
<1>2. WorkersOpen /\ ScreensAtHome
  BY RolesAssumption DEF Init, R!Init, WorkersOpen, ScreensAtHome, Peers, Browsers
<1>3. OthersSeatPhones
  BY DEF Init, OthersSeatPhones
<1>4. ASSUME NEW s \in Screens
      PROVE  ScreenTaskFits(s)
  <2>1. todo[s] = <<>> /\ s \notin room[plays[s]]
    BY DEF Init, Peers, Browsers
  <2>2. QED
    BY <2>1 DEF ScreenTaskFits, Unconcerned, Held
<1>5. QED
  BY <1>1, <1>2, <1>3, <1>4 DEF BInv, Bindings

LEMMA BInvHolds == Spec => []BInv
<1>1. BInv /\ [Next]_vars => BInv'
  BY BInvStep
<1>2. QED
  BY BInvInit, <1>1, PTL DEF Spec

(* What a screen sends to a live worker reaches it only while the screen   *)
(* is bound to it, though binding, check and send are three critical       *)
(* sections and a worker's cleanup may come between any two (ws.rs:158-175, *)
(* 486-495).                                                               *)
THEOREM RelaysAreBound == Spec => []RelaysStayBound
<1>1. BInv => RelaysStayBound
  BY FormsSuffice
<1>2. QED
  BY <1>1, BInvHolds, PTL

(* A worker holds a session for a screen only while the screen is bound to *)
(* it, or the message that ends the session is next in the screen's task:  *)
(* a screen that has left holds nothing once its cleanup is over           *)
(* (ws.rs:159-175, 199-203, 457-463).                                      *)
THEOREM SessionsAreBound == Spec => []RoomsHoldBoundScreens
<1>1. BInv => RoomsHoldBoundScreens
  BY FormsSuffice
<1>2. QED
  BY <1>1, BInvHolds, PTL

-----------------------------------------------------------------------------
(* The server keeps to the registry's specification. The rank a worker     *)
(* gets is the number of those that connected before it.                   *)
Known == {w \in Workers : link[w] # "new"}

Ranked == nextWorkerOrder = Cardinality(Known)

(* The workers that have connected can be counted.                         *)
LEMMA KnownIsFinite == IsFiniteSet(Known) /\ Cardinality(Known) \in Nat
<1>1. IsFiniteSet(Known)
  BY RolesAssumption, FS_Subset DEF Known
<1>2. QED
  BY <1>1, FS_CardinalityType

(* A worker that is not known yet leaves room for its rank.                *)
LEMMA RanksSuffice ==
    ASSUME Ranked, NEW w \in Workers, link[w] = "new"
    PROVE  nextWorkerOrder < Cardinality(Workers)
<1>1. Known \in SUBSET Workers /\ Known # Workers
  BY DEF Known
<1>2. Cardinality(Known) <= Cardinality(Workers) /\ Cardinality(Known) # Cardinality(Workers)
  BY <1>1, RolesAssumption, FS_Subset
<1>3. Cardinality(Workers) \in Nat
  BY RolesAssumption, FS_CardinalityType
<1>4. QED
  BY <1>2, <1>3, KnownIsFinite DEF Ranked

(* Every step of the server is one of the registry or leaves it alone.     *)
LEMMA RegistryRefined ==
    ASSUME BInv, Ranked, [Next]_vars
    PROVE  [R!Next]_(R!vars)
<1> USE DEF BInv, IInv
<1>a. ASSUME UNCHANGED registryVars
      PROVE  [R!Next]_(R!vars)
  BY <1>a DEF registryVars, R!vars
<1>b. \A w \in Workers : link[w] = "open" <=> w \in workers
  BY DEF Bindings, WorkersOpen
<1>1. ASSUME NEW p \in Peers, Proceed(p)
      PROVE  [R!Next]_(R!vars)
  <2>1. CASE SendToWorker(p) \/ SendToClient(p) \/ DoHost(p) \/ DoReadGames(p)
             \/ DoBroadcast(p) \/ DoGreet(p)
    <3>1. UNCHANGED registryVars
      BY <2>1 DEF SendToWorker, SendToClient, DoHost, DoReadGames, DoBroadcast, DoGreet
    <3>2. QED
      BY <3>1, <1>a
  <2>0. todo[p] # <<>> => Head(todo[p]) \in StepOf(p)
    BY TodoSteps DEF TypeOK
  <2>2. CASE DoBind(p)
    <3>1. Head(todo[p]).worker \in Workers
      BY <2>0, <2>2, StepFields DEF DoBind, NextIs
    <3>2. CASE p \in Browsers
      BY <2>2, <3>1, <3>2 DEF DoBind, R!Next
    <3>3. CASE p \notin Browsers
      <4>1. UNCHANGED registryVars
        BY <2>2, <3>3 DEF DoBind, R!BindClient, registryVars, TypeOK, R!TypeOK
      <4>2. QED
        BY <4>1, <1>a
    <3>4. QED
      BY <3>2, <3>3
  <2>3. CASE DoUnbind(p)
    <3>1. CASE p \in Browsers
      BY <2>3, <3>1 DEF DoUnbind, R!Next
    <3>2. CASE p \notin Browsers
      <4>1. UNCHANGED registryVars
        BY <2>3, <3>2 DEF DoUnbind, R!UnbindClient, registryVars, TypeOK, R!TypeOK
      <4>2. QED
        BY <4>1, <1>a
    <3>3. QED
      BY <3>1, <3>2
  <2>4. CASE DoUnregister(p)
    <3>1. p \in Browsers
      BY <2>0, <2>4, StepFields DEF DoUnregister, NextIs
    <3>2. QED
      BY <2>4, <3>1 DEF DoUnregister, R!Next
  <2>5. QED
    BY <1>1, <2>1, <2>2, <2>3, <2>4 DEF Proceed
<1>2. ASSUME NEW b \in Browsers, ConnectBrowser(b) \/ Leave(b) \/ RequestGames(b)
      PROVE  [R!Next]_(R!vars)
  BY <1>2, <1>a DEF ConnectBrowser, Leave, RequestGames, R!Next
<1>3. ASSUME NEW s \in Screens,
             \/ \E ev \in BindingEvents : OpenRoom(s, ev)
             \/ \E ev \in WorkerEvents : Relay(s, ev)
             \/ \E target \in Workers \cup {None} : Terminate(s, target)
             \/ ControllerHost(s)
      PROVE  [R!Next]_(R!vars)
  BY <1>3, <1>a DEF OpenRoom, Relay, Terminate, ControllerHost
<1>4. ASSUME NEW p \in Phones,
             \/ \E c \in Codes : ControllerJoin(p, c)
             \/ \E h \in Screens : ControllerInput(p, h)
      PROVE  [R!Next]_(R!vars)
  BY <1>4, <1>a DEF ControllerJoin, ControllerInput
<1>5. ASSUME NEW w \in Workers, ConnectWorker(w)
      PROVE  [R!Next]_(R!vars)
  <2>1. w \notin workers /\ nextWorkerOrder < Cardinality(Workers)
    BY <1>5, <1>b, RanksSuffice DEF ConnectWorker
  <2>2. QED
    BY <1>5, <2>1 DEF ConnectWorker, R!Next
<1>6. ASSUME NEW w \in Workers, WorkerLeaves(w)
      PROVE  [R!Next]_(R!vars)
  BY <1>6, <1>b DEF WorkerLeaves, Idle, R!Next
<1>7. ASSUME NEW w \in Workers, NEW g \in GameNames, GameInfo(w, g)
      PROVE  [R!Next]_(R!vars)
  BY <1>7, <1>b DEF GameInfo, Idle, R!Next
<1>8. ASSUME NEW w \in Workers, NEW n \in Counts, UpdatePlayerCount(w, n)
      PROVE  [R!Next]_(R!vars)
  BY <1>8, <1>b DEF UpdatePlayerCount, Idle, R!Next
<1>9. CASE CodesAge \/ UNCHANGED vars
  BY <1>9, <1>a DEF CodesAge, vars
<1>10. QED
  BY <1>1, <1>2, <1>3, <1>4, <1>5, <1>6, <1>7, <1>8, <1>9 DEF Next

(* The next rank grows by one with every worker that connects.             *)
LEMMA RankedStep ==
    ASSUME BInv, Ranked, [Next]_vars
    PROVE  Ranked'
<1> USE DEF BInv, IInv
<1>0. link \in [Peers -> {"new", "open", "gone"}] /\ Workers \subseteq Peers /\ Browsers \subseteq Peers
      /\ Browsers \cap Workers = {}
  BY RolesAssumption DEF TypeOK, Peers
<1>a. ASSUME nextWorkerOrder' = nextWorkerOrder, Known' = Known
      PROVE  Ranked'
  BY <1>a DEF Ranked
<1>b. ASSUME NEW p \in Peers, NEW l \in {"open", "gone"}, link' = [link EXCEPT ![p] = l],
             p \in Workers => link[p] # "new"
      PROVE  Known' = Known
  BY <1>0, <1>b DEF Known
<1>1. ASSUME NEW p \in Peers, Proceed(p)
      PROVE  Ranked'
  <2>1. UNCHANGED link
    BY <1>1 DEF Proceed, SendToWorker, SendToClient, DoHost, DoReadGames,
       DoBroadcast, DoGreet, DoBind, DoUnbind, DoUnregister
  <2>2. UNCHANGED nextWorkerOrder
    BY <1>1 DEF Proceed, SendToWorker, SendToClient, DoHost, DoReadGames,
       DoBroadcast, DoGreet, DoBind, DoUnbind, DoUnregister, registryVars,
       R!BindClient, R!UnbindClient, R!UnregisterClient
  <2>3. QED
    BY <1>a, <2>1, <2>2 DEF Known
<1>2. ASSUME NEW b \in Browsers, ConnectBrowser(b) \/ Leave(b) \/ RequestGames(b)
      PROVE  Ranked'
  <2>1. nextWorkerOrder' = nextWorkerOrder
    BY <1>2 DEF ConnectBrowser, Leave, RequestGames, registryVars, R!RegisterClient
  <2>2. \/ UNCHANGED link
        \/ \E l \in {"open", "gone"} : link' = [link EXCEPT ![b] = l]
    BY <1>2 DEF ConnectBrowser, Leave, RequestGames
  <2>3. Known' = Known
    BY <1>0, <1>b, <2>2 DEF Known
  <2>4. QED
    BY <1>a, <2>1, <2>3
<1>3. ASSUME UNCHANGED <<link, nextWorkerOrder>>
      PROVE  Ranked'
  BY <1>a, <1>3 DEF Known
<1>4. ASSUME NEW s \in Screens,
             \/ \E ev \in BindingEvents : OpenRoom(s, ev)
             \/ \E ev \in WorkerEvents : Relay(s, ev)
             \/ \E target \in Workers \cup {None} : Terminate(s, target)
             \/ ControllerHost(s)
      PROVE  Ranked'
  BY <1>3, <1>4 DEF OpenRoom, Relay, Terminate, ControllerHost, registryVars
<1>5. ASSUME NEW p \in Phones,
             \/ \E c \in Codes : ControllerJoin(p, c)
             \/ \E h \in Screens : ControllerInput(p, h)
      PROVE  Ranked'
  BY <1>3, <1>5 DEF ControllerJoin, ControllerInput, registryVars
<1>6. ASSUME NEW w \in Workers, ConnectWorker(w)
      PROVE  Ranked'
  <2>1. Known' = Known \cup {w} /\ w \notin Known
    BY <1>0, <1>6 DEF ConnectWorker, Known
  <2>2. Cardinality(Known \cup {w}) = Cardinality(Known) + 1
    BY <2>1, KnownIsFinite, FS_AddElement
  <2>3. nextWorkerOrder' = nextWorkerOrder + 1
    BY <1>6 DEF ConnectWorker, R!RegisterWorker
  <2>4. QED
    BY <2>1, <2>2, <2>3 DEF Ranked
<1>7. ASSUME NEW w \in Workers, WorkerLeaves(w)
      PROVE  Ranked'
  <2>1. nextWorkerOrder' = nextWorkerOrder
    BY <1>7 DEF WorkerLeaves, R!UnregisterWorker
  <2>2. Known' = Known
    BY <1>0, <1>7, <1>b DEF WorkerLeaves, Idle
  <2>3. QED
    BY <1>a, <2>1, <2>2
<1>8. ASSUME NEW w \in Workers,
             \/ \E g \in GameNames : GameInfo(w, g)
             \/ \E n \in Counts : UpdatePlayerCount(w, n)
      PROVE  Ranked'
  BY <1>3, <1>8 DEF GameInfo, UpdatePlayerCount, R!SetWorkerGame, R!SetWorkerPlayerCount
<1>9. CASE CodesAge \/ UNCHANGED vars
  BY <1>3, <1>9 DEF CodesAge, vars, registryVars
<1>10. QED
  BY <1>1, <1>2, <1>4, <1>5, <1>6, <1>7, <1>8, <1>9 DEF Next

LEMMA RankedHolds == Spec => []Ranked
<1>1. Init => Ranked
  <2>1. ASSUME Init PROVE Known = {} /\ nextWorkerOrder = 0
    BY <2>1 DEF Init, R!Init, Known, Peers
  <2>2. QED
    BY <2>1, FS_EmptySet DEF Ranked
<1>2. BInv /\ Ranked /\ [Next]_vars => Ranked'
  BY RankedStep
<1>3. QED
  BY <1>1, <1>2, BInvHolds, PTL DEF Spec

(* The server records a worker's rank, game and player count only between  *)
(* its registration and its cleanup, whatever its other tasks do meanwhile *)
(* (ws.rs:276-301, 416-422, 458, 488).                                     *)
THEOREM ServerRefinesRegistry == Spec => RegistrySpec
<1>1. Init => R!Init
  BY DEF Init
<1>2. BInv /\ Ranked /\ [Next]_vars => [R!Next]_(R!vars)
  BY RegistryRefined
<1>3. QED
  BY <1>1, <1>2, BInvHolds, RankedHolds, PTL DEF Spec, RegistrySpec, R!Spec

(* The registry of the server and the one the proofs of Registry are about *)
(* are the same.                                                           *)
LEMMA SameRegistry ==
    /\ RP!Init <=> R!Init
    /\ [RP!Next]_(RP!vars) <=> [R!Next]_(R!vars)
<1> USE DEF R!Init, RP!Init, R!Next, RP!Next, R!vars, RP!vars, 
            R!RegisterClient, RP!RegisterClient, R!UnregisterClient, RP!UnregisterClient,
            R!UnbindClient, RP!UnbindClient, R!BindClient, RP!BindClient,
            R!RegisterWorker, RP!RegisterWorker, R!UnregisterWorker, RP!UnregisterWorker,
            R!BoundTo, RP!BoundTo, R!SetWorkerGame, RP!SetWorkerGame,
            R!SetWorkerPlayerCount, RP!SetWorkerPlayerCount
<1>1. RP!Init <=> R!Init
  OBVIOUS
<1>2. RP!Next <=> R!Next
  OBVIOUS
<1>3. UNCHANGED RP!vars <=> UNCHANGED R!vars
  OBVIOUS
<1>4. QED
  BY <1>1, <1>2, <1>3

(* What Registry assumes of its constants is so in the server.             *)
LEMMA RegistryAssumptions ==
    /\ RP!BlankAssumption /\ RP!SameGameAssumption
    /\ RP!BoundsAssumption /\ RP!WorkersAssumption
<1>1. Cardinality(Workers) \in Nat
  BY RolesAssumption, FS_CardinalityType
<1>2. RP!WorkersAssumption
  <2>1. RP!IsFiniteSet(Workers)
    BY RolesAssumption DEF RP!IsFiniteSet, IsFiniteSet
  <2>2. None \notin Workers
    BY NoneAssumption
  <2>3. QED
    BY <2>1, <2>2 DEF RP!WorkersAssumption
<1>3. QED
  BY <1>1, <1>2, NamesAssumption
     DEF RP!BlankAssumption, RP!SameGameAssumption, RP!BoundsAssumption

(* The server does with the registry only what Registry lets it.           *)
LEMMA ServerIsRegistry == Spec => RP!Spec
<1>1. R!Init => RP!Init
  BY SameRegistry
<1>2. [R!Next]_(R!vars) => [RP!Next]_(RP!vars)
  BY SameRegistry
<1>3. RegistrySpec => RP!Spec
  BY <1>1, <1>2, PTL DEF RegistrySpec, R!Spec, RP!Spec
<1>4. QED
  BY <1>3, ServerRefinesRegistry, PTL

(* Hence the list of games without duplicates that the server sends offers *)
(* every game exactly once (registry.rs:147-183, ws.rs:105-127).           *)
THEOREM ServerListsGamesOnce == Spec => []RP!EveryGameListedOnce
<1>1. RP!Spec => []RP!EveryGameListedOnce
  BY RP!GamesListedOnce, RegistryAssumptions
<1>2. QED
  BY <1>1, ServerIsRegistry, PTL

(* And that list is the same in whatever order the hash map of rooms is    *)
(* visited, so that two browsers are not sent different rooms of one game  *)
(* (registry.rs:153-180, ws.rs:105-127).                                   *)
THEOREM ServerListHasOneOrder == Spec => []RP!DedupeIgnoresMapOrder
<1>1. RP!Spec => []RP!DedupeIgnoresMapOrder
  BY RP!DedupeHasOneResult, RegistryAssumptions
<1>2. QED
  BY <1>1, ServerIsRegistry, PTL
-----------------------------------------------------------------------------
(* Phones, and the slots they hold at workers. A phone is routed in one    *)
(* critical section and seated, or sent away, by messages of its own task  *)
(* and of its host's that go out later, so that a route and a slot may     *)
(* differ at any time. SeatsFit states how far: a route lacks its slot     *)
(* only while the join is on its way or another screen of the room has     *)
(* left; a slot, or a message that would give one, lacks its route only    *)
(* while the end of it is on its way, or after a screen of the room left   *)
(* or one offered another room. It rests on what tasks may still have to   *)
(* do (WorkFits), and on every route leading to the room of its host's     *)
(* page (HostsAtHome).                                                     *)

(* What is proved of the pairing table, in the server.                     *)
TableInv == CP!CodesMatchHosts /\ CP!InputsFollowHost /\ CP!GoneLeavesNothing

(* What tasks may still do to phones and hosts: a screen ends sessions of  *)
(* phones only in its cleanup, at the room of its page; a phone sends only *)
(* for itself, and ends its session only in its cleanup.                   *)
ScreenWork(s) ==
    {x \in Step : /\ x.op = "toWorker" /\ x.peer \in Phones =>
                        link[s] = "gone" /\ x.worker = plays[s] /\ x.ev = "terminateSession"
                  /\ x.op = "host" => x.worker = plays[s]
                  /\ x.op \in {"bind", "host"} => link[plays[s]] # "new"}

PhoneWork(p) ==
    {x \in Step : /\ x.op \notin {"bind", "host"}
                  /\ x.op = "toWorker" =>
                        /\ x.peer = p
                        /\ x.ev \in {"joinRoom", "input", "terminateSession"}
                        /\ x.ev = "terminateSession" => link[p] = "gone"}

WorkerWork == {x \in Step : x.op \notin {"bind", "host", "toWorker"}}

Work(q) == IF q \in Screens THEN ScreenWork(q)
           ELSE IF q \in Phones THEN PhoneWork(q) ELSE WorkerWork

WorkFits ==
    /\ \A q \in Peers : todo[q] \in Seq(Work(q))
    /\ \A b \in Browsers : link[b] = "new" => todo[b] = <<>>

(* A screen offers only the room of its page, after that was there.        *)
HostsAtHome ==
    /\ \A s \in Screens : lastWorker[s] \in {None, plays[s]}
    /\ \A s \in Screens :
            lastWorker[s] # None \/ clientToWorker[s] # None => link[plays[s]] # "new"
    /\ \A p \in Phones : clientToWorker[p] = None

(* Why a phone that is not routed to w may yet hold a slot there.          *)
Excused(w) ==
    \E s \in Screens :
        \/ plays[s] = w /\ link[s] = "gone"
        \/ lastWorker[s] \notin {w, None}

Routed(p, w) == controllerToHost[p] # None /\ controllerToHost[p].worker = w

Sends(p, w, ev) == Pending(p, ToWorker(w, p, ev))

RouteSeated(p) ==
    controllerToHost[p] # None =>
        \/ controllerToHost[p].worker \notin workers
        \/ p \in room[controllerToHost[p].worker]
        \/ Sends(p, controllerToHost[p].worker, "joinRoom")
        \/ p \in overtaken

SeatOwed(p, w) ==
    /\ \A ev \in {"joinRoom", "input"} : Sends(p, w, ev) => Excused(w) \/ Routed(p, w)
    /\ p \in room[w] => Excused(w) \/ Routed(p, w) \/ Sends(p, w, "terminateSession")

(* A phone that is routed to w has nothing to send elsewhere; it has been  *)
(* overtaken if its end is due at w, and is seated there only if it has    *)
(* not been overtaken or its end is still due.                             *)
Overtaking(p, w) ==
    /\ \A ev \in {"joinRoom", "input"} :
            Sends(p, w, ev) /\ controllerToHost[p] # None => Routed(p, w)
    /\ Routed(p, w) /\ EndIsDue(p, w) => p \in overtaken
    /\ Routed(p, w) /\ p \in overtaken /\ ~EndIsDue(p, w) =>
            w \notin workers \/ p \notin room[w]

SeatsFit ==
    \A p \in Phones :
        RouteSeated(p) /\ \A w \in Workers : SeatOwed(p, w) /\ Overtaking(p, w)

PInv == WorkFits /\ HostsAtHome /\ SeatsFit

-----------------------------------------------------------------------------
(* Every route and every live code leads to the room of its host's page.   *)
LEMMA RoutesLeadHome ==
    ASSUME IInv, TableInv, HostsAtHome
    PROVE  /\ \A p \in Phones : controllerToHost[p] # None =>
                /\ controllerToHost[p].host \in Screens
                /\ controllerToHost[p].worker \in Workers
                /\ controllerToHost[p].worker = plays[controllerToHost[p].host]
                /\ controllerToHost[p].worker = lastWorker[controllerToHost[p].host]
                /\ link[controllerToHost[p].host] # "gone"
                /\ link[p] # "gone"
                /\ link[controllerToHost[p].worker] # "new"
           /\ \A c \in Codes : C!Live(c) =>
                /\ codeToHost[c].host \in Screens
                /\ codeToHost[c].worker \in Workers
                /\ codeToHost[c].worker = plays[codeToHost[c].host]
                /\ codeToHost[c].worker = lastWorker[codeToHost[c].host]
<1>0. C!TypeOK
  BY DEF IInv, TypeOK
<1>1. ASSUME NEW p \in Phones, controllerToHost[p] # None
      PROVE  /\ controllerToHost[p].host \in Screens
             /\ controllerToHost[p].worker \in Workers
             /\ controllerToHost[p].worker = plays[controllerToHost[p].host]
             /\ controllerToHost[p].worker = lastWorker[controllerToHost[p].host]
             /\ link[controllerToHost[p].host] # "gone"
             /\ link[p] # "gone"
             /\ link[controllerToHost[p].worker] # "new"
  <2>1. controllerToHost[p].host \in Screens /\ controllerToHost[p].worker \in Workers
    BY <1>0, <1>1 DEF C!TypeOK, C!ControllerRoute
  <2>2. controllerToHost[p].worker = lastWorker[controllerToHost[p].host]
    BY <1>1 DEF TableInv, CP!InputsFollowHost
  <2>3. controllerToHost[p].worker = plays[controllerToHost[p].host]
    BY <2>1, <2>2, NoneAssumption DEF HostsAtHome
  <2>4. link[controllerToHost[p].worker] # "new"
    BY <2>1, <2>2, <2>3, NoneAssumption DEF HostsAtHome
  <2>5. link[controllerToHost[p].host] # "gone" /\ link[p] # "gone"
    BY <1>1, <2>1, RolesAssumption
       DEF TableInv, CP!GoneLeavesNothing, CP!RoutedTo, CP!IsRouted, Browsers
  <2>6. QED
    BY <2>1, <2>2, <2>3, <2>4, <2>5
<1>2. ASSUME NEW c \in Codes, C!Live(c)
      PROVE  /\ codeToHost[c].host \in Screens
             /\ codeToHost[c].worker \in Workers
             /\ codeToHost[c].worker = plays[codeToHost[c].host]
             /\ codeToHost[c].worker = lastWorker[codeToHost[c].host]
  <2>1. codeToHost[c].host \in Screens /\ codeToHost[c].worker \in Workers
    BY <1>0, <1>2 DEF C!TypeOK, C!HostRegistration, C!Live, C!Registered
  <2>2. codeToHost[c].worker = lastWorker[codeToHost[c].host]
    BY <1>2 DEF TableInv, CP!InputsFollowHost, CP!Registered, C!Live, C!Registered
  <2>3. QED
    BY <2>1, <2>2, NoneAssumption DEF HostsAtHome
<1>3. QED
  BY <1>1, <1>2

(* Sockets open and close once (ws.rs:309-347, 456-495).                   *)
LEMMA LinksAdvance ==
    ASSUME IInv, [Next]_vars
    PROVE  /\ plays' = plays
           /\ \A q \in Peers : /\ link[q] = "gone" => link'[q] = "gone"
                               /\ link[q] # "new" => link'[q] # "new"
<1>0. link \in [Peers -> {"new", "open", "gone"}] /\ Browsers \subseteq Peers /\ Workers \subseteq Peers
  BY DEF IInv, TypeOK, Peers
<1>1. ASSUME UNCHANGED <<plays, link>>
      PROVE  /\ plays' = plays
             /\ \A q \in Peers : /\ link[q] = "gone" => link'[q] = "gone"
                                 /\ link[q] # "new" => link'[q] # "new"
  BY <1>1
<1>2. ASSUME NEW p \in Peers, Proceed(p)
      PROVE  UNCHANGED <<plays, link>>
  BY <1>2 DEF Proceed, SendToWorker, SendToClient, DoBind, DoUnbind, DoHost,
     DoUnregister, DoReadGames, DoBroadcast, DoGreet
<1>3. ASSUME NEW b \in Browsers, ConnectBrowser(b) \/ Leave(b) \/ RequestGames(b)
      PROVE  /\ plays' = plays
             /\ \A q \in Peers : /\ link[q] = "gone" => link'[q] = "gone"
                                 /\ link[q] # "new" => link'[q] # "new"
  BY <1>0, <1>3 DEF ConnectBrowser, Leave, RequestGames, Idle
<1>4. ASSUME NEW w \in Workers, ConnectWorker(w) \/ WorkerLeaves(w)
      PROVE  /\ plays' = plays
             /\ \A q \in Peers : /\ link[q] = "gone" => link'[q] = "gone"
                                 /\ link[q] # "new" => link'[q] # "new"
  BY <1>0, <1>4 DEF ConnectWorker, WorkerLeaves, Idle
<1>5. ASSUME NEW s \in Screens,
             \/ \E ev \in BindingEvents : OpenRoom(s, ev)
             \/ \E ev \in WorkerEvents : Relay(s, ev)
             \/ \E target \in Workers \cup {None} : Terminate(s, target)
             \/ ControllerHost(s)
      PROVE  UNCHANGED <<plays, link>>
  BY <1>5 DEF OpenRoom, Relay, Terminate, ControllerHost
<1>6. ASSUME NEW p \in Phones,
             \/ \E c \in Codes : ControllerJoin(p, c)
             \/ \E h \in Screens : ControllerInput(p, h)
      PROVE  UNCHANGED <<plays, link>>
  BY <1>6 DEF ControllerJoin, ControllerInput
<1>7. ASSUME NEW w \in Workers,
             \/ \E g \in GameNames : GameInfo(w, g)
             \/ \E n \in Counts : UpdatePlayerCount(w, n)
      PROVE  UNCHANGED <<plays, link>>
  BY <1>7 DEF GameInfo, UpdatePlayerCount
<1>8. CASE CodesAge \/ UNCHANGED vars
  BY <1>1, <1>8 DEF CodesAge, vars
<1>9. QED
  BY <1>1, <1>2, <1>3, <1>4, <1>5, <1>6, <1>7, <1>8 DEF Next
-----------------------------------------------------------------------------
(* The steps a task may have left stay allowed to it.                      *)
LEMMA WorkGrows ==
    ASSUME IInv, [Next]_vars, NEW q \in Peers
    PROVE  Seq(Work(q)) \subseteq Seq(Work(q)')
<1>1. /\ \A r \in Peers : /\ link[r] = "gone" => link'[r] = "gone"
                          /\ link[r] # "new" => link'[r] # "new"
      /\ plays' = plays
      /\ \A s \in Screens : plays[s] \in Peers
      /\ Screens \subseteq Peers /\ Phones \subseteq Peers
  BY LinksAdvance DEF IInv, TypeOK, Peers, Browsers
<1>2. Step' = Step
  BY DEF Step, Payloads, CountMaps
<1>3. Work(q) \subseteq Work(q)'
  <2>1. q \in Screens => ScreenWork(q) \subseteq ScreenWork(q)'
    BY <1>1, <1>2 DEF ScreenWork
  <2>2. q \in Phones => PhoneWork(q) \subseteq PhoneWork(q)'
    BY <1>1, <1>2 DEF PhoneWork
  <2>3. WorkerWork' = WorkerWork
    BY <1>2 DEF WorkerWork
  <2>4. QED
    BY <2>1, <2>2, <2>3 DEF Work
<1> DEFINE A == Work(q)
           B == Work(q)'
<1>4. A \subseteq B
  BY <1>3
<1> HIDE DEF A, B
<1>5. Seq(A) \subseteq Seq(B)
  BY <1>4
<1>6. QED
  BY <1>5 DEF A, B

(* A step that changes what one task has left keeps the tasks in form, if  *)
(* what it leaves is in form.                                              *)
LEMMA OneTaskMoves ==
    ASSUME IInv, WorkFits, [Next]_vars, NEW q \in Peers,
           \A r \in Peers \ {q} : todo'[r] = todo[r] /\ link'[r] = link[r],
           todo'[q] \in Seq(Work(q)'),
           q \in Browsers /\ link'[q] = "new" => todo'[q] = <<>>
    PROVE  WorkFits'
<1>1. ASSUME NEW r \in Peers PROVE todo'[r] \in Seq(Work(r)')
  <2>1. todo[r] \in Seq(Work(r)')
    BY WorkGrows DEF WorkFits
  <2>2. QED
    BY <2>1
<1>2. ASSUME NEW b \in Browsers, link'[b] = "new" PROVE todo'[b] = <<>>
  BY <1>2 DEF WorkFits, Peers
<1>3. QED
  BY <1>1, <1>2 DEF WorkFits

(* A task that executes a step goes on with the rest; it may put a message *)
(* to a client or the next part of a broadcast before it, or the end of    *)
(* the session of the client that it unregisters.                          *)
LEMMA TaskGoesOn ==
    ASSUME IInv, NEW p \in Peers, Proceed(p)
    PROVE  /\ todo[p] # <<>> /\ todo[p] \in Seq(Step)
           /\ \A q \in Peers \ {p} : todo'[q] = todo[q]
           /\ link' = link
           /\ \/ todo'[p] = Tail(todo[p])
              \/ \E x \in Step :
                    /\ todo'[p] = <<x>> \o Tail(todo[p])
                    /\ x.op \notin {"bind", "host"}
                    /\ x.op = "toWorker" =>
                        /\ p \in Browsers /\ clientToWorker[p] # None
                        /\ x = ToWorker(clientToWorker[p], p, "terminateSession")
<1>0. /\ TypeOK /\ TasksFit /\ R!TypeOK
      /\ todo \in [Peers -> Seq(Step)]
  BY DEF IInv, TypeOK
<1>1. todo[p] # <<>> /\ link' = link
  BY DEF Proceed, SendToWorker, SendToClient, DoBind, DoUnbind, DoHost,
     DoUnregister, DoReadGames, DoBroadcast, DoGreet, NextIs
<1>2. \A q \in Peers \ {p} : todo'[q] = todo[q]
  BY <1>0 DEF Proceed, SendToWorker, SendToClient, DoBind, DoUnbind, DoHost,
     DoUnregister, DoReadGames, DoBroadcast, DoGreet, Finish, Continue
<1>3. Tail(todo[p]) \in Seq(Step)
  BY <1>0, <1>1
<1>4. ASSUME Finish(p) PROVE todo'[p] = Tail(todo[p])
  BY <1>0, <1>4 DEF Finish, Rest
<1>5. ASSUME NEW x, Continue(p, <<x>>) PROVE todo'[p] = <<x>> \o Tail(todo[p])
  BY <1>0, <1>5 DEF Continue, Rest
<1>6. CASE DoUnregister(p)
  <2>1. p \in Browsers
    BY <1>0, <1>1, <1>6, TodoSteps, StepFields DEF DoUnregister, NextIs
  <2>2. CASE clientToWorker[p] = None
    <3>1. todo'[p] = <<>> \o Tail(todo[p])
      BY <1>0, <1>6, <2>2 DEF DoUnregister, Continue, Rest
    <3>2. QED
      BY <1>0, <1>1, <1>2, <1>3, <3>1
  <2>3. CASE clientToWorker[p] # None
    <3>1. ToWorker(clientToWorker[p], p, "terminateSession") \in Step
      BY <1>0, <2>1, <2>3, StepsBuilt DEF R!TypeOK, StepOf, WorkerEvents
    <3>2. Continue(p, <<ToWorker(clientToWorker[p], p, "terminateSession")>>)
      BY <1>6, <2>3 DEF DoUnregister
    <3>3. ToWorker(clientToWorker[p], p, "terminateSession").op = "toWorker"
      BY DEF ToWorker
    <3>4. QED
      BY <1>0, <1>1, <1>2, <1>5, <2>1, <2>3, <3>1, <3>2, <3>3
  <2>4. QED
    BY <2>2, <2>3
<1>7. CASE ~DoUnregister(p)
  <2>1. \/ Finish(p)
        \/ Continue(p, <<BroadcastGames(R!GamesPayload(Dedupe))>>)
        \/ Continue(p, <<GreetGames(R!GamesPayload(Dedupe))>>)
        \/ Continue(p, <<GreetCounts(playerCounts)>>)
        \/ p \in Screens /\ \E c \in Codes : Continue(p, <<ToClient(p, "ready", c)>>)
    BY <1>0, <1>1, <1>7, TodoSteps, StepFields DEF Proceed, SendToWorker, SendToClient, DoBind,
       DoUnbind, DoHost, DoReadGames, DoBroadcast, DoGreet, NextIs
  <2>2. /\ BroadcastGames(R!GamesPayload(Dedupe)) \in Step
        /\ GreetGames(R!GamesPayload(Dedupe)) \in Step
        /\ GreetCounts(playerCounts) \in Step
        /\ p \in Screens => \A c \in Codes : ToClient(p, "ready", c) \in Step
    BY <1>0, RegistryReads, StepsBuilt DEF StepOf, Browsers
  <2>3. /\ BroadcastGames(R!GamesPayload(Dedupe)).op \notin {"bind", "host", "toWorker"}
        /\ GreetGames(R!GamesPayload(Dedupe)).op \notin {"bind", "host", "toWorker"}
        /\ GreetCounts(playerCounts).op \notin {"bind", "host", "toWorker"}
        /\ \A c : ToClient(p, "ready", c).op \notin {"bind", "host", "toWorker"}
    BY DEF BroadcastGames, GreetGames, GreetCounts, ToClient
  <2>4. QED
    BY <1>0, <1>1, <1>2, <1>4, <1>5, <2>1, <2>2, <2>3
<1>8. QED
  BY <1>6, <1>7

(* A task that goes on has only less to do (ws.rs:84-144).                 *)
LEMMA ProceedKeepsWork ==
    ASSUME IInv, WorkFits, HostsAtHome, NEW p \in Peers, Proceed(p)
    PROVE  WorkFits'
<1>0. [Next]_vars
  BY DEF Next
<1> DEFINE S == Work(p)'
<1>1. todo[p] \in Seq(S) /\ todo[p] # <<>>
  BY <1>0, WorkGrows, TaskGoesOn DEF WorkFits
<1>2. ASSUME NEW x \in Step, x.op \notin {"bind", "host"},
             x.op = "toWorker" =>
                /\ p \in Browsers /\ clientToWorker[p] # None
                /\ x = ToWorker(clientToWorker[p], p, "terminateSession")
      PROVE  x \in S
  <2>1. x \in Step'
    BY DEF Step, Payloads, CountMaps
  <2>2. CASE x.op = "toWorker"
    <3>1. p \in Screens /\ p \notin Phones
      BY <1>2, <2>2, RolesAssumption DEF HostsAtHome, Browsers
    <3>2. x.peer = p
      BY <1>2, <2>2 DEF ToWorker
    <3>3. QED
      BY <1>2, <2>1, <3>1, <3>2 DEF Work, ScreenWork
  <2>3. CASE x.op # "toWorker"
    BY <1>2, <2>1, <2>3 DEF Work, ScreenWork, PhoneWork, WorkerWork
  <2>4. QED
    BY <2>2, <2>3
<1> HIDE DEF S
<1>3. Tail(todo[p]) \in Seq(S)
  BY <1>1
<1>4. todo'[p] \in Seq(S)
  <2>1. CASE todo'[p] = Tail(todo[p])
    BY <1>3, <2>1
  <2>2. ASSUME NEW x \in S, todo'[p] = <<x>> \o Tail(todo[p])
        PROVE  todo'[p] \in Seq(S)
    BY <1>3, <2>2
  <2>3. QED
    BY <1>2, <2>1, <2>2, TaskGoesOn
<1>5. p \in Browsers /\ link'[p] = "new" => todo'[p] = <<>>
  BY <1>1, TaskGoesOn DEF WorkFits
<1>6. \A r \in Peers \ {p} : todo'[r] = todo[r] /\ link'[r] = link[r]
  BY TaskGoesOn
<1>7. QED
  BY <1>0, <1>4, <1>5, <1>6, OneTaskMoves DEF S
(* What the next step of a task allows, by whose it is.                    *)
LEMMA NextIsWork ==
    ASSUME WorkFits, NEW p \in Peers, todo[p] # <<>>
    PROVE  Head(todo[p]) \in Work(p) /\ Tail(todo[p]) \in Seq(Work(p))
<1> DEFINE S == Work(p)
<1>1. todo[p] \in Seq(S)
  BY DEF WorkFits
<1> HIDE DEF S
<1>2. Head(todo[p]) \in S /\ Tail(todo[p]) \in Seq(S)
  BY <1>1
<1>3. QED
  BY <1>2 DEF S

(* A screen registers as host of its page's room, and is bound to no other, *)
(* once that room's worker was there (ws.rs:154-203, 213-224).             *)
LEMMA HostsAtHomeStep ==
    ASSUME BInv, WorkFits, HostsAtHome, [Next]_vars
    PROVE  HostsAtHome'
<1>0. /\ IInv /\ C!TypeOK /\ R!TypeOK /\ TypeOK
      /\ \A s \in Screens : plays[s] \in Workers /\ plays[s] \in Peers
      /\ Screens \subseteq Browsers /\ Phones \subseteq Browsers /\ Browsers \subseteq Peers
      /\ Screens \cap Phones = {} /\ Browsers \cap Workers = {}
  BY RolesAssumption DEF BInv, IInv, TypeOK, Peers, Browsers
<1>1. plays' = plays /\ \A s \in Screens : link[plays[s]] # "new" => link'[plays[s]] # "new"
  BY <1>0, LinksAdvance
<1>a. ASSUME \A s \in Screens : lastWorker'[s] = lastWorker[s],
             \A b \in Browsers : clientToWorker'[b] \in {None, clientToWorker[b]}
      PROVE  HostsAtHome'
  BY <1>0, <1>1, <1>a DEF HostsAtHome
<1>2. ASSUME NEW p \in Peers, Proceed(p)
      PROVE  HostsAtHome'
  <2>0. todo[p] # <<>> /\ Head(todo[p]) \in Work(p)
    BY <1>0, <1>2, TaskGoesOn, NextIsWork
  <2>1. CASE DoHost(p)
    <3>1. /\ p \in Screens /\ Head(todo[p]).worker = plays[p] /\ link[plays[p]] # "new"
          /\ UNCHANGED clientToWorker
      BY <2>0, <2>1 DEF DoHost, NextIs, Work, ScreenWork, PhoneWork, WorkerWork, registryVars
    <3>2. lastWorker' = [lastWorker EXCEPT ![p] = plays[p]]
      BY <2>1, <3>1 DEF DoHost, C!RegisterHost
    <3>3. QED
      BY <1>0, <1>1, <3>1, <3>2 DEF HostsAtHome, C!TypeOK
  <2>2. CASE DoBind(p)
    <3>1. p \in Screens /\ link[plays[p]] # "new" /\ UNCHANGED lastWorker
      BY <2>0, <2>2 DEF DoBind, NextIs, Work, ScreenWork, PhoneWork, WorkerWork, tableVars
    <3>2. \A b \in Browsers \ {p} : clientToWorker'[b] = clientToWorker[b]
      BY <1>0, <2>2 DEF DoBind, R!BindClient, R!TypeOK
    <3>3. QED
      BY <1>0, <1>1, <3>1, <3>2 DEF HostsAtHome
  <2>3. CASE DoUnbind(p) \/ DoUnregister(p)
    BY <1>0, <1>a, <2>3 DEF DoUnbind, DoUnregister, R!UnbindClient, R!UnregisterClient,
       R!TypeOK, tableVars
  <2>4. CASE ~DoHost(p) /\ ~DoBind(p) /\ ~DoUnbind(p) /\ ~DoUnregister(p)
    BY <1>2, <1>a, <2>4 DEF Proceed, SendToWorker, SendToClient, DoReadGames, DoBroadcast,
       DoGreet, tableVars, registryVars
  <2>5. QED
    BY <2>1, <2>2, <2>3, <2>4
<1>3. ASSUME NEW b \in Browsers, ConnectBrowser(b) \/ Leave(b) \/ RequestGames(b)
      PROVE  HostsAtHome'
  BY <1>0, <1>3, <1>a DEF ConnectBrowser, Leave, LeaveAsPhone, LeaveAsHost, RequestGames,
     C!CleanupController, C!CleanupHost, R!RegisterClient, tableVars, registryVars
<1>4. ASSUME NEW w \in Workers, ConnectWorker(w) \/ WorkerLeaves(w)
      PROVE  HostsAtHome'
  BY <1>0, <1>4, <1>a DEF ConnectWorker, WorkerLeaves, R!RegisterWorker, R!UnregisterWorker,
     R!TypeOK, tableVars
<1>5. ASSUME NEW s \in Screens,
             \/ \E ev \in BindingEvents : OpenRoom(s, ev)
             \/ \E ev \in WorkerEvents : Relay(s, ev)
             \/ \E target \in Workers \cup {None} : Terminate(s, target)
             \/ ControllerHost(s)
      PROVE  HostsAtHome'
  BY <1>5, <1>a DEF OpenRoom, Relay, Terminate, ControllerHost, tableVars, registryVars
<1>6. ASSUME NEW p \in Phones,
             \/ \E c \in Codes : ControllerJoin(p, c)
             \/ \E h \in Screens : ControllerInput(p, h)
      PROVE  HostsAtHome'
  BY <1>6, <1>a DEF ControllerJoin, ControllerInput, C!JoinAccepted, C!JoinRefused,
     tableVars, registryVars
<1>7. ASSUME NEW w \in Workers,
             \/ \E g \in GameNames : GameInfo(w, g)
             \/ \E n \in Counts : UpdatePlayerCount(w, n)
      PROVE  HostsAtHome'
  BY <1>7, <1>a DEF GameInfo, UpdatePlayerCount, R!SetWorkerGame, R!SetWorkerPlayerCount,
     tableVars
<1>8. CASE CodesAge \/ UNCHANGED vars
  BY <1>8, <1>a DEF CodesAge, C!Tick, vars, tableVars, registryVars
<1>9. QED
  BY <1>2, <1>3, <1>4, <1>5, <1>6, <1>7, <1>8 DEF Next
(* The cleanup of a browser ends sessions of the phones it pairs, at the   *)
(* room of its page (ws.rs:456-485, controllers.rs:139-171).               *)
LEMMA LeaveKeepsWork ==
    ASSUME IInv, TableInv, WorkFits, HostsAtHome, NEW b \in Browsers, Leave(b)
    PROVE  WorkFits'
<1>0. /\ [Next]_vars /\ TypeOK
      /\ b \in Peers /\ Screens \cap Phones = {}
      /\ todo \in [Peers -> Seq(Step)]
      /\ link \in [Peers -> {"new", "open", "gone"}]
  BY RolesAssumption DEF IInv, TypeOK, Next, Peers, Browsers
<1>1. link' = [link EXCEPT ![b] = "gone"] /\ plays' = plays
  BY <1>0 DEF Leave
<1>2. link'[b] = "gone"
  BY <1>0, <1>1
<1> DEFINE T == Work(b)'
<1>3. Step' = Step
  BY DEF Step, Payloads, CountMaps
<1>4. Do("unregister") \in T
  <2>1. Do("unregister") \in Step /\ Do("unregister").op = "unregister"
    BY <1>0, StepsBuilt DEF StepOf, Do
  <2>2. QED
    BY <1>3, <2>1 DEF Work, ScreenWork, PhoneWork, WorkerWork
<1>5. ASSUME NEW p \in Phones, NEW s \in Screens
      PROVE  ToClient(p, "left", s) \in T /\ ToClient(s, "left", p) \in T
  <2>1. /\ ToClient(p, "left", s) \in Step /\ ToClient(s, "left", p) \in Step
        /\ ToClient(p, "left", s).op = "toClient" /\ ToClient(s, "left", p).op = "toClient"
    BY <1>0, StepsBuilt DEF StepOf, ToClient
  <2>2. QED
    BY <1>3, <2>1 DEF Work, ScreenWork, PhoneWork, WorkerWork
<1>6. ASSUME NEW p \in Phones, controllerToHost[p] # None,
             p = b \/ controllerToHost[p].host = b
      PROVE  ToWorker(controllerToHost[p].worker, p, "terminateSession") \in T
  <2> DEFINE x == ToWorker(controllerToHost[p].worker, p, "terminateSession")
  <2>1. /\ controllerToHost[p].host \in Screens
        /\ controllerToHost[p].worker \in Workers
        /\ controllerToHost[p].worker = plays[controllerToHost[p].host]
    BY <1>6, RoutesLeadHome
  <2>2. /\ x \in Step /\ x.op = "toWorker" /\ x.peer = p /\ x.ev = "terminateSession"
        /\ x.worker = controllerToHost[p].worker
    BY <1>0, <2>1, StepsBuilt DEF StepOf, ToWorker, WorkerEvents, Browsers
  <2>3. SUFFICES x \in T
    OBVIOUS
  <2> HIDE DEF x
  <2>4. CASE b \in Screens
    <3>1. p # b /\ x.worker = plays'[b]
      BY <1>0, <1>1, <1>6, <2>1, <2>2, <2>4
    <3>2. QED
      BY <1>2, <1>3, <2>2, <2>4, <3>1 DEF Work, ScreenWork
  <2>5. CASE b \notin Screens
    BY <1>2, <1>3, <1>6, <2>1, <2>2, <2>5 DEF Work, PhoneWork
  <2>6. QED
    BY <2>4, <2>5
<1> HIDE DEF T
<1>7. PICK h \in Seq(T) : Schedule(b, <<Do("unregister")>> \o h)
  BY <1>5, <1>6, LeavingTells
<1>8. todo'[b] \in Seq(T)
  <2>1. <<Do("unregister")>> \o h \in Seq(T)
    BY <1>4, <1>7
  <2>2. QED
    BY <1>0, <1>7, <2>1 DEF Schedule
<1>9. \A r \in Peers \ {b} : todo'[r] = todo[r] /\ link'[r] = link[r]
  BY <1>0, <1>1, <1>7 DEF Schedule
<1>10. QED
  BY <1>0, <1>2, <1>8, <1>9, OneTaskMoves DEF T

(* The handlers leave nothing else to do: what a screen sends is about     *)
(* itself, and what a phone sends as well (ws.rs:146-306).                 *)
LEMMA HandlersKeepWork ==
    ASSUME BInv, WorkFits, HostsAtHome, [Next]_vars,
           \A p \in Peers : ~Proceed(p), \A b \in Browsers : ~Leave(b)
    PROVE  WorkFits'
<1>0. /\ TypeOK /\ C!TypeOK /\ R!TypeOK
      /\ todo \in [Peers -> Seq(Step)]
      /\ link \in [Peers -> {"new", "open", "gone"}]
      /\ Screens \subseteq Browsers /\ Phones \subseteq Browsers
      /\ Browsers \subseteq Peers /\ Workers \subseteq Peers
      /\ Screens \cap Phones = {} /\ Browsers \cap Workers = {}
      /\ \A s \in Screens : plays[s] \in Workers
      /\ IInv /\ WorkersOpen
  BY RolesAssumption DEF BInv, Bindings, IInv, TypeOK, Peers, Browsers
<1>1. Step' = Step
  BY DEF Step, Payloads, CountMaps
<1>a. ASSUME NEW q \in Peers, NEW steps, Schedule(q, steps),
             \/ UNCHANGED link /\ link[q] = "open"
             \/ \E l \in {"open", "gone"} : link' = [link EXCEPT ![q] = l],
             steps \in Seq(Work(q)')
      PROVE  WorkFits'
  <2>1. todo'[q] = steps /\ link'[q] # "new"
    BY <1>0, <1>a DEF Schedule
  <2>2. \A r \in Peers \ {q} : todo'[r] = todo[r] /\ link'[r] = link[r]
    BY <1>0, <1>a DEF Schedule
  <2>3. QED
    BY <1>0, <1>a, <2>1, <2>2, OneTaskMoves
(* Steps that anyone may have left.                                        *)
<1>b. ASSUME NEW q \in Peers, NEW x \in Step, x.op \notin {"bind", "host", "toWorker"}
      PROVE  <<x>> \in Seq(Work(q)')
  <2>1. x \in Work(q)'
    BY <1>1, <1>b DEF Work, ScreenWork, PhoneWork, WorkerWork
  <2> DEFINE S == Work(q)'
  <2> HIDE DEF S
  <2>2. x \in S => <<x>> \in Seq(S)
    OBVIOUS
  <2>3. QED
    BY <2>1, <2>2 DEF S
<1>2. ASSUME NEW b \in Browsers, ConnectBrowser(b)
      PROVE  WorkFits'
  <2>1. Do("greet") \in Step /\ Do("greet").op = "greet"
    BY <1>0, StepsBuilt DEF StepOf, Do
  <2>2. <<Do("greet")>> \in Seq(Work(b)')
    BY <1>0, <1>b, <2>1
  <2>3. QED
    BY <1>0, <1>2, <1>a, <2>2 DEF ConnectBrowser
<1>3. ASSUME NEW w \in Workers, ConnectWorker(w)
      PROVE  WorkFits'
  <2>1. w \in Peers /\ w \notin Browsers
    BY <1>0
  <2>2. todo'[w] \in Seq(Work(w)')
    BY <1>0, <1>3, <2>1, WorkGrows DEF ConnectWorker, WorkFits
  <2>3. \A r \in Peers \ {w} : todo'[r] = todo[r] /\ link'[r] = link[r]
    BY <1>0, <1>3 DEF ConnectWorker
  <2>4. QED
    BY <1>0, <2>1, <2>2, <2>3, OneTaskMoves
<1>4. ASSUME NEW w \in Workers, WorkerLeaves(w)
      PROVE  WorkFits'
  <2>1. Do("readGames") \in Step /\ Do("readGames").op = "readGames"
    BY <1>0, StepsBuilt DEF StepOf, Do
  <2>2. <<Do("readGames")>> \in Seq(Work(w)')
    BY <1>0, <1>b, <2>1
  <2>3. QED
    BY <1>0, <1>4, <1>a, <2>2 DEF WorkerLeaves
<1>5. ASSUME NEW w \in Workers, NEW g \in GameNames, GameInfo(w, g)
      PROVE  WorkFits'
  <2>1. Do("readGames") \in Step /\ Do("readGames").op = "readGames"
    BY <1>0, StepsBuilt DEF StepOf, Do
  <2>2. <<Do("readGames")>> \in Seq(Work(w)')
    BY <1>0, <1>b, <2>1
  <2>3. QED
    BY <1>0, <1>5, <1>a, <2>2 DEF GameInfo, Idle
<1>6. ASSUME NEW w \in Workers, NEW n \in Counts, UpdatePlayerCount(w, n)
      PROVE  WorkFits'
  <2>1. BroadcastCount(w, n) \in Step /\ BroadcastCount(w, n).op = "broadcastCount"
    BY <1>0, StepsBuilt DEF StepOf, BroadcastCount
  <2>2. <<BroadcastCount(w, n)>> \in Seq(Work(w)')
    BY <1>0, <1>b, <2>1
  <2>3. QED
    BY <1>0, <1>6, <1>a, <2>2 DEF UpdatePlayerCount, Idle
<1>7. ASSUME NEW b \in Browsers, RequestGames(b)
      PROVE  WorkFits'
  <2> DEFINE x == ToClient(b, "games", R!GamesPayload(Dedupe))
  <2>1. x \in Step /\ x.op = "toClient"
    BY <1>0, RegistryReads, StepsBuilt DEF StepOf, ToClient
  <2> HIDE DEF x
  <2>2. <<x>> \in Seq(Work(b)')
    BY <1>0, <1>b, <2>1
  <2>3. Schedule(b, <<x>>) /\ link[b] = "open" /\ UNCHANGED link
    BY <1>7 DEF RequestGames, Idle, x
  <2>4. QED
    BY <1>0, <1>a, <2>2, <2>3
<1>8. ASSUME NEW s \in Screens, NEW ev \in WorkerEvents, OpenRoom(s, ev) \/ Relay(s, ev)
      PROVE  WorkFits'
  <2> DEFINE S == Work(s)'
             x == ToWorker(plays[s], s, ev)
             y == Bind(plays[s])
  <2>1. x \in S
    <3>1. x \in Step /\ x.op = "toWorker" /\ x.peer = s
      BY <1>0, StepsBuilt DEF StepOf, ToWorker
    <3> HIDE DEF x
    <3>2. QED
      BY <1>0, <1>1, <3>1 DEF Work, ScreenWork
  <2>2. ASSUME OpenRoom(s, ev) PROVE y \in S
    <3>1. y \in Step /\ y.op = "bind"
      BY <1>0, StepsBuilt DEF StepOf, Bind
    <3>2. link[plays[s]] # "new"
      BY <1>0, <2>2 DEF OpenRoom, WorkersOpen
    <3>3. QED
      BY <1>0, <1>1, <2>2, <3>1, <3>2 DEF Work, ScreenWork, OpenRoom
  <2>3. \/ Schedule(s, <<x>>)
        \/ OpenRoom(s, ev) /\ Schedule(s, <<y, x>>)
    BY <1>8 DEF OpenRoom, Relay
  <2>4. UNCHANGED link /\ link[s] = "open"
    BY <1>8 DEF OpenRoom, Relay, Idle
  <2> HIDE DEF S, x, y
  <2>5. <<x>> \in Seq(S) /\ (y \in S => <<y, x>> \in Seq(S))
    BY <2>1
  <2>6. QED
    BY <1>0, <1>a, <2>2, <2>3, <2>4, <2>5 DEF S
<1>9. ASSUME NEW s \in Screens, NEW target, Terminate(s, target)
      PROVE  WorkFits'
  <2> DEFINE S == Work(s)'
             x == ToWorker(clientToWorker[s], s, "terminateSession")
             y == Do("unbind")
  <2>1. x \in S
    <3>1. clientToWorker[s] \in Workers
      BY <1>0, <1>9 DEF Terminate, R!TypeOK
    <3>2. x \in Step /\ x.op = "toWorker" /\ x.peer = s
      BY <1>0, <3>1, StepsBuilt DEF StepOf, ToWorker, WorkerEvents
    <3> HIDE DEF x
    <3>3. QED
      BY <1>0, <1>1, <3>2 DEF Work, ScreenWork
  <2>2. y \in S
    <3>1. y \in Step /\ y.op = "unbind"
      BY <1>0, StepsBuilt DEF StepOf, Do
    <3>2. QED
      BY <1>0, <1>1, <3>1 DEF Work, ScreenWork
  <2>3. Schedule(s, <<x, y>>) /\ UNCHANGED link /\ link[s] = "open"
    BY <1>9 DEF Terminate, Idle
  <2> HIDE DEF S, x, y
  <2>4. <<x, y>> \in Seq(S)
    BY <2>1, <2>2
  <2>5. QED
    BY <1>0, <1>a, <2>3, <2>4 DEF S
<1>10. ASSUME NEW s \in Screens, ControllerHost(s)
      PROVE  WorkFits'
  <2> DEFINE S == Work(s)'
             y == Host(plays[s])
  <2>1. clientToWorker[s] # None /\ link[plays[s]] # "new"
    BY <1>0, <1>10, NoneAssumption DEF ControllerHost, HostsAtHome
  <2>2. y \in S
    <3>1. y \in Step /\ y.op = "host" /\ y.worker = plays[s]
      BY <1>0, StepsBuilt DEF StepOf, Host
    <3>2. UNCHANGED <<link, plays>>
      BY <1>10 DEF ControllerHost
    <3> HIDE DEF y
    <3>3. QED
      BY <1>0, <1>1, <2>1, <3>1, <3>2 DEF Work, ScreenWork
  <2>3. Schedule(s, <<y>>) /\ UNCHANGED link /\ link[s] = "open"
    BY <1>10 DEF ControllerHost, Idle
  <2> HIDE DEF S, y
  <2>4. <<y>> \in Seq(S)
    BY <2>2
  <2>5. QED
    BY <1>0, <1>a, <2>3, <2>4 DEF S
(* What a phone sends is about itself.                                     *)
<1>11. ASSUME NEW p \in Phones, NEW c \in Codes, ControllerJoin(p, c)
       PROVE  WorkFits'
  <2> DEFINE S == Work(p)'
             x == ToClient(p, "rejected", None)
             y == ToClient(p, "joined", codeToHost[c].host)
             z == ToClient(codeToHost[c].host, "joined", p)
             j == ToWorker(codeToHost[c].worker, p, "joinRoom")
  <2>1. UNCHANGED link /\ link[p] = "open" /\ p \in Peers /\ p \notin Screens
    BY <1>0, <1>11 DEF ControllerJoin, Idle
  <2>2. x \in S
    <3>1. x \in Step /\ x.op = "toClient"
      BY <1>0, <2>1, StepsBuilt DEF StepOf, ToClient
    <3>2. QED
      BY <1>1, <2>1, <3>1 DEF Work, PhoneWork
  <2>3. ASSUME C!Live(c) PROVE y \in S /\ z \in S /\ j \in S
    <3>1. codeToHost[c].host \in Screens /\ codeToHost[c].worker \in Workers
      BY <1>0, <2>3 DEF C!Live, C!Registered, C!TypeOK, C!HostRegistration
    <3>2. y \in Step /\ y.op = "toClient" /\ z \in Step /\ z.op = "toClient"
      BY <2>1, <3>1, StepsBuilt DEF StepOf, ToClient
    <3>3. j \in Step /\ j.op = "toWorker" /\ j.peer = p /\ j.ev = "joinRoom"
      BY <1>0, <2>1, <3>1, StepsBuilt DEF StepOf, ToWorker, WorkerEvents
    <3>4. y \in S /\ z \in S
      BY <1>1, <2>1, <3>2 DEF Work, PhoneWork
    <3> HIDE DEF j
    <3>5. j \in S
      BY <1>0, <1>1, <2>1, <3>3 DEF Work, PhoneWork
    <3>6. QED
      BY <3>4, <3>5
  <2>4. Schedule(p, <<x>>) \/ (C!Live(c) /\ Schedule(p, <<y, z, j>>))
    BY <1>11 DEF ControllerJoin, C!JoinAccepted
  <2> HIDE DEF S, x, y, z, j
  <2>5. <<x>> \in Seq(S) /\ (C!Live(c) => <<y, z, j>> \in Seq(S))
    BY <2>2, <2>3
  <2>6. QED
    BY <1>a, <2>1, <2>4, <2>5 DEF S
<1>12. ASSUME NEW p \in Phones, NEW h \in Screens, ControllerInput(p, h)
       PROVE  WorkFits'
  <2> DEFINE S == Work(p)'
             x == ToWorker(C!WorkerForInput(p, h), p, "input")
  <2>1. UNCHANGED link /\ link[p] = "open" /\ p \in Peers /\ p \notin Screens
    BY <1>0, <1>12 DEF ControllerInput, Idle
  <2>2. x \in S
    <3>1. C!WorkerForInput(p, h) \in Workers
      BY <1>0, <1>12 DEF ControllerInput, C!WorkerForInput, C!TypeOK, C!ControllerRoute
    <3>2. x \in Step /\ x.op = "toWorker" /\ x.peer = p /\ x.ev = "input"
      BY <1>0, <2>1, <3>1, StepsBuilt DEF StepOf, ToWorker, WorkerEvents
    <3> HIDE DEF x
    <3>3. QED
      BY <1>0, <1>1, <2>1, <3>2 DEF Work, PhoneWork
  <2>3. Schedule(p, <<x>>)
    BY <1>12 DEF ControllerInput
  <2> HIDE DEF S, x
  <2>4. <<x>> \in Seq(S)
    BY <2>2
  <2>5. QED
    BY <1>a, <2>1, <2>3, <2>4 DEF S
<1>13. CASE CodesAge \/ UNCHANGED vars
  <2>1. UNCHANGED <<todo, link>>
    BY <1>13 DEF CodesAge, vars
  <2>2. \A q \in Peers : todo'[q] \in Seq(Work(q)')
    BY <1>0, <2>1, WorkGrows DEF WorkFits
  <2>3. QED
    BY <2>1, <2>2 DEF WorkFits
<1>14. BindingEvents \subseteq WorkerEvents
  BY DEF BindingEvents, WorkerEvents
<1>15. QED
  BY <1>2, <1>3, <1>4, <1>5, <1>6, <1>7, <1>8, <1>9, <1>10, <1>11, <1>12, <1>13, <1>14
  DEF Next

(* No step gives a task work of another kind.                              *)
LEMMA WorkFitsStep ==
    ASSUME BInv, TableInv, WorkFits, HostsAtHome, [Next]_vars
    PROVE  WorkFits'
<1>1. IInv
  BY DEF BInv
<1>2. QED
  BY <1>1, ProceedKeepsWork, LeaveKeepsWork, HandlersKeepWork
-----------------------------------------------------------------------------
(* What excuses a phone stays: sockets that are over stay so, a host keeps *)
(* its page and its room, and a worker that left does not return.          *)
LEMMA ExcusesLast ==
    ASSUME BInv, BInv', HostsAtHome, HostsAtHome', [Next]_vars
    PROVE  /\ \A w : Excused(w) => Excused(w)'
           /\ \A s \in Screens : lastWorker[s] # None => lastWorker'[s] = lastWorker[s]
           /\ \A w \in Workers : w \notin workers /\ link[w] # "new" => w \notin workers'
<1>0. /\ IInv /\ C!TypeOK /\ Screens \subseteq Peers /\ Workers \subseteq Peers
      /\ \A w \in Workers : w \in workers <=> link[w] = "open"
      /\ link \in [Peers -> {"new", "open", "gone"}]
  BY DEF BInv, Bindings, IInv, TypeOK, Peers, Browsers, WorkersOpen
<1>1. /\ plays' = plays
      /\ \A q \in Peers : link[q] = "gone" => link'[q] = "gone"
  BY <1>0, LinksAdvance
<1>2. \A s \in Screens : lastWorker[s] # None => lastWorker'[s] # None
  <2>1. [C!Next]_(C!vars)
    BY <1>0, TableRefined
  <2>2. CASE UNCHANGED C!vars
    BY <2>2 DEF C!vars
  <2>3. ASSUME NEW h \in Screens, NEW w \in Workers, NEW c \in Codes, C!RegisterHost(h, w, c)
        PROVE  \A s \in Screens : lastWorker[s] # None => lastWorker'[s] # None
    BY <1>0, <2>3, NoneAssumption DEF C!RegisterHost, C!TypeOK
  <2>4. QED
    BY <2>1, <2>2, <2>3 DEF C!Next, C!JoinAccepted, C!JoinRefused, C!CleanupPeer,
       C!CleanupController, C!CleanupHost, C!Tick
<1>3. \A s \in Screens : lastWorker[s] # None => lastWorker'[s] = lastWorker[s]
  BY <1>1, <1>2 DEF HostsAtHome
<1>4. ASSUME NEW w \in Workers, w \notin workers, link[w] # "new"
      PROVE  w \notin workers'
  <2>1. link'[w] = "gone"
    BY <1>0, <1>1, <1>4
  <2>2. QED
    BY <2>1 DEF BInv, Bindings, WorkersOpen
<1>5. ASSUME NEW w, Excused(w)
      PROVE  Excused(w)'
  BY <1>0, <1>1, <1>3, <1>5 DEF Excused
<1>6. QED
  BY <1>3, <1>4, <1>5

(* A phone that keeps its route, its slots and what it has to send stays   *)
(* in form, whatever else happens.                                         *)
LEMMA PhoneUndisturbed ==
    ASSUME BInv, BInv', TableInv, HostsAtHome, HostsAtHome', SeatsFit, [Next]_vars,
           NEW p \in Phones,
           controllerToHost'[p] = controllerToHost[p],
           \A w \in Workers : w \in workers' => (p \in room'[w] <=> p \in room[w]),
           \A w \in Workers : \A ev : Sends(p, w, ev)' <=> Sends(p, w, ev),
           \A w \in Workers : EndIsDue(p, w)' <=> EndIsDue(p, w),
           p \in overtaken' <=> p \in overtaken
    PROVE  RouteSeated(p)' /\ \A w \in Workers : (SeatOwed(p, w) /\ Overtaking(p, w))'
<1>0. IInv /\ Screens \subseteq Peers
  BY DEF BInv, Peers, Browsers
<1>1. RouteSeated(p)'
  <2>1. SUFFICES ASSUME controllerToHost[p] # None
                 PROVE  RouteSeated(p)'
    BY DEF RouteSeated
  <2> DEFINE w == controllerToHost[p].worker
  <2>2. w \in Workers /\ link[w] # "new"
    BY <1>0, <2>1, RoutesLeadHome
  <2>3. CASE w \notin workers
    BY <2>2, <2>3, ExcusesLast DEF RouteSeated
  <2>4. CASE p \in room[w]
    BY <2>2, <2>4 DEF RouteSeated
  <2>5. CASE Sends(p, w, "joinRoom")
    BY <2>2, <2>5 DEF RouteSeated
  <2>6. CASE p \in overtaken
    BY <2>6 DEF RouteSeated
  <2>7. QED
    BY <2>1, <2>3, <2>4, <2>5, <2>6 DEF SeatsFit, RouteSeated
<1>2. ASSUME NEW w \in Workers
      PROVE  SeatOwed(p, w)'
  <2>1. SeatOwed(p, w)
    BY DEF SeatsFit
  <2>2. Excused(w) => Excused(w)'
    BY ExcusesLast
  <2>3. Routed(p, w)' <=> Routed(p, w)
    BY DEF Routed
  <2>4. p \in room'[w] => p \in room[w]
    BY DEF BInv, Bindings, WorkersOpen
  <2>5. QED
    BY <2>1, <2>2, <2>3, <2>4 DEF SeatOwed
<1>3. ASSUME NEW w \in Workers
      PROVE  Overtaking(p, w)'
  <2>1. Overtaking(p, w)
    BY DEF SeatsFit
  <2>2. Routed(p, w)' <=> Routed(p, w)
    BY DEF Routed
  <2>3. Routed(p, w) => link[w] # "new"
    BY <1>0, RoutesLeadHome DEF Routed
  <2>4. Routed(p, w) /\ w \notin workers => w \notin workers'
    BY <2>3, ExcusesLast
  <2>5. QED
    BY <2>1, <2>2, <2>4 DEF Overtaking
<1>4. QED
  BY <1>1, <1>2, <1>3

(* What an idle phone, and one whose work is left alone, has to send.      *)
LEMMA SendsOfOneStep ==
    ASSUME NEW p \in Phones
    PROVE  /\ todo[p] = <<>> => \A w, ev : ~Sends(p, w, ev)
           /\ todo'[p] = todo[p] => \A w, ev : Sends(p, w, ev)' <=> Sends(p, w, ev)
           /\ \A x : todo'[p] = <<x>> /\ x.op # "toWorker" => \A w, ev : ~Sends(p, w, ev)'
<1>1. todo[p] = <<>> => \A w, ev : ~Sends(p, w, ev)
  BY DEF Sends, Pending
<1>2. todo'[p] = todo[p] => \A w, ev : Sends(p, w, ev)' <=> Sends(p, w, ev)
  BY DEF Sends, Pending, ToWorker
<1>3. ASSUME NEW x, todo'[p] = <<x>>, x.op # "toWorker", NEW w, NEW ev, Sends(p, w, ev)'
      PROVE  FALSE
  <2>1. x = ToWorker(w, p, ev)
    BY <1>3 DEF Sends, Pending, ToWorker
  <2>2. QED
    BY <1>3, <2>1 DEF ToWorker
<1>4. QED
  BY <1>1, <1>2, <1>3

(* A task that executes a step has the rest of its messages about phones   *)
(* to send, and no further one (ws.rs:84-144, 456-463).                    *)
LEMMA MessagesAfterProceed ==
    ASSUME IInv, HostsAtHome, NEW q \in Peers, Proceed(q), NEW p \in Phones, NEW w, NEW ev
    PROVE  /\ Pending(q, ToWorker(w, p, ev))' => Pending(q, ToWorker(w, p, ev))
           /\ Pending(q, ToWorker(w, p, ev)) /\ Head(todo[q]) # ToWorker(w, p, ev) =>
                    Pending(q, ToWorker(w, p, ev))'
<1> DEFINE t == todo[q]
           u == todo'[q]
           m == ToWorker(w, p, ev)
           S == Step
<1>1. ASSUME NEW x \in Step,
             x.op = "toWorker" =>
                /\ q \in Browsers /\ clientToWorker[q] # None
                /\ x = ToWorker(clientToWorker[q], q, "terminateSession")
      PROVE  x # m
  <2>1. x = m => x.op = "toWorker" /\ x.peer = p
    BY DEF ToWorker
  <2>2. x.op = "toWorker" => x.peer = q /\ q # p
    BY <1>1 DEF ToWorker, HostsAtHome
  <2>3. QED
    BY <2>1, <2>2
<1>2. /\ Pending(q, m) <=> \E i \in DOMAIN t : t[i] = m
      /\ Pending(q, m)' <=> \E i \in DOMAIN u : u[i] = m
  BY DEF Pending, ToWorker
<1>3. /\ t # <<>> /\ t \in Seq(S)
      /\ u = Tail(t) \/ \E x \in S : u = <<x>> \o Tail(t) /\ x # m
  <2>1. /\ t # <<>> /\ t \in Seq(S)
        /\ \/ u = Tail(t)
           \/ \E x \in S :
                /\ u = <<x>> \o Tail(t)
                /\ x.op = "toWorker" =>
                    /\ q \in Browsers /\ clientToWorker[q] # None
                    /\ x = ToWorker(clientToWorker[q], q, "terminateSession")
    BY TaskGoesOn
  <2> HIDE DEF t, u, m
  <2>2. QED
    BY <1>1, <2>1
<1> HIDE DEF t, u, m, S
<1>4. CASE u = Tail(t)
  <2>1. \A i \in DOMAIN u : i + 1 \in DOMAIN t /\ u[i] = t[i + 1]
    BY <1>3, <1>4
  <2>2. \A i \in DOMAIN t : i # 1 => i - 1 \in DOMAIN u /\ u[i - 1] = t[i]
    BY <1>3, <1>4
  <2>3. t[1] = Head(t)
    BY <1>3
  <2>4. QED
    BY <1>2, <2>1, <2>2, <2>3 DEF t, m
<1>5. ASSUME NEW x \in S, u = <<x>> \o Tail(t), x # m
      PROVE  /\ Pending(q, m)' => Pending(q, m)
             /\ Pending(q, m) /\ Head(t) # m => Pending(q, m)'
  <2>1. \A i \in DOMAIN u : i # 1 => i \in DOMAIN t /\ u[i] = t[i]
    BY <1>3, <1>5
  <2>2. \A i \in DOMAIN t : i # 1 => i \in DOMAIN u /\ u[i] = t[i]
    BY <1>3, <1>5
  <2>3. u[1] = x /\ x # m /\ t[1] = Head(t)
    BY <1>3, <1>5
  <2>4. QED
    BY <1>2, <2>1, <2>2, <2>3
<1>6. /\ Pending(q, m)' => Pending(q, m)
      /\ Pending(q, m) /\ Head(t) # m => Pending(q, m)'
  BY <1>3, <1>4, <1>5 DEF t, m
<1>7. QED
  BY <1>6 DEF t, m

(* A phone that executes a step has the rest to send, and nothing more.    *)
LEMMA SendsAfterProceed ==
    ASSUME IInv, HostsAtHome, NEW p \in Phones, Proceed(p), NEW w, NEW ev
    PROVE  /\ Sends(p, w, ev)' => Sends(p, w, ev)
           /\ Sends(p, w, ev) /\ Head(todo[p]) # ToWorker(w, p, ev) => Sends(p, w, ev)'
<1>1. p \in Peers
  BY DEF Peers, Browsers
<1>2. Sends(p, w, ev)' <=> Pending(p, ToWorker(w, p, ev))'
  BY DEF Sends
<1>3. QED
  BY <1>1, <1>2, MessagesAfterProceed DEF Sends

(* The ends due to a phone change only with what screens have left to do.  *)
LEMMA EndsOfIdleScreens ==
    ASSUME NEW p \in Phones, \A s \in Screens : todo'[s] = todo[s]
    PROVE  \A w : EndIsDue(p, w)' <=> EndIsDue(p, w)
BY DEF EndIsDue, Pending, ToWorker

(* A step takes an end off only if it sends it (ws.rs:472-484).            *)
LEMMA EndsAfterProceed ==
    ASSUME IInv, HostsAtHome, NEW q \in Peers, Proceed(q), NEW p \in Phones, NEW w
    PROVE  /\ EndIsDue(p, w)' => EndIsDue(p, w)
           /\ q \notin Screens \/ Head(todo[q]) # ToWorker(w, p, "terminateSession") =>
                (EndIsDue(p, w) => EndIsDue(p, w)')
<1> DEFINE m == ToWorker(w, p, "terminateSession")
<1>1. /\ Pending(q, m)' => Pending(q, m)
      /\ Pending(q, m) /\ Head(todo[q]) # m => Pending(q, m)'
  BY MessagesAfterProceed
<1>2. m' = m
  BY DEF ToWorker
<1>3. \A s \in Screens : s # q => todo'[s] = todo[s]
  BY TaskGoesOn DEF Peers, Browsers
<1>4. /\ EndIsDue(p, w) <=> \E s \in Screens : Pending(s, m)
      /\ EndIsDue(p, w)' <=> \E s \in Screens : Pending(s, m)'
  BY DEF EndIsDue
<1> HIDE DEF m
<1>5. \A s \in Screens : s # q => (Pending(s, m)' <=> Pending(s, m))
  BY <1>2, <1>3 DEF Pending
<1>6. QED
  BY <1>1, <1>4, <1>5 DEF m

(* What a message about b does to b: every event of a phone but the end of *)
(* its session seats it (signal_router.rs:51-79, 192-240).                 *)
LEMMA DeliveredSeats ==
    ASSUME TypeOK, NEW w \in Workers, NEW b \in Browsers, NEW ev, NEW v \in Workers
    PROVE  /\ ev \in {"joinRoom", "input"} /\ w \in workers => b \in Delivered(w, b, ev)[w]
           /\ ev \in {"joinRoom", "input"} => room[v] \subseteq Delivered(w, b, ev)[v]
           /\ ev = "terminateSession" => Delivered(w, b, ev)[v] \subseteq room[v]
  BY DEF Delivered, TypeOK

(* Two messages are the same if they say the same.                         *)
LEMMA MessagesToWorkers ==
    ASSUME NEW x \in Step, x.op = "toWorker"
    PROVE  /\ x = ToWorker(x.worker, x.peer, x.ev)
           /\ x.worker \in Workers /\ x.peer \in Browsers
           /\ \A w, b, ev : x = ToWorker(w, b, ev) <=> x.worker = w /\ x.peer = b /\ x.ev = ev
<1>1. x \in [op : {"toWorker"}, worker : Workers, peer : Browsers, ev : WorkerEvents]
  BY DEF Step
<1>2. x.worker \in Workers /\ x.peer \in Browsers /\ x = ToWorker(x.worker, x.peer, x.ev)
  BY <1>1 DEF ToWorker
<1>3. \A w, b, ev : x = ToWorker(w, b, ev) => x.worker = w /\ x.peer = b /\ x.ev = ev
  BY DEF ToWorker
<1>4. QED
  BY <1>2, <1>3

(* A message that reaches a worker keeps phones in form: a phone that      *)
(* joins or plays is routed there or excused, and one whose session a      *)
(* departed host ends there has, if it is still routed, another host       *)
(* (ws.rs:223-256, 465-484).                                               *)
LEMMA DeliveryKeepsSeats ==
    ASSUME BInv, BInv', TableInv, WorkFits, HostsAtHome, HostsAtHome', SeatsFit,
           NEW q \in Peers, SendToWorker(q), NEW p \in Phones
    PROVE  RouteSeated(p)' /\ \A w \in Workers : (SeatOwed(p, w) /\ Overtaking(p, w))'
<1> DEFINE x == Head(todo[q])
<1>0. /\ IInv /\ TypeOK /\ Proceed(q) /\ [Next]_vars
      /\ p \in Browsers /\ p \in Peers /\ p \notin Screens
      /\ Screens \subseteq Peers
      /\ \A w \in Workers : w \notin workers => room[w] = {}
  BY RolesAssumption DEF BInv, Bindings, WorkersOpen, IInv, Next, Proceed, Peers, Browsers
<1>1. /\ todo[q] # <<>> /\ x.op = "toWorker" /\ x \in Work(q)
      /\ room' = Delivered(x.worker, x.peer, x.ev)
      /\ UNCHANGED <<controllerToHost, workers, link, plays, lastWorker>>
  BY <1>0, NextIsWork DEF SendToWorker, NextIs, tableVars, registryVars
<1>2. x \in Step
  BY <1>1 DEF Work, ScreenWork, PhoneWork, WorkerWork
<1>3. /\ \A w \in Workers : w # x.worker => room'[w] = room[w]
      /\ x.worker \notin workers => room' = room
      /\ x.peer # p => \A w \in Workers : p \in room'[w] <=> p \in room[w]
      /\ x.worker \in Workers /\ x.peer \in Browsers
  BY <1>0, <1>1, <1>2, MessagesToWorkers, DeliveredToOne
<1>4. \A w : Excused(w)' <=> Excused(w)
  BY <1>1 DEF Excused
<1>5. \A w : Routed(p, w)' <=> Routed(p, w)
  BY <1>1 DEF Routed
<1>6. /\ x.peer # p => (p \in overtaken' <=> p \in overtaken)
      /\ x.ev \notin {"joinRoom", "input"} => overtaken' = overtaken
      /\ x.peer = p => (p \in overtaken' => p \in overtaken)
      /\ x.peer = p /\ x.ev \in {"joinRoom", "input"} /\ EndIsDue(p, x.worker) =>
            overtaken' = overtaken
      /\ x.peer = p /\ x.ev \in {"joinRoom", "input"} /\ ~EndIsDue(p, x.worker) =>
            p \notin overtaken'
  BY DEF SendToWorker, NoteSent
<1>7. RouteSeated(p) /\ \A w \in Workers : SeatOwed(p, w) /\ Overtaking(p, w)
  BY DEF SeatsFit
<1>8. controllerToHost[p] # None =>
            /\ controllerToHost[p].worker \in Workers
            /\ link[controllerToHost[p].host] # "gone" /\ link[p] # "gone"
  BY <1>0, RoutesLeadHome
<1>9. q # p => \A w, ev : Sends(p, w, ev)' <=> Sends(p, w, ev)
  BY <1>0, TaskGoesOn, SendsOfOneStep
<1>10. CASE x.peer # p
  <2>1. q # p
    BY <1>0, <1>1, <1>10 DEF Work, PhoneWork
  <2>2. \A w : EndIsDue(p, w)' <=> EndIsDue(p, w)
    <3>1. \A w, ev : x # ToWorker(w, p, ev)
      BY <1>10 DEF ToWorker
    <3>2. QED
      BY <1>0, <3>1, EndsAfterProceed
  <2>3. QED
    BY <1>0, <1>1, <1>3, <1>6, <1>9, <1>10, <2>1, <2>2, PhoneUndisturbed
<1>11. CASE x.peer = p /\ q # p
  <2>1. q \in Screens /\ link[q] = "gone" /\ x.worker = plays[q] /\ x.ev = "terminateSession"
    <3>1. q \in Screens
      BY <1>1, <1>11 DEF Work, PhoneWork, WorkerWork
    <3>2. QED
      BY <1>1, <1>11, <3>1 DEF Work, ScreenWork
(* The end that is sent was due, and the phone it is about is seated no    *)
(* longer.                                                                 *)
  <2>2. EndIsDue(p, x.worker)
    <3>1. todo[q] \in Seq(Step)
      BY <1>0, TaskGoesOn
    <3>2. 1 \in DOMAIN todo[q] /\ todo[q][1] = x
      BY <1>1, <3>1
    <3>3. x = ToWorker(x.worker, p, "terminateSession")
      BY <1>1, <1>2, <1>11, <2>1, MessagesToWorkers
    <3>4. QED
      BY <2>1, <3>2, <3>3 DEF EndIsDue, Pending
  <2>3. RouteSeated(p)'
    <3>1. SUFFICES ASSUME controllerToHost[p] # None PROVE RouteSeated(p)'
      BY <1>1 DEF RouteSeated
    <3>2. CASE controllerToHost[p].worker = x.worker
      <4>1. p \in overtaken
        BY <1>7, <1>8, <2>2, <3>1, <3>2 DEF Overtaking, Routed
      <4>2. QED
        BY <1>6, <2>1, <4>1 DEF RouteSeated
    <3>3. CASE controllerToHost[p].worker # x.worker
      BY <1>1, <1>3, <1>6, <1>7, <1>8, <1>9, <1>11, <2>1, <3>1, <3>3 DEF RouteSeated
    <3>4. QED
      BY <3>2, <3>3
  <2>4. ASSUME NEW w \in Workers PROVE SeatOwed(p, w)'
    <3>1. p \in room'[w] => p \in room[w]
      BY <1>0, <1>1, <1>3, <2>1, DeliveredSeats
    <3>2. QED
      BY <1>4, <1>5, <1>7, <1>9, <1>11, <3>1 DEF SeatOwed
  <2>5. ASSUME NEW w \in Workers PROVE Overtaking(p, w)'
    <3>1. Overtaking(p, w)
      BY <1>7
    <3>2. EndIsDue(p, w)' => EndIsDue(p, w)
      BY <1>0, EndsAfterProceed
    <3>3. p \in overtaken' <=> p \in overtaken
      BY <1>6, <2>1
    <3>4. CASE w = x.worker
      <4>1. w \in workers => p \notin room'[w]
        BY <1>0, <1>1, <1>3, <1>11, <2>1, <3>4, DeliveredToOne
      <4>2. QED
        BY <1>1, <1>5, <1>9, <1>11, <3>1, <3>2, <3>3, <4>1 DEF Overtaking
    <3>5. CASE w # x.worker
      <4>1. x # ToWorker(w, p, "terminateSession")
        BY <3>5 DEF ToWorker
      <4>2. EndIsDue(p, w) => EndIsDue(p, w)'
        BY <1>0, <4>1, EndsAfterProceed
      <4>3. QED
        BY <1>1, <1>3, <1>5, <1>9, <1>11, <3>1, <3>2, <3>3, <3>5, <4>2 DEF Overtaking
    <3>6. QED
      BY <3>4, <3>5
  <2>6. QED
    BY <2>3, <2>4, <2>5
<1>12. CASE q = p
  <2>1. /\ x.peer = p
        /\ x.ev \in {"joinRoom", "input", "terminateSession"}
        /\ x.ev = "terminateSession" => link[p] = "gone"
    BY <1>0, <1>1, <1>12 DEF Work, PhoneWork
  <2>2. ASSUME NEW w, NEW ev
        PROVE  /\ Sends(p, w, ev)' => Sends(p, w, ev)
               /\ Sends(p, w, ev) /\ (x.worker # w \/ x.ev # ev) => Sends(p, w, ev)'
    BY <1>0, <1>1, <1>2, <1>12, MessagesToWorkers, SendsAfterProceed
  <2>3. Sends(p, x.worker, x.ev)
    <3>1. todo[p] \in Seq(Step)
      BY <1>0, TaskGoesOn, <1>12
    <3>2. 1 \in DOMAIN todo[p] /\ todo[p][1] = x
      BY <1>1, <1>12, <3>1
    <3>3. QED
      BY <1>1, <1>2, <2>1, <3>2, MessagesToWorkers DEF Sends, Pending
  <2>4. /\ x.ev # "terminateSession" =>
                /\ \A w \in Workers : room[w] \subseteq room'[w]
                /\ x.worker \in workers => p \in room'[x.worker]
        /\ x.ev = "terminateSession" => \A w \in Workers : room'[w] \subseteq room[w]
        /\ x.ev = "terminateSession" /\ x.worker \in workers => p \notin room'[x.worker]
    BY <1>0, <1>1, <1>3, <2>1, DeliveredSeats, DeliveredToOne
  <2>5. RouteSeated(p)'
    <3>1. SUFFICES ASSUME controllerToHost[p] # None PROVE RouteSeated(p)'
      BY <1>1 DEF RouteSeated
    <3>2. x.ev # "terminateSession"
      BY <1>8, <2>1, <3>1
    <3>3. x.worker = controllerToHost[p].worker
      BY <1>3, <1>7, <2>1, <2>3, <3>1, <3>2 DEF Overtaking, Routed
    <3>4. QED
      BY <1>1, <2>4, <3>2, <3>3 DEF RouteSeated
  <2>6. ASSUME NEW w \in Workers PROVE SeatOwed(p, w)'
    <3>1. SeatOwed(p, w)
      BY <1>7
    <3>2. CASE x.ev = "terminateSession"
      BY <1>0, <1>1, <1>4, <1>5, <2>2, <2>4, <3>1, <3>2 DEF SeatOwed
    <3>3. CASE x.ev # "terminateSession"
      BY <1>3, <1>4, <1>5, <2>1, <2>2, <2>3, <3>1, <3>3 DEF SeatOwed
    <3>4. QED
      BY <3>2, <3>3
  <2>7. \A w : EndIsDue(p, w)' <=> EndIsDue(p, w)
    BY <1>0, <1>12, EndsAfterProceed
  <2>8. ASSUME NEW w \in Workers PROVE Overtaking(p, w)'
    <3>1. Overtaking(p, w) /\ Overtaking(p, x.worker)
      BY <1>3, <1>7
    <3>2. SUFFICES ASSUME Routed(p, w), controllerToHost[p] # None
                   PROVE  Overtaking(p, w)'
      BY <1>1, <1>5, <2>2, <3>1 DEF Overtaking, Routed
    <3>3. x.ev \in {"joinRoom", "input"}
      BY <1>8, <2>1, <3>2
    <3>4. x.worker = w
      BY <2>3, <3>1, <3>2, <3>3 DEF Overtaking, Routed
    <3>5. CASE EndIsDue(p, w)
      BY <1>1, <1>5, <1>6, <2>1, <2>2, <2>7, <3>1, <3>3, <3>4, <3>5 DEF Overtaking
    <3>6. CASE ~EndIsDue(p, w)
      BY <1>1, <1>5, <1>6, <2>1, <2>2, <2>7, <3>1, <3>3, <3>4, <3>6 DEF Overtaking
    <3>7. QED
      BY <3>5, <3>6
  <2>9. QED
    BY <2>5, <2>6, <2>8
<1>13. QED
  BY <1>10, <1>11, <1>12
(* No other step of a task concerns a phone's seat: a host that registers  *)
(* finds its phones routed to its room already (controllers.rs:112-123).   *)
LEMMA ProceedKeepsSeats ==
    ASSUME BInv, BInv', TableInv, WorkFits, HostsAtHome, HostsAtHome', SeatsFit,
           NEW q \in Peers, Proceed(q), NEW p \in Phones
    PROVE  RouteSeated(p)' /\ \A w \in Workers : (SeatOwed(p, w) /\ Overtaking(p, w))'
<1>0. /\ IInv /\ TypeOK /\ C!TypeOK /\ [Next]_vars
      /\ p \in Peers /\ p \notin Screens
  BY RolesAssumption DEF BInv, IInv, TypeOK, Next, Peers, Browsers
<1>1. CASE SendToWorker(q)
  BY <1>1, DeliveryKeepsSeats
<1>2. CASE ~SendToWorker(q)
  <2>0. todo[q] # <<>> /\ Head(todo[q]) \in Work(q)
    BY <1>0, TaskGoesOn, NextIsWork
  <2>1. room' = room
    BY <1>2 DEF Proceed, SendToClient, DoBind, DoUnbind, DoHost, DoUnregister,
       DoReadGames, DoBroadcast, DoGreet
  <2>2. controllerToHost'[p] = controllerToHost[p]
    <3>1. CASE DoHost(q)
      <4>1. q \in Screens /\ Head(todo[q]).worker = plays[q]
        BY <2>0, <3>1 DEF DoHost, NextIs, Work, ScreenWork, PhoneWork, WorkerWork
      <4>2. controllerToHost' = C!RoutesRefreshed(q, plays[q])
        BY <3>1, <4>1 DEF DoHost, C!RegisterHost
      <4>3. CASE controllerToHost[p] # None /\ controllerToHost[p].host = q
        <5>1. controllerToHost[p].worker = plays[q]
          BY <1>0, <4>3, RoutesLeadHome
        <5>2. controllerToHost[p] = [host |-> q, worker |-> plays[q]]
          BY <1>0, <4>3, <5>1 DEF C!TypeOK, C!ControllerRoute
        <5>3. QED
          BY <4>2, <4>3, <5>2 DEF C!RoutesRefreshed
      <4>4. CASE ~(controllerToHost[p] # None /\ controllerToHost[p].host = q)
        BY <4>2, <4>4 DEF C!RoutesRefreshed
      <4>5. QED
        BY <4>3, <4>4
    <3>2. CASE ~DoHost(q)
      BY <1>2, <3>2 DEF Proceed, SendToClient, DoBind, DoUnbind, DoUnregister,
         DoReadGames, DoBroadcast, DoGreet, tableVars
    <3>3. QED
      BY <3>1, <3>2
  <2>3. ASSUME NEW w, NEW ev PROVE Sends(p, w, ev)' <=> Sends(p, w, ev)
    <3>1. CASE q # p
      BY <1>0, <3>1, TaskGoesOn, SendsOfOneStep
    <3>2. CASE q = p
      <4>1. Head(todo[q]).op # "toWorker"
        BY <1>2, StepTaken
      <4>2. Head(todo[p]) # ToWorker(w, p, ev)
        BY <3>2, <4>1 DEF ToWorker
      <4>3. QED
        BY <1>0, <3>2, <4>2, SendsAfterProceed
    <3>3. QED
      BY <3>1, <3>2
  <2>4. ASSUME NEW w PROVE EndIsDue(p, w)' <=> EndIsDue(p, w)
    <3>1. Head(todo[q]).op # "toWorker"
      BY <1>2, StepTaken
    <3>2. Head(todo[q]) # ToWorker(w, p, "terminateSession")
      BY <3>1 DEF ToWorker
    <3>3. QED
      BY <1>0, <3>2, EndsAfterProceed
  <2>5. overtaken' = overtaken
    BY <1>2 DEF Proceed, SendToClient, DoBind, DoUnbind, DoHost, DoUnregister,
       DoReadGames, DoBroadcast, DoGreet
  <2>6. QED
    BY <1>0, <2>1, <2>2, <2>3, <2>4, <2>5, PhoneUndisturbed
<1>3. QED
  BY <1>1, <1>2

(* A browser that leaves has only the ends of its own session and of those *)
(* of the phones routed to it to send (ws.rs:464-485).                     *)
LEMMA LeavingEndsOwn ==
    ASSUME IInv, TableInv, HostsAtHome, NEW b \in Browsers, Leave(b),
           NEW p \in Phones, p # b, controllerToHost[p] # None => controllerToHost[p].host # b,
           NEW w
    PROVE  EndIsDue(p, w)' <=> EndIsDue(p, w)
<1>0. /\ C!TypeOK /\ b \in Peers /\ todo \in [Peers -> Seq(Step)]
      /\ Screens \subseteq Peers
  BY DEF IInv, TypeOK, Peers, Browsers
<1>1. todo[b] = <<>>
  BY DEF Leave, Idle
<1> DEFINE m == ToWorker(w, p, "terminateSession")
           u == Do("unregister")
           T == {x \in Step : x # m}
<1>2. ASSUME NEW r \in Phones, NEW s \in Screens
      PROVE  ToClient(r, "left", s) \in T /\ ToClient(s, "left", r) \in T
  <2>1. /\ ToClient(r, "left", s) \in Step /\ ToClient(s, "left", r) \in Step
        /\ ToClient(r, "left", s).op # "toWorker" /\ ToClient(s, "left", r).op # "toWorker"
        /\ m.op = "toWorker"
    BY <1>0, StepsBuilt DEF StepOf, ToClient, ToWorker
  <2>2. QED
    BY <2>1
<1>3. ASSUME NEW r \in Phones, controllerToHost[r] # None,
             r = b \/ controllerToHost[r].host = b
      PROVE  ToWorker(controllerToHost[r].worker, r, "terminateSession") \in T
  <2>1. controllerToHost[r].worker \in Workers
    BY <1>3, RoutesLeadHome
  <2>2. ToWorker(controllerToHost[r].worker, r, "terminateSession") \in Step
    BY <1>0, <2>1, StepsBuilt DEF StepOf, WorkerEvents, Browsers
  <2>3. ToWorker(controllerToHost[r].worker, r, "terminateSession") # m
    BY <1>3 DEF ToWorker
  <2>4. QED
    BY <2>2, <2>3
<1>4. m # u /\ m' = m
  BY DEF ToWorker, Do
<1>5. \A x \in T : x # m
  OBVIOUS
<1>6. Pending(b, m)' <=> \E i \in DOMAIN todo'[b] : todo'[b][i] = m
  BY <1>4 DEF Pending
<1> HIDE DEF T, m
<1>7. PICK h \in Seq(T) : Schedule(b, <<Do("unregister")>> \o h)
  BY <1>2, <1>3, LeavingTells
<1>8. todo'[b] = <<u>> \o h
  BY <1>0, <1>7 DEF Schedule
<1> HIDE DEF u
<1>9. \A i \in DOMAIN todo'[b] : todo'[b][i] # m
  BY <1>4, <1>5, <1>7, <1>8
<1>10. ~Pending(b, m) /\ ~Pending(b, m)'
  BY <1>1, <1>6, <1>9 DEF Pending
<1>11. \A s \in Screens : s # b => (Pending(s, m)' <=> Pending(s, m))
  BY <1>0, <1>4, <1>7 DEF Pending, Schedule
<1>12. /\ EndIsDue(p, w) <=> \E s \in Screens : Pending(s, m)
       /\ EndIsDue(p, w)' <=> \E s \in Screens : Pending(s, m)'
  BY DEF EndIsDue, m
<1>13. QED
  BY <1>10, <1>11, <1>12

(* A browser that leaves: a phone's route turns into the end of its        *)
(* session on its way; the phones of a host lose their routes, and from    *)
(* then on a screen of their room has left (ws.rs:456-485).                *)
LEMMA LeaveKeepsSeats ==
    ASSUME BInv, BInv', TableInv, HostsAtHome, HostsAtHome', SeatsFit,
           NEW b \in Browsers, Leave(b), NEW p \in Phones
    PROVE  RouteSeated(p)' /\ \A w \in Workers : (SeatOwed(p, w) /\ Overtaking(p, w))'
<1>0. /\ IInv /\ C!TypeOK /\ [Next]_vars
      /\ p \in Peers /\ p \in Browsers /\ b \in Peers /\ p \notin Screens
      /\ Screens \subseteq Peers
      /\ todo \in [Peers -> Seq(Step)] /\ link \in [Peers -> {"new", "open", "gone"}]
      /\ RouteSeated(p) /\ \A w \in Workers : SeatOwed(p, w) /\ Overtaking(p, w)
  BY RolesAssumption DEF BInv, IInv, TypeOK, Next, SeatsFit, Peers, Browsers
<1>1. /\ todo[b] = <<>> /\ link' = [link EXCEPT ![b] = "gone"]
      /\ UNCHANGED <<workers, plays, room, lastWorker, overtaken>>
  BY DEF Leave, Idle, LeaveAsPhone, LeaveAsHost, C!CleanupController, C!CleanupHost,
     registryVars
<1>2. \A w : Excused(w) => Excused(w)'
  BY <1>0, ExcusesLast
<1>3. CASE b # p
  <2>1. todo'[p] = todo[p]
    BY <1>0, <1>3 DEF Leave, LeaveAsPhone, LeaveAsHost, Schedule
  <2>2. \A w, ev : Sends(p, w, ev)' <=> Sends(p, w, ev)
    BY <2>1, SendsOfOneStep
  <2>3. CASE controllerToHost'[p] = controllerToHost[p]
    <3>1. ASSUME NEW w, ~(controllerToHost[p] # None /\ controllerToHost[p].host = b)
          PROVE  EndIsDue(p, w)' <=> EndIsDue(p, w)
      BY <1>0, <1>3, <3>1, LeavingEndsOwn
    <3>2. ASSUME controllerToHost[p] # None, controllerToHost[p].host = b
          PROVE  FALSE
      <4>1. b \in Screens
        BY <1>0, <3>2, RoutesLeadHome
      <4>2. C!CleanupHost(b)
        BY <4>1, RolesAssumption
           DEF Leave, LeaveAsPhone, LeaveAsHost, C!CleanupController, C!IsRouted
      <4>3. p \in C!RoutedTo(b)
        BY <3>2 DEF C!RoutedTo, C!IsRouted
      <4>4. controllerToHost'[p] = None
        BY <4>2, <4>3 DEF C!CleanupHost
      <4>5. QED
        BY <2>3, <3>2, <4>4
    <3>3. QED
      BY <1>0, <1>1, <2>2, <2>3, <3>1, <3>2, PhoneUndisturbed
  <2>4. CASE controllerToHost'[p] # controllerToHost[p]
    <3>1. /\ controllerToHost'[p] = None
          /\ controllerToHost[p] # None /\ controllerToHost[p].host = b
      BY <1>0, <1>3, <2>4 DEF Leave, LeaveAsPhone, LeaveAsHost, C!CleanupController,
         C!CleanupHost, C!RoutedTo, C!TypeOK
    <3>2. b \in Screens /\ controllerToHost[p].worker = plays[b]
      BY <1>0, <3>1, RoutesLeadHome
    <3>3. \A w : Routed(p, w) => Excused(w)'
      BY <1>0, <1>1, <3>2 DEF Routed, Excused
    <3>4. \A w \in Workers : SeatOwed(p, w)'
      BY <1>0, <1>1, <1>2, <2>2, <3>3 DEF SeatOwed
    <3>5. QED
      BY <3>1, <3>4 DEF RouteSeated, Overtaking, Routed
  <2>5. QED
    BY <2>3, <2>4
<1>4. CASE b = p
  <2>1. controllerToHost'[p] = None
    BY <1>0, <1>4 DEF Leave, LeaveAsPhone, LeaveAsHost, C!CleanupController, C!CleanupHost,
       C!IsRouted, C!TypeOK, C!RoutedTo
  <2>2. \A w, ev : ~Sends(p, w, ev)
    BY <1>1, <1>4, SendsOfOneStep
  <2>3. ASSUME NEW w \in Workers, NEW ev \in {"joinRoom", "input"}
        PROVE  ~Sends(p, w, ev)'
    <3> DEFINE T == {x \in Step : x # ToWorker(w, p, ev)}
    <3>1. ASSUME NEW r \in Phones, NEW s \in Screens
          PROVE  ToClient(r, "left", s) \in T /\ ToClient(s, "left", r) \in T
      <4>1. /\ ToClient(r, "left", s) \in Step /\ ToClient(s, "left", r) \in Step
            /\ ToClient(r, "left", s).op # "toWorker" /\ ToClient(s, "left", r).op # "toWorker"
            /\ ToWorker(w, p, ev).op = "toWorker"
        BY <1>0, StepsBuilt DEF StepOf, ToClient, ToWorker
      <4>2. QED
        BY <4>1
    <3>2. ASSUME NEW r \in Phones, controllerToHost[r] # None
          PROVE  ToWorker(controllerToHost[r].worker, r, "terminateSession") \in T
      <4>1. controllerToHost[r].worker \in Workers
        BY <1>0, <3>2, RoutesLeadHome
      <4>2. ToWorker(controllerToHost[r].worker, r, "terminateSession") \in Step
        BY <1>0, <4>1, StepsBuilt DEF StepOf, WorkerEvents, Browsers
      <4>3. ToWorker(controllerToHost[r].worker, r, "terminateSession") # ToWorker(w, p, ev)
        BY <2>3 DEF ToWorker
      <4>4. QED
        BY <4>2, <4>3
    <3>3. ToWorker(w, p, ev) # Do("unregister")
      BY DEF ToWorker, Do
    <3>4. \A x \in T : x # ToWorker(w, p, ev)
      OBVIOUS
    <3> HIDE DEF T
    <3>5. PICK h \in Seq(T) : Schedule(b, <<Do("unregister")>> \o h)
      BY <1>0, <3>1, <3>2, LeavingTells
    <3> DEFINE m == ToWorker(w, p, ev)
               u == Do("unregister")
    <3>6. todo'[p] = <<u>> \o h
      BY <1>0, <1>4, <3>5 DEF Schedule
    <3>7. m # u /\ \A x \in T : x # m
      BY <3>3, <3>4
    <3> HIDE DEF m, u
    <3>8. \A i \in DOMAIN todo'[p] : todo'[p][i] # m
      BY <3>5, <3>6, <3>7
    <3>9. Sends(p, w, ev)' <=> \E i \in DOMAIN todo'[p] : todo'[p][i] = m
      BY DEF Sends, Pending, ToWorker, m
    <3>10. QED
      BY <3>8, <3>9
  <2>4. ASSUME NEW w \in Workers, Routed(p, w)
        PROVE  Sends(p, w, "terminateSession")'
    <3>1. LeaveAsPhone(b)
      BY <1>4, <2>4 DEF Leave, LeaveAsHost, C!CleanupHost, C!IsRouted, Routed
    <3>2. todo'[p] = <<Do("unregister"), ToClient(controllerToHost[b].host, "left", b),
                       ToWorker(controllerToHost[b].worker, b, "terminateSession")>>
      BY <1>0, <1>4, <3>1 DEF LeaveAsPhone, Schedule
    <3>3. 3 \in DOMAIN todo'[p] /\ todo'[p][3] = ToWorker(w, p, "terminateSession")
      BY <1>4, <2>4, <3>2 DEF Routed
    <3>4. QED
      BY <3>3 DEF Sends, Pending, ToWorker
  <2>5. ASSUME NEW w \in Workers
        PROVE  SeatOwed(p, w)'
    BY <1>0, <1>1, <1>2, <2>2, <2>3, <2>4 DEF SeatOwed
  <2>6. QED
    BY <2>1, <2>5 DEF RouteSeated, Overtaking, Routed
<1>5. QED
  BY <1>3, <1>4

(* A phone that joins is about to be seated by its host's room; if it had  *)
(* a slot in another room, a screen has offered to host that is not of     *)
(* that one (ws.rs:223-256).                                               *)
LEMMA JoinKeepsSeats ==
    ASSUME BInv, BInv', TableInv, HostsAtHome, HostsAtHome', SeatsFit,
           NEW q \in Phones, NEW c \in Codes, ControllerJoin(q, c), NEW p \in Phones
    PROVE  RouteSeated(p)' /\ \A w \in Workers : (SeatOwed(p, w) /\ Overtaking(p, w))'
<1>0. /\ IInv /\ C!TypeOK /\ [Next]_vars
      /\ p \in Peers /\ q \in Peers
      /\ todo \in [Peers -> Seq(Step)]
      /\ RouteSeated(p) /\ \A w \in Workers : SeatOwed(p, w) /\ Overtaking(p, w)
  BY DEF BInv, IInv, TypeOK, Next, SeatsFit, Peers, Browsers
<1>1. /\ todo[q] = <<>>
      /\ UNCHANGED <<workers, link, plays, room, lastWorker>>
  BY DEF ControllerJoin, Idle, C!JoinAccepted, C!JoinRefused, registryVars
<1>a. \A w : EndIsDue(p, w)' <=> EndIsDue(p, w)
  <2>1. \A s \in Screens : todo'[s] = todo[s]
    BY <1>0, RolesAssumption DEF ControllerJoin, Schedule, Peers, Browsers
  <2>2. QED
    BY <2>1, EndsOfIdleScreens
<1>2. CASE p # q
  <2>1. todo'[p] = todo[p] /\ controllerToHost'[p] = controllerToHost[p]
    BY <1>0, <1>2 DEF ControllerJoin, C!JoinAccepted, C!JoinRefused, Schedule, C!TypeOK
  <2>2. p \in overtaken' <=> p \in overtaken
    BY <1>2 DEF ControllerJoin, NotePaired
  <2>3. QED
    BY <1>0, <1>1, <1>a, <2>1, <2>2, SendsOfOneStep, PhoneUndisturbed
<1>3. CASE p = q /\ C!JoinRefused(q, c)
  <2>1. ~C!Live(c) /\ controllerToHost' = controllerToHost
    BY <1>3 DEF C!JoinRefused
  <2>2. todo'[p] = <<ToClient(p, "rejected", None)>>
    BY <1>0, <1>3, <2>1 DEF ControllerJoin, C!JoinAccepted, Schedule
  <2>3. ToClient(p, "rejected", None).op # "toWorker"
    BY DEF ToClient
  <2>4. \A w, ev : Sends(p, w, ev)' <=> Sends(p, w, ev)
    BY <1>1, <1>3, <2>2, <2>3, SendsOfOneStep
  <2>5. overtaken' = overtaken
    BY <2>1 DEF ControllerJoin, C!JoinAccepted
  <2>6. QED
    BY <1>0, <1>1, <1>a, <2>1, <2>4, <2>5, PhoneUndisturbed
<1>4. CASE p = q /\ C!JoinAccepted(q, c)
  <2>0. PICK h, v : h = codeToHost[c].host /\ v = codeToHost[c].worker
    OBVIOUS
  <2>1. /\ C!Live(c)
        /\ controllerToHost'[p] = [host |-> h, worker |-> v]
    BY <1>0, <1>4, <2>0 DEF C!JoinAccepted, C!TypeOK
  <2>2. h \in Screens /\ v \in Workers /\ v = lastWorker[h]
    BY <1>0, <2>0, <2>1, RoutesLeadHome
  <2>3. todo'[p] = <<ToClient(p, "joined", h), ToClient(h, "joined", p),
                     ToWorker(v, p, "joinRoom")>>
    BY <1>0, <1>4, <2>0, <2>1 DEF ControllerJoin, C!JoinRefused, Schedule
  <2>4. controllerToHost'[p] # None
    BY <2>1, <2>2, NoneAssumption
  <2>5. Sends(p, v, "joinRoom")'
    <3>1. 3 \in DOMAIN todo'[p] /\ todo'[p][3] = ToWorker(v, p, "joinRoom")
      BY <2>3
    <3>2. QED
      BY <3>1 DEF Sends, Pending, ToWorker
  <2>6. ASSUME NEW w, NEW ev, Sends(p, w, ev)'
        PROVE  w = v
    <3>1. PICK i \in 1..3 : todo'[p][i] = ToWorker(w, p, ev)
      BY <2>3, <2>6 DEF Sends, Pending, ToWorker
    <3>2. todo'[p][1].op = "toClient" /\ todo'[p][2].op = "toClient"
      BY <2>3 DEF ToClient
    <3>3. todo'[p][3] = ToWorker(v, p, "joinRoom") /\ ToWorker(w, p, ev).op = "toWorker"
      BY <2>3 DEF ToWorker
    <3>4. ToWorker(w, p, ev) = ToWorker(v, p, "joinRoom")
      BY <3>1, <3>2, <3>3
    <3>5. QED
      BY <3>4 DEF ToWorker
  <2>7. Routed(p, v)'
    BY <2>1, <2>4 DEF Routed
  <2>8. RouteSeated(p)'
    BY <2>1, <2>5 DEF RouteSeated
  <2>9. ASSUME NEW w \in Workers PROVE SeatOwed(p, w)'
    <3>1. CASE w = v
      BY <2>7, <3>1 DEF SeatOwed
    <3>2. CASE w # v
      <4>1. Excused(w)'
        BY <1>1, <2>2, <3>2, NoneAssumption DEF Excused
      <4>2. QED
        BY <4>1 DEF SeatOwed
    <3>3. QED
      BY <3>1, <3>2
  <2>10. overtaken' = IF EndIsDue(p, v) THEN overtaken \cup {p} ELSE overtaken \ {p}
    BY <1>4, <2>0, <2>1 DEF ControllerJoin, C!JoinRefused, NotePaired
  <2>11. ASSUME NEW w \in Workers PROVE Overtaking(p, w)'
    <3>1. Routed(p, w)' => w = v
      BY <2>1 DEF Routed
    <3>2. \A ev : Sends(p, w, ev)' => Routed(p, w)'
      BY <2>6, <2>7
    <3>3. CASE EndIsDue(p, v)
      <4>1. p \in overtaken'
        BY <2>10, <3>3
      <4>2. w = v => EndIsDue(p, w)'
        BY <1>a, <3>3
      <4>3. QED
        BY <3>1, <3>2, <4>1, <4>2 DEF Overtaking
    <3>4. CASE ~EndIsDue(p, v)
      <4>1. p \notin overtaken'
        BY <2>10, <3>4
      <4>2. w = v => ~EndIsDue(p, w)'
        BY <1>a, <3>4
      <4>3. QED
        BY <3>1, <3>2, <4>1, <4>2 DEF Overtaking
    <3>5. QED
      BY <3>3, <3>4
  <2>12. QED
    BY <2>8, <2>9, <2>11
<1>5. QED
  BY <1>2, <1>3, <1>4 DEF ControllerJoin

(* An input is sent on to the worker of the route, so that a phone it      *)
(* seats is routed there (ws.rs:258-270).                                  *)
LEMMA InputKeepsSeats ==
    ASSUME BInv, BInv', TableInv, HostsAtHome, HostsAtHome', SeatsFit,
           NEW q \in Phones, NEW h \in Screens, ControllerInput(q, h), NEW p \in Phones
    PROVE  RouteSeated(p)' /\ \A w \in Workers : (SeatOwed(p, w) /\ Overtaking(p, w))'
<1>0. /\ IInv /\ C!TypeOK /\ [Next]_vars
      /\ p \in Peers /\ q \in Peers
      /\ todo \in [Peers -> Seq(Step)]
      /\ RouteSeated(p) /\ \A w \in Workers : SeatOwed(p, w) /\ Overtaking(p, w)
  BY DEF BInv, IInv, TypeOK, Next, SeatsFit, Peers, Browsers
<1>1. /\ todo[q] = <<>>
      /\ UNCHANGED <<workers, link, plays, room, controllerToHost, lastWorker, overtaken>>
  BY DEF ControllerInput, Idle, tableVars, registryVars
<1>a. \A w : EndIsDue(p, w)' <=> EndIsDue(p, w)
  <2>1. \A s \in Screens : todo'[s] = todo[s]
    BY <1>0, RolesAssumption DEF ControllerInput, Schedule, Peers, Browsers
  <2>2. QED
    BY <2>1, EndsOfIdleScreens
<1>2. CASE p # q
  <2>1. todo'[p] = todo[p]
    BY <1>0, <1>2 DEF ControllerInput, Schedule
  <2>2. QED
    BY <1>0, <1>1, <1>a, <2>1, SendsOfOneStep, PhoneUndisturbed
<1>3. CASE p = q
  <2> DEFINE v == controllerToHost[p].worker
  <2>1. controllerToHost[p] # None /\ C!WorkerForInput(p, h) = v
    BY <1>3 DEF ControllerInput, C!WorkerForInput
  <2>2. todo'[p] = <<ToWorker(v, p, "input")>>
    BY <1>0, <1>3, <2>1 DEF ControllerInput, Schedule
  <2>3. \A w, ev : ~Sends(p, w, ev)
    BY <1>1, <1>3, SendsOfOneStep
  <2>4. RouteSeated(p)'
    BY <1>0, <1>1, <2>3 DEF RouteSeated
  <2>5. \A w, ev : Sends(p, w, ev)' => w = v
    BY <2>2 DEF Sends, Pending, ToWorker
  <2>6. \A w : (Excused(w)' <=> Excused(w)) /\ (Routed(p, w)' <=> Routed(p, w))
    BY <1>1 DEF Excused, Routed
  <2>7. ASSUME NEW w \in Workers PROVE SeatOwed(p, w)'
    BY <1>0, <1>1, <2>1, <2>3, <2>5, <2>6 DEF SeatOwed, Routed
  <2>8. ASSUME NEW w \in Workers PROVE Overtaking(p, w)'
    <3>1. Overtaking(p, w)
      BY <1>0
    <3>2. \A ev : Sends(p, w, ev)' => Routed(p, w)'
      BY <1>1, <2>1, <2>5 DEF Routed
    <3>3. QED
      BY <1>1, <1>a, <2>6, <3>1, <3>2 DEF Overtaking
  <2>9. QED
    BY <2>4, <2>7, <2>8
<1>4. QED
  BY <1>2, <1>3

(* What is left does not concern routes or seats, but for a worker's       *)
(* departure, which empties its room.                                      *)
LEMMA OthersKeepSeats ==
    ASSUME BInv, BInv', TableInv, WorkFits, HostsAtHome, HostsAtHome', SeatsFit,
           [Next]_vars, NEW p \in Phones,
           \A q \in Peers : ~Proceed(q), \A b \in Browsers : ~Leave(b),
           \A q \in Phones, c \in Codes : ~ControllerJoin(q, c),
           \A q \in Phones, h \in Screens : ~ControllerInput(q, h)
    PROVE  RouteSeated(p)' /\ \A w \in Workers : (SeatOwed(p, w) /\ Overtaking(p, w))'
<1>0. /\ IInv
      /\ p \in Peers /\ p \notin Screens /\ p \notin Workers
      /\ Browsers \subseteq Peers
      /\ todo \in [Peers -> Seq(Step)] /\ room \in [Workers -> SUBSET Browsers]
  BY RolesAssumption DEF BInv, IInv, TypeOK, Peers, Browsers
<1>b. overtaken' = overtaken
  BY HistoryStep DEF Proceed
<1>c. ASSUME NEW q \in Peers, NEW steps, Schedule(q, steps), todo[q] = <<>>,
             \A w : \A i \in DOMAIN steps : steps[i] # ToWorker(w, p, "terminateSession")
      PROVE  \A w : EndIsDue(p, w)' <=> EndIsDue(p, w)
  <2> SUFFICES ASSUME NEW w PROVE EndIsDue(p, w)' <=> EndIsDue(p, w)
    OBVIOUS
  <2> DEFINE m == ToWorker(w, p, "terminateSession")
  <2>1. todo'[q] = steps /\ \A s \in Screens : s # q => todo'[s] = todo[s]
    BY <1>0, <1>c DEF Schedule, Browsers
  <2>2. /\ \A s \in Screens : Pending(s, m)' <=> \E i \in DOMAIN todo'[s] : todo'[s][i] = m
        /\ \A s \in Screens : Pending(s, m) <=> \E i \in DOMAIN todo[s] : todo[s][i] = m
        /\ EndIsDue(p, w) <=> \E s \in Screens : Pending(s, m)
        /\ EndIsDue(p, w)' <=> \E s \in Screens : Pending(s, m)'
        /\ \A i \in DOMAIN steps : steps[i] # m
    BY <1>c DEF Pending, EndIsDue, ToWorker
  <2> HIDE DEF m
  <2>3. \A s \in Screens : Pending(s, m)' <=> Pending(s, m)
    BY <1>c, <2>1, <2>2
  <2>4. QED
    BY <2>2, <2>3
<1>a. ASSUME controllerToHost'[p] = controllerToHost[p],
             \A w \in Workers : w \in workers' => room'[w] = room[w],
             todo'[p] = todo[p], \A w : EndIsDue(p, w)' <=> EndIsDue(p, w)
      PROVE  RouteSeated(p)' /\ \A w \in Workers : (SeatOwed(p, w) /\ Overtaking(p, w))'
  BY <1>a, <1>b, SendsOfOneStep, PhoneUndisturbed
<1>1. ASSUME NEW b \in Browsers, ConnectBrowser(b) \/ RequestGames(b)
      PROVE  RouteSeated(p)' /\ \A w \in Workers : (SeatOwed(p, w) /\ Overtaking(p, w))'
  <2>1. UNCHANGED <<controllerToHost, room>>
    BY <1>1 DEF ConnectBrowser, RequestGames, tableVars
  <2>2. todo[b] = <<>>
    BY <1>1 DEF ConnectBrowser, RequestGames, Idle, WorkFits
  <2>3. PICK x : Schedule(b, <<x>>) /\ x.op # "toWorker"
    BY <1>1 DEF ConnectBrowser, RequestGames, Do, ToClient
  <2>4. \A w : EndIsDue(p, w)' <=> EndIsDue(p, w)
    <3>1. \A w : x # ToWorker(w, p, "terminateSession")
      BY <2>3 DEF ToWorker
    <3>2. \A i \in DOMAIN <<x>> : <<x>>[i] = x
      OBVIOUS
    <3>3. QED
      BY <1>0, <1>c, <2>2, <2>3, <3>1, <3>2
  <2>5. CASE b # p
    BY <1>0, <1>a, <2>1, <2>3, <2>4, <2>5 DEF Schedule
  <2>6. CASE b = p
    <3>1. todo'[p] = <<x>>
      BY <1>0, <2>3, <2>6 DEF Schedule
    <3>2. \A w, ev : Sends(p, w, ev)' <=> Sends(p, w, ev)
      BY <2>2, <2>3, <2>6, <3>1, SendsOfOneStep
    <3>3. QED
      BY <1>b, <2>1, <2>4, <3>2, PhoneUndisturbed
  <2>7. QED
    BY <2>5, <2>6
<1>2. ASSUME NEW w \in Workers, ConnectWorker(w) \/ WorkerLeaves(w)
      PROVE  RouteSeated(p)' /\ \A v \in Workers : (SeatOwed(p, v) /\ Overtaking(p, v))'
  <2>1. controllerToHost' = controllerToHost /\ todo'[p] = todo[p]
    BY <1>0, <1>2 DEF ConnectWorker, WorkerLeaves, tableVars, Schedule
  <2>2. \A v \in Workers : v \in workers' => room'[v] = room[v]
    BY <1>0, <1>2 DEF ConnectWorker, WorkerLeaves, R!UnregisterWorker
  <2>3. \A s \in Screens : todo'[s] = todo[s]
    BY <1>0, <1>2, RolesAssumption DEF ConnectWorker, WorkerLeaves, Schedule, Browsers
  <2>4. QED
    BY <1>a, <2>1, <2>2, <2>3, EndsOfIdleScreens
<1>3. ASSUME NEW s \in Screens,
             \/ \E ev \in BindingEvents : OpenRoom(s, ev)
             \/ \E ev \in WorkerEvents : Relay(s, ev)
             \/ \E target \in Workers \cup {None} : Terminate(s, target)
             \/ ControllerHost(s)
      PROVE  RouteSeated(p)' /\ \A w \in Workers : (SeatOwed(p, w) /\ Overtaking(p, w))'
  <2>1. UNCHANGED <<controllerToHost, room>> /\ todo'[p] = todo[p]
    BY <1>0, <1>3 DEF OpenRoom, Relay, Terminate, ControllerHost, tableVars, Schedule
  <2>2. PICK steps : /\ Schedule(s, steps) /\ todo[s] = <<>>
                     /\ \A i \in DOMAIN steps : steps[i].op = "toWorker" => steps[i].peer = s
    <3>1. ASSUME NEW x, NEW y, x.op = "toWorker" => x.peer = s, y.op = "toWorker" => y.peer = s
          PROVE  /\ \A i \in DOMAIN <<x>> : <<x>>[i].op = "toWorker" => <<x>>[i].peer = s
                 /\ \A i \in DOMAIN <<x, y>> :
                        <<x, y>>[i].op = "toWorker" => <<x, y>>[i].peer = s
      BY <3>1
    <3>2. /\ \A w, ev : ToWorker(w, s, ev).peer = s
          /\ \A w : Bind(w).op # "toWorker" /\ Host(w).op # "toWorker"
          /\ Do("unbind").op # "toWorker"
      BY DEF ToWorker, Bind, Host, Do
    <3>3. todo[s] = <<>>
      BY <1>3 DEF OpenRoom, Relay, Terminate, ControllerHost, Idle
    <3>4. \/ \E w, ev : Schedule(s, <<ToWorker(w, s, ev)>>)
          \/ \E w, ev : Schedule(s, <<Bind(w), ToWorker(w, s, ev)>>)
          \/ \E w, ev : Schedule(s, <<ToWorker(w, s, ev), Do("unbind")>>)
          \/ \E w : Schedule(s, <<Host(w)>>)
      BY <1>3 DEF OpenRoom, Relay, Terminate, ControllerHost
    <3>5. QED
      BY <3>1, <3>2, <3>3, <3>4
  <2>3. \A w : \A i \in DOMAIN steps : steps[i] # ToWorker(w, p, "terminateSession")
    BY <1>0, <2>2 DEF ToWorker
  <2>4. s \in Peers
    BY <1>0 DEF Browsers
  <2>5. QED
    BY <1>a, <1>c, <2>1, <2>2, <2>3, <2>4
<1>4. ASSUME NEW w \in Workers,
             \/ \E g \in GameNames : GameInfo(w, g)
             \/ \E n \in Counts : UpdatePlayerCount(w, n)
      PROVE  RouteSeated(p)' /\ \A v \in Workers : (SeatOwed(p, v) /\ Overtaking(p, v))'
  <2>1. UNCHANGED <<controllerToHost, room>> /\ todo'[p] = todo[p]
    BY <1>0, <1>4 DEF GameInfo, UpdatePlayerCount, tableVars, Schedule
  <2>2. \A s \in Screens : todo'[s] = todo[s]
    BY <1>0, <1>4, RolesAssumption DEF GameInfo, UpdatePlayerCount, Schedule, Browsers
  <2>3. QED
    BY <1>a, <2>1, <2>2, EndsOfIdleScreens
<1>5. CASE CodesAge \/ UNCHANGED vars
  <2>1. UNCHANGED <<controllerToHost, room, todo>>
    BY <1>5 DEF CodesAge, C!Tick, vars, tableVars
  <2>2. QED
    BY <1>a, <2>1, EndsOfIdleScreens
<1>6. QED
  BY <1>1, <1>2, <1>3, <1>4, <1>5 DEF Next

-----------------------------------------------------------------------------
(* Every step keeps routes and slots fitting, given what is proved of the  *)
(* bindings and of the table.                                              *)
LEMMA PInvStep ==
    ASSUME BInv, BInv', TableInv, PInv, [Next]_vars
    PROVE  PInv'
<1>1. WorkFits'
  BY WorkFitsStep DEF PInv
<1>2. HostsAtHome'
  BY HostsAtHomeStep DEF PInv
<1>3. ASSUME NEW p \in Phones
      PROVE  RouteSeated(p)' /\ \A w \in Workers : (SeatOwed(p, w) /\ Overtaking(p, w))'
  BY <1>2, ProceedKeepsSeats, LeaveKeepsSeats, JoinKeepsSeats, InputKeepsSeats,
     OthersKeepSeats DEF PInv
<1>4. QED
  BY <1>1, <1>2, <1>3 DEF PInv, SeatsFit

(* No phone is routed or seated, and no task has begun, at the start.      *)
LEMMA PInvInit == Init => PInv
<1> SUFFICES ASSUME Init PROVE PInv
  OBVIOUS
<1>0. /\ Screens \subseteq Browsers /\ Phones \subseteq Browsers
      /\ Browsers \subseteq Peers /\ Workers \subseteq Peers
  BY DEF Peers, Browsers
<1>1. WorkFits
  BY <1>0 DEF Init, WorkFits
<1>2. HostsAtHome
  BY <1>0 DEF Init, C!Init, R!Init, HostsAtHome, Browsers
<1>3. \A p \in Phones : RouteSeated(p) /\ \A w \in Workers : SeatOwed(p, w) /\ Overtaking(p, w)
  BY <1>0 DEF Init, C!Init, RouteSeated, SeatOwed, Overtaking, Routed, Sends, Pending
<1>4. QED
  BY <1>1, <1>2, <1>3 DEF PInv, SeatsFit

(* The invariant holds, given what is proved of bindings and of the table. *)
LEMMA PInvHolds == Spec => [](BInv /\ TableInv /\ PInv)
<1>1. Spec => []TableInv
  BY TableInvariantsHold, PTL DEF TableInv
<1>2. BInv /\ BInv' /\ TableInv /\ PInv /\ [Next]_vars => PInv'
  BY PInvStep
<1>3. QED
  BY <1>1, <1>2, PInvInit, BInvHolds, PTL DEF Spec

(* Between handlers a phone with a route to a live worker is one of the    *)
(* players that worker holds, unless it paired again there while its own   *)
(* end by a host that left was due, and then it is not: no interleaving of *)
(* joins, inputs, refreshes of the code and departures of other screens    *)
(* leaves it routed and unseated (ws.rs:223-256, 457-484).                 *)
THEOREM RoutedPhonesAreSeated == Spec => []RoutedPhonesArePlayers
<1>1. BInv /\ TableInv /\ PInv => RoutedPhonesArePlayers
  <2> SUFFICES ASSUME BInv, TableInv, PInv, Quiet,
                      NEW p \in Phones, controllerToHost[p] # None,
                      controllerToHost[p].worker \in workers
               PROVE  p \in room[controllerToHost[p].worker] <=> p \notin overtaken
    BY DEF RoutedPhonesArePlayers
  <2> DEFINE w == controllerToHost[p].worker
  <2>1. \A ev : ~Sends(p, w, ev)
    BY SendsOfOneStep DEF Quiet, Peers, Browsers
  <2>2. ~EndIsDue(p, w)
    BY DEF Quiet, Peers, Browsers, EndIsDue, Pending
  <2>3. w \in Workers /\ Routed(p, w)
    BY DEF BInv, IInv, TypeOK, R!TypeOK, Routed
  <2>4. Overtaking(p, w) /\ RouteSeated(p)
    BY <2>3 DEF PInv, SeatsFit
  <2>5. QED
    BY <2>1, <2>2, <2>3, <2>4 DEF Overtaking, RouteSeated
<1>2. QED
  BY <1>1, PInvHolds, PTL

(* Between handlers a phone that left holds a slot only where a screen of  *)
(* the room left as well or one of another room has offered to host: its   *)
(* own departure, with its host there, frees its slot (ws.rs:465-484,      *)
(* controllers.rs:118).                                                    *)
THEOREM DepartedPhonesLeaveRooms == Spec => []DepartedPhonesFreeSlots
<1>1. BInv /\ TableInv /\ PInv => DepartedPhonesFreeSlots
  <2> SUFFICES ASSUME BInv, TableInv, PInv, Quiet,
                      NEW w \in workers, NEW p \in room[w] \cap Phones, link[p] = "gone"
               PROVE  Excused(w)
    BY DEF DepartedPhonesFreeSlots, Excused
  <2>1. w \in Workers
    BY DEF BInv, IInv, TypeOK, R!TypeOK
  <2>2. ~Sends(p, w, "terminateSession")
    BY SendsOfOneStep DEF Quiet, Peers, Browsers
  <2>3. ~Routed(p, w)
    BY RoutesLeadHome DEF BInv, PInv, Routed
  <2>4. QED
    BY <2>1, <2>2, <2>3 DEF PInv, SeatsFit, SeatOwed
<1>2. QED
  BY <1>1, PInvHolds, PTL
=============================================================================
