---------------------------- MODULE SignalServer ----------------------------
(***************************************************************************)
(* The signaling server (arcade-signal/src/ws.rs) with its registry and    *)
(* pairing table.  Every socket has a task of its own, and tasks interleave *)
(* at every lock: a handler is the sequence of its critical sections.      *)
(*                                                                         *)
(*   - The first critical section of a handler is an action of its own,    *)
(*     taken when the task is idle; it leaves the rest in todo[p], a       *)
(*     sequence of steps that the task then executes one at a time.        *)
(*   - A lookup of a sender followed by a send on it is one step: the only *)
(*     thing that can come between, the removal of that sender, happens    *)
(*     once the receiving socket is over or has Close queued.              *)
(*   - Outbound queues are unbounded and in order, so a message takes      *)
(*     effect when it is queued: view[b] is what browser b will know once  *)
(*     it has read its queue, room[w] whom worker w will hold.             *)
(*                                                                         *)
(* Relays that change neither (offer and candidate to a browser, audio     *)
(* requests) are left out.                                                 *)
(***************************************************************************)
EXTENDS Naturals, Sequences, FiniteSets

CONSTANTS
    Screens, Phones, Workers, Codes, TTL, None,
    GameNames, BlankNames, SameGame, Counts,
    Dedupe      \* SIGNAL_DEDUP_ROOMS_BY_GAME

Browsers == Screens \cup Phones

ASSUME RolesAssumption ==
    /\ Screens \cap Phones = {}
    /\ Browsers \cap Workers = {}
    /\ IsFiniteSet(Phones) /\ IsFiniteSet(Workers)
    /\ Dedupe \in BOOLEAN

ASSUME NamesAssumption ==
    /\ BlankNames \subseteq GameNames
    /\ DOMAIN SameGame = GameNames
    /\ Counts \subseteq Nat

ASSUME TTLAssumption == TTL \in Nat \ {0}
ASSUME NoneAssumption ==
    None \notin Codes \cup Workers \cup Browsers
                \cup [host : Screens, worker : Workers, left : 0..TTL]
                \cup [host : Screens, worker : Workers]

VARIABLES
    codeToHost, hostToCode, controllerToHost, lastWorker,
    clients, workers, clientToWorker, gameRooms, playerCounts,
    workerOrder, nextWorkerOrder,
    link,       \* socket of each peer: "new", "open" or "gone" (read loop over)
    todo,       \* what is left of the handler each task runs
    closing,    \* browsers that have been sent Close
    plays,      \* screen -> the room its page is for (the id in /game/:id)
    view,       \* what each browser knows
    room,       \* browsers that hold a session or a player slot at each worker
    overtaken   \* history: phones that paired while the cleanup of a host that
                \* left had yet to terminate them at the same worker

tableVars == <<codeToHost, hostToCode, controllerToHost, lastWorker>>
registryVars == <<clients, workers, clientToWorker, gameRooms, playerCounts,
                  workerOrder, nextWorkerOrder>>
vars == <<tableVars, registryVars, link, todo, closing, plays, view, room, overtaken>>

Peers == Browsers \cup Workers

C == INSTANCE Controllers WITH gone <- {b \in Browsers : link[b] = "gone"}
R == INSTANCE Registry WITH MaxWorkers <- Cardinality(Workers)

Idle(p) == link[p] = "open" /\ todo[p] = <<>>

-----------------------------------------------------------------------------
(* The steps a handler can leave in todo. *)
ToWorker(w, b, ev) == [op |-> "toWorker", worker |-> w, peer |-> b, ev |-> ev]
ToClient(b, ev, about) == [op |-> "toClient", client |-> b, ev |-> ev, about |-> about]
Bind(w) == [op |-> "bind", worker |-> w]
Host(w) == [op |-> "host", worker |-> w]
BroadcastCount(w, n) == [op |-> "broadcastCount", worker |-> w, count |-> n]
BroadcastGames(payload) == [op |-> "broadcastGames", games |-> payload]
GreetGames(payload) == [op |-> "greetGames", games |-> payload]
GreetCounts(counts) == [op |-> "greetCounts", counts |-> counts]
Do(name) == [op |-> name]

WorkerEvents == {"initwebrtc", "joinRoom", "answer", "candidate", "input", "terminateSession"}
BindingEvents == {"initwebrtc", "joinRoom"}
Payloads == [Workers -> (GameNames \ BlankNames) \cup {None}]
CountMaps == [Workers -> Counts \cup {None}]

Step ==
    [op : {"toWorker"}, worker : Workers, peer : Browsers, ev : WorkerEvents]
    \cup [op : {"toClient"}, client : Phones, ev : {"joined", "left"}, about : Screens]
    \cup [op : {"toClient"}, client : Screens, ev : {"joined", "left"}, about : Phones]
    \cup [op : {"toClient"}, client : Browsers, ev : {"ready"}, about : Codes]
    \cup [op : {"toClient"}, client : Browsers, ev : {"rejected"}, about : {None}]
    \cup [op : {"toClient"}, client : Browsers, ev : {"games"}, about : Payloads]
    \cup [op : {"bind", "host"}, worker : Workers]
    \cup [op : {"broadcastCount"}, worker : Workers, count : Counts]
    \cup [op : {"broadcastGames", "greetGames"}, games : Payloads]
    \cup [op : {"greetCounts"}, counts : CountMaps]
    \cup [op : {"unbind", "unregister", "readGames", "greet"}]

View == [games : Payloads, counts : CountMaps, host : Screens \cup {None},
         code : Codes \cup {None}]

TypeOK ==
    /\ C!TypeOK
    /\ R!TypeOK
    /\ link \in [Peers -> {"new", "open", "gone"}]
    /\ todo \in [Peers -> Seq(Step)]
    /\ closing \subseteq Browsers
    /\ plays \in [Screens -> Workers]
    /\ view \in [Browsers -> View]
    /\ room \in [Workers -> SUBSET Browsers]
    /\ overtaken \subseteq Phones

BlankView == [games |-> [w \in Workers |-> None], counts |-> [w \in Workers |-> None],
              host |-> None, code |-> None]

Init ==
    /\ link = [p \in Peers |-> "new"]
    /\ C!Init
    /\ R!Init
    /\ todo = [p \in Peers |-> <<>>]
    /\ closing = {}
    /\ plays \in [Screens -> Workers]
    /\ view = [b \in Browsers |-> BlankView]
    /\ room = [w \in Workers |-> {}]
    /\ overtaken = {}

-----------------------------------------------------------------------------
(* What messages do to their receivers. *)

(* signal_router.rs: a session or a slot is taken by initwebrtc, joinRoom  *)
(* and input, and given up by terminateSession. Offers to a worker that is *)
(* no longer registered are dropped by send_to_worker. A worker has more   *)
(* slots (MAX_PLAYERS) than the runs have browsers, so a join never finds  *)
(* them all taken (signal_router.rs:192-196); Room and Inputs have that.   *)
Delivered(w, b, ev) ==
    IF w \notin workers THEN room
    ELSE CASE ev \in {"initwebrtc", "joinRoom", "input"} -> [room EXCEPT ![w] = @ \cup {b}]
           [] ev = "terminateSession" -> [room EXCEPT ![w] = @ \ {b}]
           [] OTHER -> room

(* signalConnection.js, controller.jsx and usePhoneControllerHost.js: the  *)
(* latest games list, the code on show, the host a phone is paired with.   *)
(* Fault: the page drops the games lists it asked for.                     *)
ToldNoGames(b, ev, about) ==
    CASE ev = "ready" -> [view[b] EXCEPT !.code = about]
      [] ev = "joined" /\ b \in Phones -> [view[b] EXCEPT !.host = about]
      [] ev \in {"left", "rejected"} /\ b \in Phones -> [view[b] EXCEPT !.host = None]
      [] OTHER -> view[b]

Told(b, ev, about) ==
    CASE ev = "games" -> [view[b] EXCEPT !.games = about]
      [] ev = "ready" -> [view[b] EXCEPT !.code = about]
      [] ev = "joined" /\ b \in Phones -> [view[b] EXCEPT !.host = about]
      [] ev \in {"left", "rejected"} /\ b \in Phones -> [view[b] EXCEPT !.host = None]
      [] OTHER -> view[b]

TellOne(b, ev, about) ==
    IF b \in clients THEN [view EXCEPT ![b] = Told(b, ev, about)] ELSE view

TellAllGames(payload) ==
    [b \in Browsers |->
        IF b \in clients THEN [view[b] EXCEPT !.games = payload] ELSE view[b]]

TellAllCount(w, n) ==
    [b \in Browsers |->
        IF b \in clients THEN [view[b] EXCEPT !.counts[w] = n] ELSE view[b]]

-----------------------------------------------------------------------------
(* Executing the next step of a task. *)

Rest(p) == Tail(todo[p])
NextIs(p, op) == todo[p] # <<>> /\ Head(todo[p]).op = op
Pending(p, step) == \E i \in DOMAIN todo[p] : todo[p][i] = step
Finish(p) == todo' = [todo EXCEPT ![p] = Rest(p)]
Continue(p, steps) == todo' = [todo EXCEPT ![p] = steps \o Rest(p)]

(* A screen's task has yet to end the session of phone p at worker w.      *)
EndIsDue(p, w) == \E s \in Screens : Pending(s, ToWorker(w, p, "terminateSession"))

(* History: a phone that pairs while its end is due at the new worker is   *)
(* overtaken, until it is seated there again with no end due.              *)
NotePaired(p, w) ==
    overtaken' = IF EndIsDue(p, w) THEN overtaken \cup {p} ELSE overtaken \ {p}

NoteSent(w, b, ev) ==
    overtaken' = IF ev \in {"joinRoom", "input"} /\ ~EndIsDue(b, w)
                 THEN overtaken \ {b} ELSE overtaken

SendToWorker(p) ==
    /\ NextIs(p, "toWorker")
    /\ LET s == Head(todo[p])
       IN  /\ room' = Delivered(s.worker, s.peer, s.ev)
           /\ NoteSent(s.worker, s.peer, s.ev)
    /\ Finish(p)
    /\ UNCHANGED <<tableVars, registryVars, link, closing, plays, view>>

SendToClient(p) ==
    /\ NextIs(p, "toClient")
    /\ LET s == Head(todo[p]) IN view' = TellOne(s.client, s.ev, s.about)
    /\ Finish(p)
    /\ UNCHANGED <<tableVars, registryVars, link, closing, plays, room, overtaken>>

DoBind(b) ==
    /\ NextIs(b, "bind")
    /\ R!BindClient(b, Head(todo[b]).worker)
    /\ Finish(b)
    /\ UNCHANGED <<tableVars, link, closing, plays, view, room, overtaken>>

DoUnbind(b) ==
    /\ NextIs(b, "unbind")
    /\ R!UnbindClient(b)
    /\ Finish(b)
    /\ UNCHANGED <<tableVars, link, closing, plays, view, room, overtaken>>

DoHost(b) ==
    /\ NextIs(b, "host")
    /\ UNCHANGED <<registryVars, link, closing, plays, view, room, overtaken>>
    /\ \E c \in Codes :
        /\ C!RegisterHost(b, Head(todo[b]).worker, c)
        /\ Continue(b, <<ToClient(b, "ready", c)>>)

(* unregister_client, then a terminateSession to the worker it was bound to. *)
DoUnregister(b) ==
    /\ NextIs(b, "unregister")
    /\ R!UnregisterClient(b)
    /\ LET w == clientToWorker[b]
       IN  Continue(b, IF w = None THEN <<>> ELSE <<ToWorker(w, b, "terminateSession")>>)
    /\ UNCHANGED <<tableVars, link, closing, plays, view, room, overtaken>>

(* broadcast_games: the list is read, then sent to the clients of a later  *)
(* moment. The loop over those clients (ws.rs:100-106) is one step: each   *)
(* has a queue of its own, and no property compares two browsers' views.   *)
DoReadGames(w) ==
    /\ NextIs(w, "readGames")
    /\ Continue(w, <<BroadcastGames(R!GamesPayload(Dedupe))>>)
    /\ UNCHANGED <<tableVars, registryVars, link, closing, plays, view, room, overtaken>>

DoBroadcast(w) ==
    /\ \/ /\ NextIs(w, "broadcastGames")
          /\ view' = TellAllGames(Head(todo[w]).games)
       \/ /\ NextIs(w, "broadcastCount")
          /\ view' = TellAllCount(Head(todo[w]).worker, Head(todo[w]).count)
    /\ Finish(w)
    /\ UNCHANGED <<tableVars, registryVars, link, closing, plays, room, overtaken>>

(* send_browser_initial_state: the games list is read; it is sent, and the *)
(* counts are read; the counts are sent. The sends use the socket's own    *)
(* sender and not the registry.                                            *)
DoGreet(b) ==
    /\ \/ /\ NextIs(b, "greet")
          /\ Continue(b, <<GreetGames(R!GamesPayload(Dedupe))>>)
          /\ UNCHANGED view
       \/ /\ NextIs(b, "greetGames")
          /\ Continue(b, <<GreetCounts(playerCounts)>>)
          /\ view' = [view EXCEPT ![b].games = Head(todo[b]).games]
       \/ /\ NextIs(b, "greetCounts")
          /\ Finish(b)
          /\ LET counts == Head(todo[b]).counts
             IN  view' = [view EXCEPT ![b].counts =
                    [w \in Workers |-> IF counts[w] # None THEN counts[w] ELSE @[w]]]
    /\ UNCHANGED <<tableVars, registryVars, link, closing, plays, room, overtaken>>

Proceed(p) ==
    \/ SendToWorker(p) \/ SendToClient(p)
    \/ DoBind(p) \/ DoUnbind(p) \/ DoHost(p) \/ DoUnregister(p)
    \/ DoReadGames(p) \/ DoBroadcast(p) \/ DoGreet(p)
-----------------------------------------------------------------------------
(* run_peer_socket: connecting and leaving. Session ids are never reused.  *)

Schedule(p, steps) == todo' = [todo EXCEPT ![p] = steps]

ConnectBrowser(b) ==
    /\ link[b] = "new"
    /\ link' = [link EXCEPT ![b] = "open"]
    /\ R!RegisterClient(b)
    /\ Schedule(b, <<Do("greet")>>)
    /\ UNCHANGED <<tableVars, closing, plays, view, room, overtaken>>

ConnectWorker(w) ==
    /\ link[w] = "new"
    /\ link' = [link EXCEPT ![w] = "open"]
    /\ R!RegisterWorker(w)
    /\ UNCHANGED <<tableVars, todo, closing, plays, view, room, overtaken>>

(* cleanup_browser: cleanup_peer first, unregister_client next, then one   *)
(* message at a time to those it concerned. A browser's socket ends for    *)
(* reasons of its own, or because it was sent Close.                       *)
Notices(b, phones) == {ToClient(p, "left", b) : p \in phones}

Terminations(phones) ==
    {ToWorker(controllerToHost[p].worker, p, "terminateSession") : p \in phones}

Orders(S) == {s \in [1..Cardinality(S) -> S] : \A x \in S : \E i \in DOMAIN s : s[i] = x}

(* Fault: a phone's route survives it.                                     *)
LeaveAsPhoneKeepsRoute(b) ==
    /\ C!IsRouted(b)
    /\ UNCHANGED tableVars
    /\ Schedule(b, <<Do("unregister"),
                     ToClient(controllerToHost[b].host, "left", b),
                     ToWorker(controllerToHost[b].worker, b, "terminateSession")>>)

(* Fault: the worker of a phone that leaves is not told.                   *)
LeaveAsPhoneSilently(b) ==
    /\ C!CleanupController(b)
    /\ Schedule(b, <<Do("unregister"), ToClient(controllerToHost[b].host, "left", b)>>)

LeaveAsPhone(b) ==
    /\ C!CleanupController(b)
    /\ Schedule(b, <<Do("unregister"),
                     ToClient(controllerToHost[b].host, "left", b),
                     ToWorker(controllerToHost[b].worker, b, "terminateSession")>>)

(* Fault: the end of a host ends the sessions of all phones of its room.   *)
LeaveAsHostEndsRoom(b) ==
    /\ C!CleanupHost(b)
    /\ \E notices \in Orders(Notices(b, C!RoutedTo(b))),
          terminations \in Orders(Terminations({p \in Phones :
              C!IsRouted(p) /\ controllerToHost[p].worker = plays[b]})) :
            Schedule(b, <<Do("unregister")>> \o notices \o terminations)

LeaveAsHost(b) ==
    /\ C!CleanupHost(b)
    /\ \E notices \in Orders(Notices(b, C!RoutedTo(b))),
          terminations \in Orders(Terminations(C!RoutedTo(b))) :
            Schedule(b, <<Do("unregister")>> \o notices \o terminations)

Leave(b) ==
    /\ Idle(b)
    /\ link' = [link EXCEPT ![b] = "gone"]
    /\ LeaveAsPhone(b) \/ LeaveAsHost(b)
    /\ closing' = closing \ {b}
    /\ UNCHANGED <<registryVars, plays, view, room, overtaken>>

(* cleanup_worker: its clients are unbound, dropped and sent Close.        *)
WorkerLeaves(w) ==
    /\ Idle(w)
    /\ link' = [link EXCEPT ![w] = "gone"]
    /\ R!UnregisterWorker(w)
    /\ closing' = closing \cup R!ClientsToClose(w)
    /\ room' = [room EXCEPT ![w] = {}]
    /\ Schedule(w, <<Do("readGames")>>)
    /\ UNCHANGED <<tableVars, plays, view, overtaken>>

-----------------------------------------------------------------------------
(* handle_browser_message. *)

RequestGames(b) ==
    /\ Idle(b)
    /\ Schedule(b, <<ToClient(b, "games", R!GamesPayload(Dedupe))>>)
    /\ UNCHANGED <<tableVars, registryVars, link, closing, plays, view, room, overtaken>>

(* initwebrtc and joinRoom: worker_sender finds the worker, and the binding *)
(* and the message follow. A connection lives as long as its page's path   *)
(* (store/index.jsx:163), so it asks for one room only.                    *)
OpenRoom(b, ev) ==
    /\ Idle(b)
    /\ ev \in BindingEvents
    /\ plays[b] \in workers
    /\ Schedule(b, <<Bind(plays[b]), ToWorker(plays[b], b, ev)>>)
    /\ UNCHANGED <<tableVars, registryVars, link, closing, plays, view, room, overtaken>>

(* Fault: the binding is not checked.                                      *)
RelayUnchecked(b, ev) ==
    /\ Idle(b)
    /\ ev \in {"answer", "candidate", "input"}
    /\ Schedule(b, <<ToWorker(plays[b], b, ev)>>)
    /\ UNCHANGED <<tableVars, registryVars, link, closing, plays, view, room, overtaken>>

(* answer, candidate and input: only to the worker the browser is bound to. *)
Relay(b, ev) ==
    /\ Idle(b)
    /\ ev \in {"answer", "candidate", "input"}
    /\ clientToWorker[b] = plays[b]
    /\ Schedule(b, <<ToWorker(plays[b], b, ev)>>)
    /\ UNCHANGED <<tableVars, registryVars, link, closing, plays, view, room, overtaken>>

(* Fault: the browser is unbound and the worker not told.                  *)
TerminateSilently(b, target) ==
    /\ Idle(b)
    /\ clientToWorker[b] # None
    /\ target \in {None, clientToWorker[b]}
    /\ Schedule(b, <<Do("unbind")>>)
    /\ UNCHANGED <<tableVars, registryVars, link, closing, plays, view, room, overtaken>>

(* terminateSession, for no worker in particular or for the one bound.     *)
Terminate(b, target) ==
    /\ Idle(b)
    /\ clientToWorker[b] # None
    /\ target \in {None, clientToWorker[b]}
    /\ Schedule(b, <<ToWorker(clientToWorker[b], b, "terminateSession"), Do("unbind")>>)
    /\ UNCHANGED <<tableVars, registryVars, link, closing, plays, view, room, overtaken>>

ControllerHost(b) ==
    /\ Idle(b)
    /\ clientToWorker[b] = plays[b]
    /\ Schedule(b, <<Host(plays[b])>>)
    /\ UNCHANGED <<tableVars, registryVars, link, closing, plays, view, room, overtaken>>

ControllerJoin(p, c) ==
    /\ Idle(p)
    /\ UNCHANGED <<registryVars, link, closing, plays, view, room>>
    /\ \/ /\ C!JoinAccepted(p, c)
          /\ LET target == codeToHost[c]
             IN  /\ Schedule(p, <<ToClient(p, "joined", target.host),
                                  ToClient(target.host, "joined", p),
                                  ToWorker(target.worker, p, "joinRoom")>>)
                  /\ NotePaired(p, target.worker)
       \/ /\ C!JoinRefused(p, c)
          /\ UNCHANGED overtaken
          /\ Schedule(p, <<ToClient(p, "rejected", None)>>)

(* Fault: the input of a phone without a route is sent on.                 *)
ControllerInputUnrouted(p, h) ==
    /\ Idle(p)
    /\ view[p].host = h
    /\ Schedule(p, <<ToWorker(C!WorkerForInput(p, h), p, "input")>>)
    /\ UNCHANGED <<tableVars, registryVars, link, closing, plays, view, room, overtaken>>

(* A phone names the host it believes it is paired with; the route decides. *)
ControllerInput(p, h) ==
    /\ Idle(p)
    /\ view[p].host = h
    /\ C!WorkerForInput(p, h) # None
    /\ Schedule(p, <<ToWorker(C!WorkerForInput(p, h), p, "input")>>)
    /\ UNCHANGED <<tableVars, registryVars, link, closing, plays, view, room, overtaken>>

-----------------------------------------------------------------------------
(* handle_worker_message. *)

(* Fault: a worker is listened to after it was cleaned up.                 *)
GameInfoLate(w, g) ==
    /\ link[w] # "new" /\ todo[w] = <<>>
    /\ R!SetWorkerGame(w, g)
    /\ Schedule(w, <<Do("readGames")>>)
    /\ UNCHANGED <<tableVars, link, closing, plays, view, room, overtaken>>

GameInfo(w, g) ==
    /\ Idle(w)
    /\ R!SetWorkerGame(w, g)
    /\ Schedule(w, <<Do("readGames")>>)
    /\ UNCHANGED <<tableVars, link, closing, plays, view, room, overtaken>>

UpdatePlayerCount(w, n) ==
    /\ Idle(w)
    /\ R!SetWorkerPlayerCount(w, n)
    /\ Schedule(w, <<BroadcastCount(w, n)>>)
    /\ UNCHANGED <<tableVars, link, closing, plays, view, room, overtaken>>

CodesAge ==
    /\ UNCHANGED <<registryVars, link, todo, closing, plays, view, room, overtaken>>
    /\ C!Tick

Next ==
    \/ \E p \in Peers : Proceed(p)
    \/ \E b \in Browsers : ConnectBrowser(b) \/ Leave(b) \/ RequestGames(b)
    \/ \E s \in Screens :
            \/ \E ev \in BindingEvents : OpenRoom(s, ev)
            \/ \E ev \in WorkerEvents : Relay(s, ev)
            \/ \E target \in Workers \cup {None} : Terminate(s, target)
            \/ ControllerHost(s)
    \/ \E p \in Phones, c \in Codes : ControllerJoin(p, c)
    \/ \E p \in Phones, h \in Screens : ControllerInput(p, h)
    \/ \E w \in Workers :
            \/ ConnectWorker(w) \/ WorkerLeaves(w)
            \/ \E g \in GameNames : GameInfo(w, g)
            \/ \E n \in Counts : UpdatePlayerCount(w, n)
    \/ CodesAge

Spec == Init /\ [][Next]_vars

(* A task that has work goes on with it: its sends never block. Two        *)
(* messages wait their turn in a socket and are read however busy the page *)
(* is: the end of a socket that was sent Close, behind which nothing       *)
(* follows, and the request for the games the portal repeats on a timer    *)
(* (signalConnection.js).                                                  *)
LiveSpec ==
    /\ Spec
    /\ \A p \in Peers : WF_vars(Proceed(p))
    /\ \A b \in Browsers : SF_vars(b \in closing /\ Leave(b)) /\ SF_vars(RequestGames(b))

-----------------------------------------------------------------------------
(* The table's specification allows any order of calls by peers that have  *)
(* not left; the tasks of the server keep to it, whatever their            *)
(* interleaving, so what is proved of the table holds in the server        *)
(* (ws.rs:213, 223, 242, 457).                                             *)
TableSpec == C!Spec

(* Likewise the registry's specification: no worker's game or player count *)
(* is recorded before it registers or after it has left (ws.rs:276-301,    *)
(* 416-422, 458, 488).                                                     *)
RegistrySpec == R!Spec

(* A worker holds a session for a screen only while the screen is bound to *)
(* it, or the terminateSession that ends it is on its way. A screen that   *)
(* has left and been cleaned up therefore holds nothing at any worker      *)
(* (ws.rs:159-175, 199-203, 457-463).                                      *)
RoomsHoldBoundScreens ==
    \A w \in workers : \A s \in room[w] \cap Screens :
        \/ clientToWorker[s] = w
        \/ Pending(s, ToWorker(w, s, "terminateSession"))

(* What a screen sends to a live worker reaches it only while the screen   *)
(* is still bound to it: the binding checked before the send cannot have   *)
(* been withdrawn in between (ws.rs:158-175).                              *)
RelaysStayBound ==
    \A s \in Screens :
        NextIs(s, "toWorker") /\ Head(todo[s]).ev # "terminateSession" =>
            \/ Head(todo[s]).worker \notin workers
            \/ clientToWorker[s] = Head(todo[s]).worker

(* Between handlers, a phone with a route to a live worker is one of the   *)
(* players that worker holds, but for one interleaving. The phones of a    *)
(* host that leaves are terminated one by one, and a phone that pairs      *)
(* again in the same room while its own end is still due is terminated     *)
(* nevertheless: it is routed and without a seat until its next input.     *)
(* These phones, and no others whatever else joined, left or ended, are    *)
(* the ones in overtaken (ws.rs:223-256, 457-484). It is about rooms with  *)
(* slots for all who join (see Delivered).                                 *)
Quiet == \A p \in Peers : todo[p] = <<>>

RoutedPhonesArePlayers ==
    Quiet =>
        \A p \in Phones : controllerToHost[p] # None =>
            \/ controllerToHost[p].worker \notin workers
            \/ p \in room[controllerToHost[p].worker] <=> p \notin overtaken

(* A phone that left holds a player slot only if a screen of that room     *)
(* left as well, or one of another room has offered to host it: with its   *)
(* host still there, its departure frees its slot (ws.rs:465-484,          *)
(* controllers.rs:118).                                                    *)
DepartedPhonesFreeSlots ==
    Quiet =>
        \A w \in workers : \A p \in room[w] \cap Phones :
            link[p] = "gone" =>
                \E s \in Screens :
                    \/ plays[s] = w /\ link[s] = "gone"
                    \/ lastWorker[s] \notin {w, None}

(* The phone page says "Paired. This phone is now an active player."       *)
(* (controller.jsx:93) once controllerJoined names its host, until it is   *)
(* told otherwise. Between handlers that means it has a route to the host. *)
PairedPhonesAreRouted ==
    Quiet =>
        \A p \in Phones : link[p] = "open" /\ view[p].host # None =>
            controllerToHost[p] # None /\ controllerToHost[p].host = view[p].host

(* A browser dropped together with its worker leaves completely: it is     *)
(* closed, its task runs its cleanup, and no table mentions it any more    *)
(* (ws.rs:456-495).                                                        *)
DroppedBrowsersLeave ==
    \A b \in Browsers :
        b \in closing ~>
            /\ link[b] = "gone" /\ todo[b] = <<>>
            /\ b \notin clients /\ clientToWorker[b] = None
            /\ C!RoutedTo(b) = {}

(* Whatever lists crossed on the way, every connected browser ends up with *)
(* the games now running, once workers stop changing them: a broadcast may *)
(* be overtaken by an older one (ws.rs:108-111) and the requests repair it. *)
GamesConverge ==
    \A list \in Payloads :
        <>[](R!GamesPayload(Dedupe) = list) =>
            \A b \in Browsers : <>[](b \in clients => view[b].games = list)
=============================================================================
