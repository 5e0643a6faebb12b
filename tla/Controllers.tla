----------------------------- MODULE Controllers -----------------------------
(***************************************************************************)
(* The pairing table of the signaling server                               *)
(* (arcade-signal/src/controllers.rs): a game screen (the host) obtains a  *)
(* join code for the worker it plays on, phones present the code and are   *)
(* routed to that host's worker from then on.                              *)
(*                                                                         *)
(* Every method of Controllers takes the one mutex around ControllerState  *)
(* for its whole body, so each is one atomic action here.  Time is         *)
(* abstracted: instead of the instant a registration expires, the model    *)
(* keeps how many ticks it has left; `expires_at <= now' is `left = 0'.    *)
(***************************************************************************)
EXTENDS Naturals

CONSTANTS
    Screens,    \* peers that host: the pages showing a game
    Phones,     \* peers that present a join code
    Workers,    \* worker ids a host can name
    Codes,      \* join codes encode_join_code can produce
    TTL,        \* ticks a registration lives: JOIN_CODE_TTL
    None        \* absence of a map entry

ASSUME TTLAssumption == TTL \in Nat \ {0}
ASSUME NoneAssumption ==
    None \notin Codes \cup Workers \cup Screens \cup Phones
                \cup [host : Screens, worker : Workers, left : 0..TTL]
                \cup [host : Screens, worker : Workers]

Peers == Screens \cup Phones

VARIABLES
    codeToHost,         \* code -> registration of the host that owns it
    hostToCode,         \* host -> its code
    controllerToHost,   \* phone -> route to a host and its worker
    lastWorker,         \* history: the worker each host last registered with
    gone                \* history: peers whose cleanup_peer has run

vars == <<codeToHost, hostToCode, controllerToHost, lastWorker, gone>>

HostRegistration == [host : Screens, worker : Workers, left : 0..TTL]
ControllerRoute  == [host : Screens, worker : Workers]

TypeOK ==
    /\ codeToHost \in [Codes -> HostRegistration \cup {None}]
    /\ hostToCode \in [Screens -> Codes \cup {None}]
    /\ controllerToHost \in [Phones -> ControllerRoute \cup {None}]
    /\ lastWorker \in [Screens -> Workers \cup {None}]
    /\ gone \subseteq Peers

Init ==
    /\ codeToHost = [c \in Codes |-> None]
    /\ hostToCode = [h \in Screens |-> None]
    /\ controllerToHost = [p \in Phones |-> None]
    /\ lastWorker = [h \in Screens |-> None]
    /\ gone = {}

-----------------------------------------------------------------------------
(* prune_expired: every expired code goes, and its host's entry with it if *)
(* the host's current code is that code. Routes are left alone.            *)

Registered(c) == codeToHost[c] # None
Expired(c) == Registered(c) /\ codeToHost[c].left = 0
Live(c) == Registered(c) /\ codeToHost[c].left > 0

PrunedCodes == [c \in Codes |-> IF Expired(c) THEN None ELSE codeToHost[c]]

(* Fault: pruning forgets the host's entry.                                *)
PrunedHostsKept == hostToCode

PrunedHosts ==
    [h \in Screens |->
        IF \E c \in Codes : Expired(c) /\ codeToHost[c].host = h /\ hostToCode[h] = c
        THEN None ELSE hostToCode[h]]

(* Fault: a refreshed registration leaves the routes as they are.          *)
RoutesKept(h, w) == controllerToHost

(* refresh_controller_routes: every phone of host h now goes to worker w. *)
RoutesRefreshed(h, w) ==
    [p \in Phones |->
        IF controllerToHost[p] # None /\ controllerToHost[p].host = h
        THEN [host |-> h, worker |-> w]
        ELSE controllerToHost[p]]

-----------------------------------------------------------------------------
(* Fault: every registration takes a free code.                            *)
CodeAlwaysNew(h, c) == PrunedCodes[c] = None

(* register_host answers the host's own code while its registration lives, *)
(* and otherwise any code next_available_code finds free after pruning.    *)
CodeFor(h, c) ==
    LET current == PrunedHosts[h]
    IN  IF current # None /\ PrunedCodes[current] # None
        THEN c = current
        ELSE PrunedCodes[c] = None

(* Fault: a registration lives one tick too long.                          *)
RegisterHostLonger(h, w, c) ==
    /\ CodeFor(h, c)
    /\ codeToHost' = [PrunedCodes EXCEPT ![c] = [host |-> h, worker |-> w, left |-> TTL + 1]]
    /\ hostToCode' = [PrunedHosts EXCEPT ![h] = c]
    /\ controllerToHost' = RoutesRefreshed(h, w)
    /\ lastWorker' = [lastWorker EXCEPT ![h] = w]
    /\ UNCHANGED gone

RegisterHost(h, w, c) ==
    /\ CodeFor(h, c)
    \* a refreshed registration keeps its host field, a new one is given h's
    /\ LET owner == IF PrunedCodes[c] = None THEN h ELSE PrunedCodes[c].host
       IN  codeToHost' = [PrunedCodes EXCEPT
                            ![c] = [host |-> owner, worker |-> w, left |-> TTL]]
    /\ hostToCode' = [PrunedHosts EXCEPT ![h] = c]
    /\ controllerToHost' = RoutesRefreshed(h, w)
    /\ lastWorker' = [lastWorker EXCEPT ![h] = w]
    /\ UNCHANGED gone

(* join: expired codes are pruned even when the code is then refused. *)
JoinAccepted(p, c) ==
    /\ Live(c)
    /\ codeToHost' = PrunedCodes
    /\ hostToCode' = PrunedHosts
    /\ controllerToHost' = [controllerToHost EXCEPT
            ![p] = [host |-> codeToHost[c].host, worker |-> codeToHost[c].worker]]
    /\ UNCHANGED <<lastWorker, gone>>

(* Fault: a refused code unpairs the phone that tried it.                  *)
JoinRefusedUnpairs(p, c) ==
    /\ ~Live(c)
    /\ codeToHost' = PrunedCodes
    /\ hostToCode' = PrunedHosts
    /\ controllerToHost' = [controllerToHost EXCEPT ![p] = None]
    /\ UNCHANGED <<lastWorker, gone>>

JoinRefused(p, c) ==
    /\ ~Live(c)
    /\ codeToHost' = PrunedCodes
    /\ hostToCode' = PrunedHosts
    /\ UNCHANGED <<controllerToHost, lastWorker, gone>>

(* worker_for_input: the worker an input of phone p for host h goes to. *)
WorkerForInput(p, h) ==
    IF controllerToHost[p] # None /\ controllerToHost[p].host = h
    THEN controllerToHost[p].worker ELSE None

-----------------------------------------------------------------------------
(* cleanup_peer of a peer that holds a route: only the route is removed,   *)
(* the function returns before it looks at what the peer hosts.            *)
IsRouted(p) == p \in Phones /\ controllerToHost[p] # None

RoutedTo(h) == {p \in Phones : controllerToHost[p] # None /\ controllerToHost[p].host = h}

CleanupController(p) ==
    /\ IsRouted(p)
    /\ controllerToHost' = [controllerToHost EXCEPT ![p] = None]
    /\ gone' = gone \cup {p}
    /\ UNCHANGED <<codeToHost, hostToCode, lastWorker>>

(* Fault: the phones of a host that leaves stay routed to it.              *)
CleanupHostKeepsRoutes(h) ==
    /\ ~IsRouted(h)
    /\ codeToHost' = [c \in Codes |->
            IF h \in Screens /\ hostToCode[h] = c THEN None ELSE codeToHost[c]]
    /\ hostToCode' = [s \in Screens |-> IF s = h THEN None ELSE hostToCode[s]]
    /\ gone' = gone \cup {h}
    /\ UNCHANGED <<controllerToHost, lastWorker>>

(* cleanup_peer of any other peer: its code and every route to it go. *)
CleanupHost(h) ==
    /\ ~IsRouted(h)
    /\ codeToHost' = [c \in Codes |->
            IF h \in Screens /\ hostToCode[h] = c THEN None ELSE codeToHost[c]]
    /\ hostToCode' = [s \in Screens |-> IF s = h THEN None ELSE hostToCode[s]]
    /\ controllerToHost' = [p \in Phones |->
            IF p \in RoutedTo(h) THEN None ELSE controllerToHost[p]]
    /\ gone' = gone \cup {h}
    /\ UNCHANGED lastWorker

CleanupPeer(p) == CleanupController(p) \/ CleanupHost(p)

(* Time passes: every registration has one tick less to live. *)
Tick ==
    /\ \E c \in Codes : Live(c)
    /\ codeToHost' = [c \in Codes |->
            IF Live(c) THEN [codeToHost[c] EXCEPT !.left = @ - 1] ELSE codeToHost[c]]
    /\ UNCHANGED <<hostToCode, controllerToHost, lastWorker, gone>>

(* The methods do not ask whether the caller was cleaned up before: that   *)
(* the server calls them only for peers that are still there is what this  *)
(* specification demands of it (see TableSpec of SignalServer).            *)
Next ==
    \/ \E h \in Screens \ gone, w \in Workers, c \in Codes : RegisterHost(h, w, c)
    \/ \E p \in Phones \ gone, c \in Codes : JoinAccepted(p, c)
    \/ \E p \in Phones \ gone, c \in Codes : JoinRefused(p, c)
    \/ \E p \in Peers \ gone : CleanupPeer(p)
    \/ Tick

Spec == Init /\ [][Next]_vars

-----------------------------------------------------------------------------
(* The two halves of the table describe the same pairing of codes with     *)
(* hosts: a code's registration names the host whose entry is that code,   *)
(* and a host's entry is a registered code. So a host has one code, and    *)
(* no lookup in register_host or cleanup_peer meets a dangling code        *)
(* (controllers.rs:64-77, 150-152, 195-204).                               *)
CodesMatchHosts ==
    /\ \A c \in Codes : Registered(c) => hostToCode[codeToHost[c].host] = c
    /\ \A h \in Screens : hostToCode[h] # None =>
            /\ Registered(hostToCode[h])
            /\ codeToHost[hostToCode[h]].host = h

(* The worker is copied into the registration and into every route, and    *)
(* no copy is stale: each one names the worker its host registered with    *)
(* last, across expiry of the code and its replacement by another          *)
(* (controllers.rs:66, 74, 93, 112-123).                                   *)
InputsFollowHost ==
    /\ \A c \in Codes : Registered(c) => codeToHost[c].worker = lastWorker[codeToHost[c].host]
    /\ \A p \in Phones : controllerToHost[p] # None =>
            controllerToHost[p].worker = lastWorker[controllerToHost[p].host]

(* A peer that is only a screen or only a phone leaves nothing behind: no  *)
(* code leads to it, no phone is routed to it and it has no route itself,  *)
(* so nothing can be sent on its behalf. The early return of cleanup_peer  *)
(* (controllers.rs:142-148) makes this false of a peer that is both.       *)
GoneLeavesNothing ==
    \A q \in gone \ (Screens \cap Phones) :
        /\ \A c \in Codes : Registered(c) => codeToHost[c].host # q
        /\ RoutedTo(q) = {}
        /\ ~IsRouted(q)

(* A code a screen shows stays that screen's code until it expires or the  *)
(* screen leaves: no refresh, no join and no other peer's call replaces it *)
(* or hands it to another screen (controllers.rs:64-76, 208-224).          *)
LiveCodeIsStable ==
    [][\A h \in Screens :
        hostToCode[h] # None /\ Live(hostToCode[h]) =>
            \/ h \in gone'
            \/ hostToCode'[h] = hostToCode[h] /\ codeToHost'[hostToCode[h]].host = h]_vars

(* A pairing ends only with the departure of the phone or of its host, and *)
(* never because the code it was made with expired or was replaced: a      *)
(* player is not cut off mid-game (controllers.rs:187-206 prunes codes and *)
(* not routes).                                                            *)
PairingOutlivesCode ==
    [][\A p \in Phones :
        controllerToHost[p] # None /\ controllerToHost'[p] = None =>
            p \in gone' \/ controllerToHost[p].host \in gone']_vars
=============================================================================
