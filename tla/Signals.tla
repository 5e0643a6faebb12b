------------------------------- MODULE Signals -------------------------------
(***************************************************************************)
(* How a game page and a worker agree on a WebRTC session through the      *)
(* signaling server: gameSessionRuntime.js of the portal, the relay of     *)
(* ws.rs and the payloads of protocol.rs in arcade-signal, and             *)
(* signal_router.rs and webrtc_session.rs of arcade-worker.                *)
(*                                                                         *)
(* One client and one worker. Each time the page is shown it starts an     *)
(* attempt: it asks for a session and, when it is left, ends it; both go   *)
(* out on the same socket, under the same client id, so nothing in a       *)
(* message tells the attempts apart. The worker makes one peer connection  *)
(* for each request, so the peer of attempt k is called k here.            *)
(*                                                                         *)
(* A socket, the server's task that reads it and the queue of the socket   *)
(* it writes to keep the order of messages; they are one queue here.       *)
(***************************************************************************)
EXTENDS Naturals, Sequences

CONSTANTS
    MaxAttempts,    \* bound: attempts of the page
    PageCandidates, \* bound: candidates the page sends in an attempt
    PeerCandidates, \* bound: candidates a peer of the worker sends
    PeerEnds,       \* bound: times the tasks of a peer drop a session
    MaxPending,     \* MAX_PENDING_MESSAGES_PER_SESSION
    Forms           \* how a page may write its payloads

Attempts == 1..MaxAttempts
None == 0

ASSUME BoundsAssumption ==
    /\ {MaxAttempts, PageCandidates, PeerCandidates, PeerEnds} \subseteq Nat
    /\ MaxPending \in Nat \ {0}

VARIABLES
    attempt,    \* the page's latest attempt
    shown,      \* the page is there and listens to its socket
    form,       \* how it writes its payloads
    first,      \* the peer of the first offer it took in this attempt
    gathered,   \* candidates it sent in this attempt
    waiting,    \* candidates that wait for an offer
    added,      \* candidates its connection was given
    toWorker,   \* messages on their way to the worker
    toPage,     \* messages on their way to the page
    session,    \* the peer that is registered for the client
    answer,     \* peer -> the answer that is its remote description
    ice,        \* peer -> the remote candidates it was given
    emitted,    \* peer -> candidates it has sent
    ends,       \* peer -> times its tasks have dropped a session
    pending     \* signals the router keeps for the client

pageVars == <<attempt, shown, form, first, gathered, waiting, added>>
peerVars == <<session, answer, ice, emitted, ends>>
vars == <<pageVars, toWorker, toPage, peerVars, pending>>

-----------------------------------------------------------------------------
(* Payloads: whether one is base64, and what is written in it: an object   *)
(* with a type, an object without, a string, text that is not JSON, or     *)
(* some other JSON.                                                        *)
Payload == [base64 : BOOLEAN, json : {"typed", "object", "string", "text", "other"}]
ASSUME FormsAssumption == Forms \subseteq Payload

Accepted(payload) == payload.json # "other"

(* Fault: the object that is made of a payload is not encoded again.       *)
CanonicalRaw(id, payload) ==
    [base64 |-> payload.base64,
     json |-> IF payload.json = "typed" \/ id = "answer" THEN "typed" ELSE "object"]

(* canonicalize_payload, of a payload it accepts: base64 of an object, to  *)
(* which the type of a session description is added.                       *)
Canonical(id, payload) ==
    [base64 |-> TRUE,
     json |-> IF payload.json = "typed" \/ id = "answer" THEN "typed" ELSE "object"]

(* decode_session_description_payload, decode_candidate_payload.           *)
Decodes(id, payload) ==
    payload.base64 /\ payload.json \in (IF id = "answer" THEN {"typed"} ELSE {"typed", "object"})

(* A message says what it is and, for this model only, in which attempt it *)
(* was sent, and which offer it answers or which candidate it is.          *)
Request(id) == [id |-> id, attempt |-> attempt]
Signal(id, n) == [id |-> id, attempt |-> attempt, n |-> n, payload |-> Canonical(id, form)]
Offer(k) == [id |-> "offer", peer |-> k, n |-> 0]
Candidate(k, n) == [id |-> "candidate", peer |-> k, n |-> n]
Candidates(k, n) == [i \in 1..n |-> Candidate(k, i)]

SignalMessage ==
    [id : {"answer", "candidate"}, attempt : Attempts,
     n : 1..(MaxAttempts + PageCandidates), payload : Payload]
RequestMessage == [id : {"initwebrtc", "terminateSession"}, attempt : Attempts]
PeerMessage == [id : {"offer", "candidate"}, peer : Attempts, n : 0..PeerCandidates]

TypeOK ==
    /\ attempt \in 0..MaxAttempts
    /\ shown \in BOOLEAN
    /\ form \in Forms
    /\ first \in {None} \cup Attempts
    /\ gathered \in 0..PageCandidates
    /\ waiting \subseteq PeerMessage /\ added \subseteq PeerMessage
    /\ toWorker \in Seq(SignalMessage \cup RequestMessage)
    /\ toPage \in Seq(PeerMessage)
    /\ session \in {None} \cup Attempts
    /\ answer \in [Attempts -> {<<>>} \cup SignalMessage]
    /\ ice \in [Attempts -> SUBSET SignalMessage]
    /\ emitted \in [Attempts -> 0..PeerCandidates]
    /\ ends \in [Attempts -> 0..PeerEnds]
    /\ pending \in Seq(SignalMessage) /\ Len(pending) <= MaxPending

Init ==
    /\ attempt = 0 /\ shown = FALSE
    /\ form \in Forms
    /\ first = None /\ gathered = 0
    /\ waiting = {} /\ added = {}
    /\ toWorker = <<>> /\ toPage = <<>>
    /\ session = None
    /\ answer = [k \in Attempts |-> <<>>]
    /\ ice = [k \in Attempts |-> {}]
    /\ emitted = [k \in Attempts |-> 0]
    /\ ends = [k \in Attempts |-> 0]
    /\ pending = <<>>

-----------------------------------------------------------------------------
(* The page and the server's relay. The client is bound to the worker from *)
(* initwebrtc to terminateSession, that is while the page is shown; then   *)
(* the server relays its signals whose payload is accepted.                *)

Relayed(m) == IF Accepted(form) THEN Append(toWorker, m) ELSE toWorker

(* The page is shown: initwebrtc. What the socket delivered while nobody   *)
(* listened is lost, and so is what it had delivered to the last attempt   *)
(* but still waited there for an earlier message (isDisposed).             *)
Show ==
    /\ ~shown
    /\ attempt < MaxAttempts
    /\ attempt' = attempt + 1
    /\ shown' = TRUE
    /\ toWorker' = Append(toWorker, [id |-> "initwebrtc", attempt |-> attempt + 1])
    /\ \E delivered \in 0..Len(toPage) :
          toPage' = SubSeq(toPage, delivered + 1, Len(toPage))
    /\ UNCHANGED <<form, first, gathered, waiting, added, peerVars, pending>>

(* Fault: a page that is left does not end its session.                    *)
LeaveSilently ==
    /\ shown
    /\ shown' = FALSE
    /\ first' = None /\ gathered' = 0
    /\ waiting' = {} /\ added' = {}
    /\ UNCHANGED <<attempt, form, toWorker, toPage, peerVars, pending>>

(* The page is left, or Reconnect is pressed: terminateSession.            *)
Leave ==
    /\ shown
    /\ shown' = FALSE
    /\ first' = None /\ gathered' = 0
    /\ waiting' = {} /\ added' = {}
    /\ toWorker' = Append(toWorker, Request("terminateSession"))
    /\ UNCHANGED <<attempt, form, toPage, peerVars, pending>>

(* Fault: candidates that came before the offer are forgotten.             *)
TakeOfferOnly ==
    /\ shown /\ toPage # <<>> /\ Head(toPage).id = "offer"
    /\ toPage' = Tail(toPage)
    /\ first' = IF first = None THEN Head(toPage).peer ELSE first
    /\ toWorker' = Relayed(Signal("answer", Head(toPage).peer))
    /\ UNCHANGED <<attempt, shown, form, gathered, waiting, added, peerVars, pending>>

(* An offer: the page answers it and adds the candidates that waited for   *)
(* it. Nothing in it says for which attempt it was made. The browser may   *)
(* refuse an offer of another peer on the same connection. The awaits in   *)
(* between (gameSessionRuntime.js:381-397) are one step: messages wait for *)
(* one another in a chain, and a page that is left closes its connection,  *)
(* which then settles none of its promises, so that nothing more is sent.  *)
TakeOffer ==
    /\ shown /\ toPage # <<>> /\ Head(toPage).id = "offer"
    /\ toPage' = Tail(toPage)
    /\ \/ /\ first' = IF first = None THEN Head(toPage).peer ELSE first
          /\ toWorker' = Relayed(Signal("answer", Head(toPage).peer))
          /\ added' = added \cup waiting
          /\ waiting' = {}
       \/ first # None /\ UNCHANGED <<first, toWorker, added, waiting>>
    /\ UNCHANGED <<attempt, shown, form, gathered, peerVars, pending>>

(* A candidate: added, or kept until there is a remote description.        *)
TakeCandidate ==
    /\ shown /\ toPage # <<>> /\ Head(toPage).id = "candidate"
    /\ toPage' = Tail(toPage)
    /\ IF first = None
       THEN waiting' = waiting \cup {Head(toPage)} /\ UNCHANGED added
       ELSE added' = added \cup {Head(toPage)} /\ UNCHANGED waiting
    /\ UNCHANGED <<attempt, shown, form, first, gathered, toWorker, peerVars, pending>>

(* onicecandidate, which the browser calls once there is a local           *)
(* description.                                                            *)
PageGathers ==
    /\ shown /\ first # None
    /\ gathered < PageCandidates
    /\ gathered' = gathered + 1
    /\ toWorker' = Relayed(Signal("candidate", gathered + 1))
    /\ UNCHANGED <<attempt, shown, form, first, waiting, added, toPage,
                   peerVars, pending>>

-----------------------------------------------------------------------------
(* The worker's router, one message at a time. *)

NextIs(id) == toWorker # <<>> /\ Head(toWorker).id = id

(* Fault: a later answer takes the place of the first.                     *)
AppliedAnew(p, m) ==
    IF ~Decodes(m.id, m.payload) THEN p
    ELSE IF m.id = "answer" THEN [p EXCEPT !.answer = m]
    ELSE [p EXCEPT !.ice = IF p.answer = <<>> THEN @ ELSE @ \cup {m}]

(* apply_answer, apply_candidate, on the descriptions of a peer: a second  *)
(* answer is ignored, a candidate without a remote description refused.    *)
Applied(p, m) ==
    IF ~Decodes(m.id, m.payload) THEN p
    ELSE IF m.id = "answer" THEN [p EXCEPT !.answer = IF @ = <<>> THEN m ELSE @]
    ELSE [p EXCEPT !.ice = IF p.answer = <<>> THEN @ ELSE @ \cup {m}]

(* What p becomes when signals are applied to it in turn.                  *)
AfterSignals(p, signals) ==
    LET after[n \in 0..Len(signals)] ==
            IF n = 0 THEN p ELSE Applied(after[n - 1], signals[n])
    IN  after[Len(signals)]

Apply(k, signals) ==
    LET p == AfterSignals([answer |-> answer[k], ice |-> ice[k]], signals)
    IN  /\ answer' = [answer EXCEPT ![k] = p.answer]
        /\ ice' = [ice EXCEPT ![k] = p.ice]

(* create_session: the new peer gathers candidates from the moment it has  *)
(* a local description, so that some may go out before the offer. Signals  *)
(* that were kept are replayed. If a session is registered already, the    *)
(* new peer is closed, and there is neither an offer nor a replay.         *)
InitWebrtc ==
    /\ NextIs("initwebrtc")
    /\ toWorker' = Tail(toWorker)
    /\ LET k == Head(toWorker).attempt
       IN \E early \in 0..PeerCandidates :
          /\ emitted' = [emitted EXCEPT ![k] = early]
          /\ IF session = None
             THEN /\ session' = k
                  /\ toPage' = toPage \o Candidates(k, early) \o <<Offer(k)>>
                  /\ Apply(k, pending)
                  /\ pending' = <<>>
             ELSE /\ toPage' = toPage \o Candidates(k, early)
                  /\ UNCHANGED <<session, answer, ice, pending>>
    /\ UNCHANGED <<pageVars, ends>>

(* Fault: what was kept for the session stays when it ends.                *)
TerminateSessionKeeping ==
    /\ NextIs("terminateSession")
    /\ toWorker' = Tail(toWorker)
    /\ session' = None
    /\ UNCHANGED <<pageVars, toPage, answer, ice, emitted, ends, pending>>

TerminateSession ==
    /\ NextIs("terminateSession")
    /\ toWorker' = Tail(toWorker)
    /\ pending' = <<>>
    /\ session' = None
    /\ UNCHANGED <<pageVars, toPage, answer, ice, emitted, ends>>

(* Fault: the oldest signal is not dropped.                                *)
EnqueuedFreely(m) == Append(pending, m)

(* PendingSessionSignals::enqueue.                                         *)
Enqueued(m) ==
    Append(IF Len(pending) >= MaxPending THEN Tail(pending) ELSE pending, m)

(* answer, candidate: applied to the registered session, or kept.          *)
HandleSignal ==
    /\ NextIs("answer") \/ NextIs("candidate")
    /\ toWorker' = Tail(toWorker)
    /\ IF session # None
       THEN Apply(session, <<Head(toWorker)>>) /\ UNCHANGED pending
       ELSE pending' = Enqueued(Head(toWorker)) /\ UNCHANGED <<answer, ice>>
    /\ UNCHANGED <<pageVars, toPage, session, emitted, ends>>

-----------------------------------------------------------------------------
(* The tasks of a peer k. *)

(* The router has handled the request of attempt k.                        *)
Created(k) ==
    /\ k <= attempt
    /\ \A i \in DOMAIN toWorker : toWorker[i].id = "initwebrtc" => toWorker[i].attempt # k

(* on_ice_candidate.                                                       *)
PeerGathers(k) ==
    /\ Created(k)
    /\ emitted[k] < PeerCandidates
    /\ emitted' = [emitted EXCEPT ![k] = @ + 1]
    /\ toPage' = Append(toPage, Candidate(k, emitted[k] + 1))
    /\ UNCHANGED <<pageVars, toWorker, session, answer, ice, ends, pending>>

(* The state callback, on Failed and on Closed, and the end of the video   *)
(* sender task: each drops the session of the client, whichever it is. A   *)
(* peer that is still registered fails only after it was answered.         *)
PeerEnding(k) ==
    /\ Created(k)
    /\ session = k => answer[k] # <<>>
    /\ ends[k] < PeerEnds
    /\ ends' = [ends EXCEPT ![k] = @ + 1]
    /\ session' = None
    /\ UNCHANGED <<pageVars, toWorker, toPage, answer, ice, emitted, pending>>

PageStep == TakeOffer \/ TakeCandidate
RouterStep == InitWebrtc \/ TerminateSession \/ HandleSignal

Next ==
    \/ Show \/ Leave \/ PageGathers
    \/ PageStep \/ RouterStep
    \/ \E k \in Attempts : PeerGathers(k) \/ PeerEnding(k)

(* The page processes what its socket delivers, the worker's router what   *)
(* it reads. Neither of them need ever be shown, gather or fail.           *)
Spec == Init /\ [][Next]_vars /\ WF_vars(PageStep) /\ WF_vars(RouterStep)

-----------------------------------------------------------------------------
(* A peer is given only what the page sent in the attempt the peer was     *)
(* made for, although sessions end at any time and signals that find none  *)
(* are kept for the next one (signal_router.rs:20-49, 81-148).             *)
AttemptsDoNotMix ==
    \A k \in Attempts :
        /\ answer[k] # <<>> => answer[k].attempt = k
        /\ \A m \in ice[k] : m.attempt = k

(* A request finds no session that is still registered, where it would be  *)
(* refused and make no offer, and no signal that was kept: whatever the    *)
(* peer's tasks dropped and the router kept in between, the end of the     *)
(* last attempt reached the router first and cleared both                  *)
(* (signal_router.rs:93-117, webrtc_session.rs:309-321).                   *)
RequestsStartAfresh == NextIs("initwebrtc") => session = None /\ pending = <<>>

(* The session is that of the attempt the page is in. It is left before    *)
(* the next attempt begins.                                                *)
Lasts == shown /\ session = attempt

(* The session's peer takes the answer to the first offer that the page    *)
(* took in this attempt, be it for this session or an earlier one of the   *)
(* page: that answer is on its way ahead of any other, or it is the remote *)
(* description and stays it (gameSessionRuntime.js:377-402,                *)
(* protocol.rs:398-445, webrtc_session.rs:37-66, signal_router.rs:146-164).*)
FirstAnswerCounts ==
    Lasts /\ first # None /\ Accepted(form) =>
        IF answer[attempt] # <<>> THEN answer[attempt].n = first
        ELSE \E i \in DOMAIN toWorker :
                /\ toWorker[i].id = "answer" /\ toWorker[i].n = first
                /\ \A j \in 1..(i - 1) : toWorker[j].id # "answer"

(* A page whose first offer is that of its own session gets its answer     *)
(* through, in whatever form it writes it, unless the session ends or the  *)
(* page is left (gameSessionRuntime.js:377-402, protocol.rs:398-445,       *)
(* webrtc_session.rs:37-66, signal_router.rs:149-169).                     *)
FirstOfferIsAnswered ==
    (Lasts /\ first = attempt /\ Accepted(form))
        ~> (~Lasts \/ (answer[attempt] # <<>> /\ answer[attempt].n = attempt))

(* Every candidate of the session's peer reaches the page's connection,    *)
(* the ones that were sent before the offer too, unless the session ends   *)
(* or the page is left (gameSessionRuntime.js:350-366, 404-415,            *)
(* webrtc_session.rs:204-229, 257-264).                                    *)
CandidatesArrive ==
    \A n \in 1..PeerCandidates :
        (Lasts /\ emitted[attempt] >= n) ~> (~Lasts \/ Candidate(attempt, n) \in added)
=============================================================================
