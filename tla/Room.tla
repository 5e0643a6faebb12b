-------------------------------- MODULE Room --------------------------------
(***************************************************************************)
(* The room of a worker (arcade-worker/src/room.rs): the WebRTC sessions   *)
(* of its viewers, the player slots of viewers and phones, and the inputs  *)
(* they send.  It is shared by the signal router, which handles one        *)
(* message at a time, and by tasks that belong to each session: the task   *)
(* that sends its video, the callback on the state of its peer connection  *)
(* and the callback on its input channel (webrtc_session.rs).  Sessions    *)
(* and slots have a lock each and the session count is an atomic, so a     *)
(* teardown is a sequence of critical sections and teardowns interleave.   *)
(*                                                                         *)
(* What a client's page does is taken from the portal: it asks for one     *)
(* stream at a time, and its Reconnect button sends terminateSession and   *)
(* initwebrtc again on the same socket, under the same client id           *)
(* (gameSessionRuntime.js, App.jsx:453).                                   *)
(***************************************************************************)
EXTENDS Naturals, Sequences, FiniteSets

CONSTANTS
    Viewers,    \* clients with a page that shows the game
    Phones,     \* clients that are only controllers
    Sessions,   \* WebRTC sessions the worker may create, each used once
    MaxPlayers, \* MAX_PLAYERS
    None

Clients == Viewers \cup Phones
Slots == 1..MaxPlayers

ASSUME PlayersAssumption == MaxPlayers \in Nat \ {0}
ASSUME NoneAssumption == None \notin Clients \cup Sessions
ASSUME ClientsAssumption == Viewers \cap Phones = {}

VARIABLES
    asked,          \* clients whose last request has not been terminated
    sessions,       \* client -> its registered session
    sessionCount,
    owner,          \* session -> the client it was created for
    peer,           \* session -> state of its peer connection
    queueClosed,    \* sessions whose video queue is closed
    sending,        \* sessions whose video sender task has not ended
    slots,          \* player slot -> client
    reported,       \* player count last sent to the signaling server
    refresh,        \* the frame sender is asked for a new encoder
    covered,        \* sessions registered when it last took that request
    late,           \* history: clients whose channel delivered after the end
    todo            \* what is left of the handler each task runs

vars == <<asked, sessions, sessionCount, owner, peer, queueClosed, sending,
          slots, reported, refresh, covered, late, todo>>

sessionVars == <<sessions, sessionCount, owner, peer, queueClosed, sending>>
playerVars == <<slots, reported>>
videoVars == <<refresh, covered>>

Router == <<"router">>
VideoTask(s) == <<"video", s>>
StateTask(s) == <<"state", s>>
Tasks == {Router} \cup {VideoTask(s) : s \in Sessions} \cup {StateTask(s) : s \in Sessions}

(* The steps of a teardown and of the end of create_session.               *)
Remove(c, closes) == [op |-> "remove", client |-> c, closes |-> closes]
Discard(s) == [op |-> "discard", session |-> s]
Release(c) == [op |-> "release", client |-> c]
ReadCount == [op |-> "readCount"]
SendCount(n) == [op |-> "sendCount", count |-> n]
ClosePeer(s) == [op |-> "closePeer", session |-> s]
NoteRegistered == [op |-> "noteRegistered"]

Step ==
    [op : {"remove"}, client : Clients, closes : BOOLEAN]
    \cup [op : {"discard", "closePeer"}, session : Sessions]
    \cup [op : {"release"}, client : Clients]
    \cup [op : {"sendCount"}, count : 0..MaxPlayers]
    \cup [op : {"readCount", "noteRegistered"}]

TypeOK ==
    /\ asked \subseteq Clients
    /\ sessions \in [Clients -> Sessions \cup {None}]
    /\ sessionCount \in Nat
    /\ owner \in [Sessions -> Viewers \cup {None}]
    /\ peer \in [Sessions -> {"new", "connected", "failed", "closing", "closed"}]
    /\ queueClosed \subseteq Sessions
    /\ sending \subseteq Sessions
    /\ slots \in [Slots -> Clients \cup {None}]
    /\ reported \in 0..MaxPlayers
    /\ refresh \in BOOLEAN
    /\ covered \subseteq Sessions
    /\ late \subseteq Clients
    /\ todo \in [Tasks -> Seq(Step)]

Init ==
    /\ asked = {}
    /\ sessions = [c \in Clients |-> None]
    /\ sessionCount = 0
    /\ owner = [s \in Sessions |-> None]
    /\ peer = [s \in Sessions |-> "new"]
    /\ queueClosed = {}
    /\ sending = {}
    /\ slots = [i \in Slots |-> None]
    /\ reported = 0
    /\ refresh = FALSE
    /\ covered = {}
    /\ late = {}
    /\ todo = [t \in Tasks |-> <<>>]

-----------------------------------------------------------------------------
(* Player slots. *)

Players == {slots[i] : i \in Slots} \ {None}
Count == Cardinality({i \in Slots : slots[i] # None})
FreeSlots == {i \in Slots : slots[i] = None}

First(I) == CHOOSE i \in I : \A j \in I : i <= j
FirstFree == First(FreeSlots)
SlotOf(c) == First({i \in Slots : slots[i] = c})

(* join_room, and buffer_or_send_input, which joins a client that has no   *)
(* slot: slots are assigned and the count sent under one lock. A client    *)
(* that finds no slot has the count sent again. (Where the input itself    *)
(* goes, to the emulator or to a buffer, changes none of this state.)      *)
Assign(c) ==
    IF c \in Players THEN UNCHANGED <<slots, reported>>
    ELSE IF FreeSlots = {} THEN UNCHANGED slots /\ reported' = Count
    ELSE slots' = [slots EXCEPT ![FirstFree] = c] /\ reported' = Count + 1

(* join_room: the look at the slots, the assignment and the request for a  *)
(* new encoder (room.rs:345-347) are one step. A release in between could  *)
(* only leave out the last; what a new session needs it asks for itself.   *)
Join(c) ==
    /\ Assign(c)
    /\ refresh' = (refresh \/ c \notin Players)
    /\ UNCHANGED covered

-----------------------------------------------------------------------------
(* Executing the next step of a task. *)

NextIs(t, op) == todo[t] # <<>> /\ Head(todo[t]).op = op
Continue(t, steps) == todo' = [todo EXCEPT ![t] = steps \o Tail(@)]
Finish(t) == Continue(t, <<>>)

(* Fault: a teardown goes on although another one took the session.        *)
DoRemoveAlways(t) ==
    /\ NextIs(t, "remove")
    /\ LET c == Head(todo[t]).client
       IN  /\ sessions' = [sessions EXCEPT ![c] = None]
           /\ Continue(t, <<Discard(sessions[c]), Release(c)>>)
    /\ UNCHANGED <<asked, sessionCount, owner, peer, queueClosed, sending,
                   playerVars, videoVars, late>>

(* unregister_client_session returns at once when the client has no        *)
(* session, whosever session it is otherwise; the rest of it follows.      *)
DoRemove(t) ==
    /\ NextIs(t, "remove")
    /\ LET c == Head(todo[t]).client
           s == sessions[c]
       IN  /\ sessions' = [sessions EXCEPT ![c] = None]
           /\ Continue(t, IF s = None THEN <<>>
                          ELSE <<Discard(s), Release(c)>>
                               \o (IF Head(todo[t]).closes THEN <<ClosePeer(s)>> ELSE <<>>))
    /\ UNCHANGED <<asked, sessionCount, owner, peer, queueClosed, sending,
                   playerVars, videoVars, late>>

(* Fault: the count is not lowered.                                        *)
DoDiscardUncounted(t) ==
    /\ NextIs(t, "discard")
    /\ queueClosed' = queueClosed \cup {Head(todo[t]).session}
    /\ Finish(t)
    /\ UNCHANGED <<asked, sessions, sessionCount, owner, peer, sending,
                   playerVars, videoVars, late>>

(* Fault: the queue of a removed session stays open.                       *)
DoDiscardUnclosed(t) ==
    /\ NextIs(t, "discard")
    /\ sessionCount' = sessionCount - 1
    /\ Finish(t)
    /\ UNCHANGED <<asked, sessions, owner, peer, queueClosed, sending,
                   playerVars, videoVars, late>>

(* The count is lowered and the video queue closed after the lock on the   *)
(* sessions is gone; nothing here tells the two apart.                     *)
DoDiscard(t) ==
    /\ NextIs(t, "discard")
    /\ sessionCount' = sessionCount - 1
    /\ queueClosed' = queueClosed \cup {Head(todo[t]).session}
    /\ Finish(t)
    /\ UNCHANGED <<asked, sessions, owner, peer, sending, playerVars, videoVars, late>>

(* release_client; only if a slot was given up is a count read and sent.   *)
DoRelease(t) ==
    /\ NextIs(t, "release")
    /\ LET c == Head(todo[t]).client
       IN  /\ slots' = IF c \in Players THEN [slots EXCEPT ![SlotOf(c)] = None] ELSE slots
           /\ Continue(t, IF c \in Players THEN <<ReadCount>> ELSE <<>>)
    /\ UNCHANGED <<asked, sessionVars, reported, videoVars, late>>

DoReadCount(t) ==
    /\ NextIs(t, "readCount")
    /\ Continue(t, <<SendCount(Count)>>)
    /\ UNCHANGED <<asked, sessionVars, playerVars, videoVars, late>>

DoSendCount(t) ==
    /\ NextIs(t, "sendCount")
    /\ reported' = Head(todo[t]).count
    /\ Finish(t)
    /\ UNCHANGED <<asked, sessionVars, slots, videoVars, late>>

(* peer.close() runs in a task of its own, or at the end of one: a peer is *)
(* "closing" from the moment that is asked.                                *)
DoClosePeer(t) ==
    /\ NextIs(t, "closePeer")
    /\ LET s == Head(todo[t]).session
       IN  peer' = [peer EXCEPT ![s] = IF @ = "closed" THEN @ ELSE "closing"]
    /\ Finish(t)
    /\ UNCHANGED <<asked, sessions, sessionCount, owner, queueClosed, sending,
                   playerVars, videoVars, late>>

(* Fault: a new session does not ask for an encoder.                       *)
DoNoteNothing(t) ==
    /\ NextIs(t, "noteRegistered")
    /\ Finish(t)
    /\ UNCHANGED <<asked, sessionVars, playerVars, videoVars, late>>

DoNoteRegistered(t) ==
    /\ NextIs(t, "noteRegistered")
    /\ refresh' = TRUE
    /\ Finish(t)
    /\ UNCHANGED <<asked, sessionVars, playerVars, covered, late>>

Proceed(t) ==
    \/ DoRemove(t) \/ DoDiscard(t) \/ DoRelease(t)
    \/ DoReadCount(t) \/ DoSendCount(t) \/ DoClosePeer(t) \/ DoNoteRegistered(t)

-----------------------------------------------------------------------------
(* The router: one message at a time. *)

RouterIdle == todo[Router] = <<>>
RouterRuns(steps) == todo' = [todo EXCEPT ![Router] = steps]

(* initwebrtc: create_session starts the video sender task, registers the  *)
(* session and asks for a new encoder. A session that cannot be registered *)
(* has its peer closed, and its sender task stays. The insert and the      *)
(* fetch_add (room.rs:338-339) are one step: both are done under the lock, *)
(* and has_video_sessions, which reads it without, is FrameSender's.       *)
InitWebrtc(c, s) ==
    /\ RouterIdle
    /\ c \notin asked
    /\ owner[s] = None
    /\ asked' = asked \cup {c}
    /\ owner' = [owner EXCEPT ![s] = c]
    /\ sending' = sending \cup {s}
    /\ IF sessions[c] = None
       THEN /\ sessions' = [sessions EXCEPT ![c] = s]
            /\ sessionCount' = sessionCount + 1
            /\ RouterRuns(<<NoteRegistered>>)
       ELSE /\ UNCHANGED <<sessions, sessionCount>>
            /\ RouterRuns(<<ClosePeer(s)>>)
    /\ late' = late \ {c}
    /\ UNCHANGED <<peer, queueClosed, playerVars, videoVars>>

(* answer, when it finds its session.                                      *)
Answer(c) ==
    /\ RouterIdle
    /\ sessions[c] # None
    /\ peer[sessions[c]] = "new"
    /\ peer' = [peer EXCEPT ![sessions[c]] = "connected"]
    /\ UNCHANGED <<asked, sessions, sessionCount, owner, queueClosed, sending,
                   playerVars, videoVars, late, todo>>

(* Fault: only a client with a session gives up its slot.                  *)
TerminateSessionOnly(c) ==
    /\ RouterIdle
    /\ c \in asked
    /\ asked' = asked \ {c}
    /\ RouterRuns(<<Remove(c, TRUE)>>)
    /\ UNCHANGED <<sessionVars, playerVars, videoVars, late>>

(* terminateSession: release_input_source, then the session is torn down.  *)
TerminateSession(c) ==
    /\ RouterIdle
    /\ c \in asked
    /\ asked' = asked \ {c}
    /\ RouterRuns(<<Release(c), Remove(c, TRUE)>>)
    /\ UNCHANGED <<sessionVars, playerVars, videoVars, late>>

JoinRoom(p) ==
    /\ RouterIdle
    /\ asked' = asked \cup {p}
    /\ Join(p)
    /\ UNCHANGED <<sessionVars, late, todo>>

Input(c) ==
    /\ RouterIdle
    /\ c \in asked
    /\ Join(c)
    /\ UNCHANGED <<asked, sessionVars, late, todo>>

-----------------------------------------------------------------------------
(* The tasks of a session s. *)

(* A message on the input channel; the channel delivers until the peer has *)
(* closed.                                                                 *)
ChannelInput(s) ==
    /\ peer[s] \in {"connected", "closing"}
    /\ owner[s] # None
    /\ Join(owner[s])
    /\ late' = late \cup ({owner[s]} \ asked)
    /\ UNCHANGED <<asked, sessionVars, todo>>

(* The state callback, on Failed and on Closed.                            *)
StateChanges(s, state) ==
    /\ peer' = [peer EXCEPT ![s] = state]
    /\ todo' = [todo EXCEPT ![StateTask(s)] = Append(@, Remove(owner[s], TRUE))]
    /\ UNCHANGED <<asked, sessions, sessionCount, owner, queueClosed, sending,
                   playerVars, videoVars, late>>

PeerFails(s) == peer[s] = "connected" /\ StateChanges(s, "failed")
PeerCloses(s) == peer[s] = "closing" /\ StateChanges(s, "closed")

(* The sender task ends when its queue is closed or a write fails. It      *)
(* closes the queue, unregisters whatever session its client has, and      *)
(* closes its own peer.                                                    *)
VideoEnds(s) ==
    /\ s \in sending
    /\ s \in queueClosed \/ peer[s] # "new"
    /\ sending' = sending \ {s}
    /\ queueClosed' = queueClosed \cup {s}
    /\ todo' = [todo EXCEPT ![VideoTask(s)] = <<Remove(owner[s], FALSE), ClosePeer(s)>>]
    /\ UNCHANGED <<asked, sessions, sessionCount, owner, peer, playerVars, videoVars, late>>

-----------------------------------------------------------------------------
(* The frame sender, before a frame: next_video_sender_update.             *)
TakeUpdate ==
    /\ refresh
    /\ refresh' = FALSE
    /\ covered' = {sessions[c] : c \in Clients} \ {None}
    /\ UNCHANGED <<asked, sessionVars, playerVars, late, todo>>

Next ==
    \/ \E t \in Tasks : Proceed(t)
    \/ \E c \in Viewers, s \in Sessions : InitWebrtc(c, s)
    \/ \E c \in Viewers : Answer(c)
    \/ \E c \in Clients : TerminateSession(c) \/ Input(c)
    \/ \E p \in Phones : JoinRoom(p)
    \/ \E s \in Sessions : ChannelInput(s) \/ PeerFails(s) \/ PeerCloses(s) \/ VideoEnds(s)
    \/ TakeUpdate

Spec == Init /\ [][Next]_vars

-----------------------------------------------------------------------------
Registered == {sessions[c] : c \in Clients} \ {None}
Pending(op) == {t \in Tasks : \E i \in DOMAIN todo[t] : todo[t][i].op = op}
Quiet == \A t \in Tasks : todo[t] = <<>>

(* The atomic counter, by which the emulator decides to run and frames are *)
(* captured, never falls short of the sessions there are, and exceeds them *)
(* by the teardowns that have yet to count down; it does not underflow     *)
(* (room.rs:279, 339, 383-390, emulator_thread.rs:31).                     *)
SessionCountIsRight ==
    sessionCount = Cardinality(Registered) + Cardinality(Pending("discard"))

(* No client plays twice, and between teardowns a slot is held only by a   *)
(* client that is there, or one whose input channel delivered something    *)
(* after its session had ended, which gives it a slot again                *)
(* (room.rs:484-519, webrtc_session.rs:253).                               *)
SlotsBelongToPlayers ==
    /\ \A i, j \in Slots : slots[i] # None /\ slots[i] = slots[j] => i = j
    /\ Quiet => Players \subseteq asked \cup late

(* A new viewer is never left without a keyframe: until the frame sender   *)
(* has taken a request made after the session was registered, the request  *)
(* stands, or is about to (room.rs:77-86, 109, webrtc_session.rs:315-320). *)
NewSessionsGetRefresh ==
    Registered \subseteq covered \/ refresh \/ todo[Router] = <<NoteRegistered>>

(* A session that was removed is not left half closed, whichever task      *)
(* removed it and however teardowns overlap: once no task has work left,   *)
(* its video queue is closed, and its peer is closed or closing, unless    *)
(* its own sender task is there to close it, as it does when it ends. That *)
(* the sender ends once its queue is closed is not said here: that is      *)
(* CloseEndsSender of VideoQueue, with the wake-up that may be missed      *)
(* there (room.rs:382-416, webrtc_session.rs:183-202, 308-311,             *)
(* signal_router.rs:101-117).                                              *)
Removed(s) == owner[s] # None /\ s \notin Registered
PeerIsClosed(s) == peer[s] \in {"closing", "closed"}

RemovedSessionsAreClosed ==
    Quiet => \A s \in Sessions : Removed(s) =>
        s \in queueClosed /\ (PeerIsClosed(s) \/ s \in sending)

(* The Reconnect button of the page (App.jsx:650-656) ends one session and *)
(* asks for another under the same client id: while its client wants it, a *)
(* session is taken from the room only by its own tasks, because its own   *)
(* peer failed or its own video could not be sent.                         *)
ReconnectedSessionsStay ==
    [][\A s \in Registered \ Registered' :
          owner[s] \in asked =>
              \E t \in {VideoTask(s), StateTask(s)} : todo'[t] # todo[t]]_vars
=============================================================================
