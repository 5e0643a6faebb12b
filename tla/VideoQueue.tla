------------------------------ MODULE VideoQueue ------------------------------
(***************************************************************************)
(* The frames of one viewer: VideoSampleQueue (arcade-worker/src/room.rs)  *)
(* and the task of webrtc_session.rs that empties it into the video track. *)
(* Three actors share the queue: the frame thread pushes, the sender task  *)
(* pops, and whoever unregisters the session closes it.  The buffer has a  *)
(* lock; the closed flag and the Notify are outside of it, so each access  *)
(* to one of the three is a step.                                          *)
(***************************************************************************)
EXTENDS Naturals, SequencesExt

CONSTANTS
    Capacity,   \* VIDEO_SESSION_QUEUE_CAPACITY, at least 1
    MaxFrames,  \* bound: frames pushed in a behaviour
    None

ASSUME CapacityAssumption == Capacity \in Nat \ {0}
ASSUME BoundAssumption == MaxFrames \in Nat

Frame == [no : 1..MaxFrames, key : BOOLEAN]

ASSUME NoneAssumption == None \notin Frame

VARIABLES
    buffer,     \* queued frames, oldest first
    closed,
    permit,     \* the Notify holds a permit for the next waiter
    pushed,     \* frames the frame thread has come with so far
    incoming,   \* the frame it holds past the closed check, None otherwise
    owesNotify, \* it has enqueued a frame and not yet notified
    sender,     \* where the sender task is
    holding,    \* the frame it popped and writes
    sent,       \* the frames it wrote
    closer,     \* progress of close(): "no", "stored", "done"
    missed      \* history: close() woke nobody, the sender being between
                \* its closed check and its registration as a waiter, with
                \* no permit to find there

vars == <<buffer, closed, permit, pushed, incoming, owesNotify,
          sender, holding, sent, closer, missed>>

TypeOK ==
    /\ buffer \in Seq(Frame) /\ Len(buffer) <= Capacity
    /\ closed \in BOOLEAN
    /\ permit \in BOOLEAN
    /\ pushed \in 0..MaxFrames
    /\ incoming \in Frame \cup {None}
    /\ owesNotify \in BOOLEAN
    /\ sender \in {"pop", "check", "gap", "waiting", "write", "ended"}
    /\ holding \in Frame \cup {None}
    /\ sent \in Seq(Frame)
    /\ closer \in {"no", "stored", "done"}
    /\ missed \in BOOLEAN

Init ==
    /\ buffer = <<>>
    /\ closed = FALSE
    /\ permit = FALSE
    /\ pushed = 0
    /\ incoming = None
    /\ owesNotify = FALSE
    /\ sender = "pop"
    /\ holding = None
    /\ sent = <<>>
    /\ closer = "no"
    /\ missed = FALSE

-----------------------------------------------------------------------------
(* The frame thread: push. *)

Offer(key) ==
    /\ incoming = None /\ ~owesNotify
    /\ pushed < MaxFrames
    /\ pushed' = pushed + 1
    /\ incoming' = IF closed THEN None ELSE [no |-> pushed + 1, key |-> key]
    /\ UNCHANGED <<buffer, closed, permit, owesNotify, sender, holding, sent, closer, missed>>

(* What a full queue gives up for a frame, and whether the frame goes in.  *)
FrontIsKey == buffer # <<>> /\ Head(buffer).key

(* Fault: one frame more than the capacity.                                *)
MadeRoomLate(frame) ==
    IF Len(buffer) <= Capacity THEN buffer
    ELSE IF frame.key THEN <<>>
    ELSE IF FrontIsKey THEN RemoveAt(buffer, 2)
    ELSE Tail(buffer)

MadeRoom(frame) ==
    IF Len(buffer) < Capacity THEN buffer
    ELSE IF frame.key THEN <<>>
    ELSE IF FrontIsKey THEN RemoveAt(buffer, 2)
    ELSE Tail(buffer)

Refused(frame) == Len(buffer) >= Capacity /\ ~frame.key /\ FrontIsKey /\ Len(buffer) = 1

Enqueue ==
    /\ incoming # None
    /\ IF Refused(incoming)
       THEN UNCHANGED <<buffer, owesNotify>>
       ELSE /\ buffer' = Append(MadeRoom(incoming), incoming)
            /\ owesNotify' = TRUE
    /\ incoming' = None
    /\ UNCHANGED <<closed, permit, pushed, sender, holding, sent, closer, missed>>

(* Fault: a push wakes a waiter and leaves no permit.                      *)
NotifyWaiterOnly ==
    /\ owesNotify
    /\ owesNotify' = FALSE
    /\ sender' = IF sender = "waiting" THEN "pop" ELSE sender
    /\ UNCHANGED <<buffer, closed, permit, pushed, incoming, holding, sent, closer, missed>>

(* notify_one wakes the waiter, or leaves a permit for the next one.       *)
NotifyOne ==
    /\ owesNotify
    /\ owesNotify' = FALSE
    /\ sender' = IF sender = "waiting" THEN "pop" ELSE sender
    /\ permit' = (permit \/ sender # "waiting")
    /\ UNCHANGED <<buffer, closed, pushed, incoming, holding, sent, closer, missed>>

-----------------------------------------------------------------------------
(* The sender task: pop in a loop, and write.  Deltas that come before the *)
(* first keyframe are thrown away.                                         *)

(* Fault: the stream may begin with a delta frame.                         *)
PopAnything ==
    /\ sender = "pop"
    /\ IF buffer = <<>>
       THEN sender' = "check" /\ UNCHANGED <<buffer, holding>>
       ELSE /\ buffer' = Tail(buffer)
            /\ sender' = "write" /\ holding' = Head(buffer)
    /\ UNCHANGED <<closed, permit, pushed, incoming, owesNotify, sent, closer, missed>>

Pop ==
    /\ sender = "pop"
    /\ IF buffer = <<>>
       THEN sender' = "check" /\ UNCHANGED <<buffer, holding>>
       ELSE /\ buffer' = Tail(buffer)
            /\ IF sent = <<>> /\ ~Head(buffer).key
               THEN UNCHANGED <<sender, holding>>
               ELSE sender' = "write" /\ holding' = Head(buffer)
    /\ UNCHANGED <<closed, permit, pushed, incoming, owesNotify, sent, closer, missed>>

CheckClosed ==
    /\ sender = "check"
    /\ sender' = IF closed THEN "ended" ELSE "gap"
    /\ UNCHANGED <<buffer, closed, permit, pushed, incoming, owesNotify,
                   holding, sent, closer, missed>>

(* notified().await: a permit is used up at once.                          *)
Enrol ==
    /\ sender = "gap"
    /\ sender' = IF permit THEN "pop" ELSE "waiting"
    /\ permit' = FALSE
    /\ UNCHANGED <<buffer, closed, pushed, incoming, owesNotify, holding, sent, closer, missed>>

WriteSample ==
    /\ sender = "write"
    /\ sent' = Append(sent, holding)
    /\ holding' = None
    /\ sender' = "pop"
    /\ UNCHANGED <<buffer, closed, permit, pushed, incoming, owesNotify, closer, missed>>

(* A failed write ends the loop; the task then closes its own queue.       *)
WriteFails ==
    /\ sender = "write"
    /\ holding' = None
    /\ sender' = "ended"
    /\ closed' = TRUE
    /\ UNCHANGED <<buffer, permit, pushed, incoming, owesNotify, sent, closer, missed>>

-----------------------------------------------------------------------------
(* close by unregister_client_session: the flag, then notify_waiters, which *)
(* wakes the waiter there is and leaves no permit.                         *)
StoreClosed ==
    /\ closer = "no"
    /\ closer' = "stored"
    /\ closed' = TRUE
    /\ UNCHANGED <<buffer, permit, pushed, incoming, owesNotify, sender, holding, sent, missed>>

(* Fault: closing wakes nobody.                                            *)
NotifyNobody ==
    /\ closer = "stored"
    /\ closer' = "done"
    /\ missed' = (sender = "gap" /\ ~permit)
    /\ UNCHANGED <<buffer, closed, permit, pushed, incoming, owesNotify, sender, holding, sent>>

NotifyWaiters ==
    /\ closer = "stored"
    /\ closer' = "done"
    /\ sender' = IF sender = "waiting" THEN "pop" ELSE sender
    /\ missed' = (sender = "gap" /\ ~permit)
    /\ UNCHANGED <<buffer, closed, permit, pushed, incoming, owesNotify, holding, sent>>

-----------------------------------------------------------------------------
FrameThread == (\E key \in BOOLEAN : Offer(key)) \/ Enqueue \/ NotifyOne
SenderTask == Pop \/ CheckClosed \/ Enrol \/ WriteSample \/ WriteFails
Closer == StoreClosed \/ NotifyWaiters

Next == FrameThread \/ SenderTask \/ Closer

Spec == Init /\ [][Next]_vars

(* The task is scheduled while it is ready and its writes return; a push   *)
(* and a close that have begun run to their end. Nothing makes frames come *)
(* or a session be unregistered.                                           *)
LiveSpec ==
    /\ Spec
    /\ WF_vars(SenderTask)
    /\ WF_vars(Enqueue) /\ WF_vars(NotifyOne)
    /\ WF_vars(NotifyWaiters)

-----------------------------------------------------------------------------
(* Whatever was dropped under pressure, the viewer's decoder can start and *)
(* time never runs backwards: what is written begins with a keyframe and   *)
(* goes on in the order of pushing, and so does what is still to come      *)
(* (room.rs:157-180, webrtc_session.rs:290-307).                           *)
StreamStartsAndAdvances ==
    LET ahead == IF holding = None THEN buffer ELSE <<holding>> \o buffer
        stream == sent \o ahead
    IN  /\ \A i, j \in DOMAIN stream : i < j => stream[i].no < stream[j].no
        /\ sent # <<>> => sent[1].key

(* The sender task never sleeps on work: while it waits, a queued frame    *)
(* has a push that is about to wake it, and a closed queue a close() that  *)
(* is, but for the close() that fell between its check and its wait        *)
(* (room.rs:137-140, 180-201).                                             *)
NoLostWakeUp ==
    sender = "waiting" =>
        /\ buffer # <<>> => owesNotify
        /\ closed => closer = "stored" \/ missed

(* An overfull queue only ever skips frames, it does not stop the viewer:  *)
(* each queued frame leaves the queue, so no push is left without its wake *)
(* up (room.rs:180-201).                                                   *)
QueuedFramesMove ==
    \A n \in 1..MaxFrames :
        (\E i \in DOMAIN buffer : buffer[i].no = n) ~>
            \/ \A i \in DOMAIN buffer : buffer[i].no # n
            \/ sender = "ended"

(* Closing the queue ends the sender task, which owns the peer connection, *)
(* unless close() fell between the task's closed check and its wait, with  *)
(* no permit there, and so woke nobody: then only a push that began before *)
(* is left to wake it, later ones being refused (room.rs:137-147, 187-201). *)
CloseEndsSender == closed ~> (sender = "ended" \/ missed)
=============================================================================
