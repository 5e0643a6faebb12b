----------------------------- MODULE FrameSender -----------------------------
(***************************************************************************)
(* Encoder control and frame pacing (arcade-worker/src/video_sender.rs):   *)
(* one thread takes the frames the core produces, encodes them for all     *)
(* viewers together and hands them to the queues of the sessions.  It      *)
(* meets the rest of the worker only in the flags of VideoControl          *)
(* (room.rs:68-117), which tasks of the sessions raise at any time, in the *)
(* map of sessions, and in the pressure its own broadcasts record.         *)
(*                                                                         *)
(* A frame is handled in two steps: up to the encoded payload, and the     *)
(* broadcast, between which sessions come and go.  Its picture is its      *)
(* size; a payload is whether it is a keyframe and whether it is below     *)
(* half the payload limit, below it or above.  The encoder is a library:   *)
(* a new one starts with a keyframe, one that was asked for an intra frame *)
(* produces it next, any other frame may be a keyframe, and it may fail.   *)
(***************************************************************************)
EXTENDS Naturals, FiniteSets

CONSTANTS
    Sessions,
    Sources,        \* sizes of the core's pictures: [width, height]
    Best, Floor,    \* the first VideoProfile and the lowest one
    Stride,         \* VIDEO_WIDTH_LIMIT_STEP and its like
    Elapsed,        \* milliseconds that may pass between two frames sent
    RefreshFrames,  \* VIDEO_ENCODER_REFRESH_FRAMES
    StableFrames,   \* frames without pressure before the profile is raised
    StartupRetries, \* VIDEO_STARTUP_ENCODE_RETRY_LIMIT
    EmptyRetries,   \* VIDEO_ENCODER_EMPTY_RETRY_THRESHOLD
    ScaleFailures,  \* VIDEO_SCALE_FALLBACK_DISABLE_AFTER
    Wrap,           \* timestamps are modulo 2^32
    None

Profile == [width : Nat, height : Nat, interval : Nat]
Size == [width : Nat, height : Nat]
Payload == [key : BOOLEAN, size : {"small", "large", "oversized"}]

ASSUME ProfileAssumption ==
    /\ Best \in Profile /\ Floor \in Profile /\ Stride \in Profile
    /\ Stride.interval > 0
    /\ Floor.width <= Best.width
    /\ Floor.height <= Best.height
    /\ Best.interval <= Floor.interval

ASSUME SourceAssumption == Sources \subseteq Size /\ Elapsed \subseteq Nat

ASSUME LimitAssumption ==
    /\ {RefreshFrames, StableFrames, EmptyRetries, ScaleFailures, Wrap} \subseteq Nat \ {0}
    /\ StartupRetries \in Nat

ASSUME NoneAssumption == None \notin Profile \cup Payload \cup {"key", "other"}

VARIABLES
    sessions,   \* sessions registered in the room
    leaving,    \* sessions removed from the map and not yet uncounted
    joining,    \* sessions registered whose request is yet to be made
    refresh, forceIdr, pressure,    \* VideoControl
    sender,     \* FrameSenderState
    outgoing,   \* the payload about to be broadcast: "key", "other" or None
    streams,    \* history: sessions that were sent something
    waiting,    \* history: sessions that joined or asked and since then were
                \* sent no keyframe
    unrepaired  \* history: those of them whose keyframe was too large while
                \* the interval was the slowest, and asked for none since

vars == <<sessions, leaving, joining, refresh, forceIdr, pressure, sender,
          outgoing, streams, waiting, unrepaired>>
roomVars == <<sessions, leaving, joining>>
controlVars == <<refresh, forceIdr, pressure>>
viewerVars == <<streams, waiting, unrepaired>>

Pressure == {"none", "busy", "lossy"}

Encoder == [settings : Profile \cup {None}, fresh : BOOLEAN, intra : BOOLEAN,
            streak : 0..EmptyRetries]

InLimits(p) ==
    /\ p \in Profile
    /\ Floor.width <= p.width /\ p.width <= Best.width
    /\ Floor.height <= p.height /\ p.height <= Best.height
    /\ Best.interval <= p.interval /\ p.interval <= Floor.interval

Sender == [profile : {p \in Profile : InLimits(p)}, encoder : Encoder,
           stable : 0..StableFrames, timestamp : 0..(Wrap - 1),
           startup : 0..StartupRetries, sentFirst : BOOLEAN, active : BOOLEAN,
           sinceRefresh : Nat, scaleFailures : 0..ScaleFailures,
           scaledOff : BOOLEAN, source : Size \cup {None}]

TypeOK ==
    /\ sessions \subseteq Sessions
    /\ leaving \subseteq Sessions
    /\ joining \subseteq Sessions
    /\ refresh \in BOOLEAN /\ forceIdr \in BOOLEAN
    /\ pressure \in Pressure
    /\ sender \in Sender
    /\ outgoing \in {"key", "other", None}
    /\ streams \subseteq sessions
    /\ waiting \subseteq sessions
    /\ unrepaired \subseteq waiting

-----------------------------------------------------------------------------
(* Profiles and sizes. *)

AtLeast(n, low) == IF n < low THEN low ELSE n
AtMost(n, high) == IF n > high THEN high ELSE n
Minus(n, d) == IF n > d THEN n - d ELSE 0
CeilDiv(n, d) == (n + d - 1) \div d
Rounded(n, d) == (2 * n + d) \div (2 * d)

(* Fault: the widths are not kept above the lowest profile.                *)
DegradedFreely(p) ==
    [width |-> Minus(p.width, Stride.width),
     height |-> Minus(p.height, Stride.height),
     interval |-> AtMost(p.interval + Stride.interval, Floor.interval)]

Degraded(p) ==
    [width |-> AtLeast(Minus(p.width, Stride.width), Floor.width),
     height |-> AtLeast(Minus(p.height, Stride.height), Floor.height),
     interval |-> AtMost(p.interval + Stride.interval, Floor.interval)]

(* is_min_video_profile guards every degradation; at the lowest profile    *)
(* there is nothing left to lower.                                         *)
Slower(p) == [p EXCEPT !.interval = AtMost(@ + Stride.interval, Floor.interval)]
Faster(p) == [p EXCEPT !.interval = AtLeast(Minus(@, Stride.interval), Best.interval)]

Restored(p) ==
    [width |-> AtMost(p.width + Stride.width, Best.width),
     height |-> AtMost(p.height + Stride.height, Best.height),
     interval |-> AtLeast(Minus(p.interval, Stride.interval), Best.interval)]

(* scale_dimensions: the picture is shrunk to fit both limits, its sides   *)
(* rounded to the nearest pixel and up to whole macroblocks; never         *)
(* enlarged beyond that, and never shrunk below a tenth.                   *)
Blocks(n) == 16 * CeilDiv(AtLeast(n, 16), 16)

Fitted(size, n, d) ==
    [width |-> Blocks(Rounded(size.width * n, d)),
     height |-> Blocks(Rounded(size.height * n, d))]

Scaled(size, p) ==
    LET byWidth == p.width * size.height <= p.height * size.width
        n == IF byWidth THEN p.width ELSE p.height
        d == IF byWidth THEN size.width ELSE size.height
    IN  CASE n >= d -> Fitted(size, 1, 1)
          [] 10 * n < d -> Fitted(size, 1, 10)
          [] OTHER -> Fitted(size, n, d)

(* h264_min_frame_interval_ms: level 3.1 allows 108000 macroblocks a second. *)
MinInterval(size) ==
    LET blocks == CeilDiv(size.width, 16) * CeilDiv(size.height, 16)
        fps == AtLeast(108000 \div AtLeast(blocks, 1), 1)
    IN  AtLeast(CeilDiv(1000, fps), 16)

Interval(p, size) == AtLeast(p.interval, MinInterval(Scaled(size, p)))

-----------------------------------------------------------------------------
(* The encoder. *)

Settings(size, p) == [width |-> size.width, height |-> size.height, interval |-> p.interval]
NewEncoder(s) == [settings |-> s, fresh |-> TRUE, intra |-> FALSE, streak |-> 0]

Produces(e, f) == e.fresh \/ e.intra => f.key
Used(e) == [e EXCEPT !.fresh = FALSE, !.intra = FALSE, !.streak = 0]
Emptied(e) == [e EXCEPT !.streak = AtMost(@ + 1, EmptyRetries)]

(* Fault: an encoder is kept whatever the settings.                        *)
EncodeKept(e, want) ==
    LET ready == IF e.settings = None THEN NewEncoder(want) ELSE e
    IN  {[encoder |-> Used(ready), payload |-> f] : f \in {g \in Payload : Produces(ready, g)}}
        \cup {[encoder |-> e, payload |-> None], [encoder |-> Emptied(ready), payload |-> None]}

(* encode_frame_with_retry, as the set of its outcomes: other settings     *)
(* start a new encoder; it may produce a frame, nothing at all, or not be  *)
(* there, as when the picture cannot be read. A long streak of nothing     *)
(* starts another.                                                         *)
Encode(e, want) ==
    LET ready == IF e.settings = want THEN e ELSE NewEncoder(want)
        given(enc) == {[encoder |-> Used(enc), payload |-> f] : f \in {g \in Payload : Produces(enc, g)}}
        again == NewEncoder(want)
    IN  given(ready)
        \cup {[encoder |-> e, payload |-> None], [encoder |-> Emptied(ready), payload |-> None]}
        \cup (IF ready.streak + 1 >= EmptyRetries
              THEN given(again) \cup {[encoder |-> [again EXCEPT !.streak = 1], payload |-> None]}
              ELSE {})

(* build_video_payload: a scaled picture first, where one is wanted, and   *)
(* the full one when that fails.                                           *)
ScalingWanted(st, size) == Scaled(size, st.profile) # size /\ ~st.scaledOff

Build(st, size) ==
    LET full(e) == {[encoder |-> o.encoder, payload |-> o.payload, scaled |-> FALSE] :
                        o \in Encode(e, Settings(size, st.profile))}
        tried == Encode(st.encoder, Settings(Scaled(size, st.profile), st.profile))
    IN  IF ScalingWanted(st, size)
        THEN {[encoder |-> o.encoder, payload |-> o.payload, scaled |-> TRUE] :
                  o \in {t \in tried : t.payload # None}}
             \cup UNION {full(t.encoder) : t \in {u \in tried : u.payload = None}}
        ELSE full(st.encoder)

-----------------------------------------------------------------------------
(* The state of the sender between two frames. *)

Init ==
    /\ sessions = {} /\ leaving = {} /\ joining = {}
    /\ refresh = FALSE /\ forceIdr = FALSE /\ pressure = "none"
    /\ sender = [profile |-> Best, encoder |-> NewEncoder(None),
                 stable |-> 0, timestamp |-> 0, startup |-> 0, sentFirst |-> FALSE,
                 active |-> FALSE, sinceRefresh |-> 0, scaleFailures |-> 0,
                 scaledOff |-> FALSE, source |-> None]
    /\ outgoing = None
    /\ streams = {} /\ waiting = {} /\ unrepaired = {}

WithIntra(e) == [e EXCEPT !.intra = TRUE]

(* reset_for_active_session: the first frame after a time without viewers. *)
Reset(st) ==
    [st EXCEPT !.active = TRUE, !.profile = Best, !.startup = 0,
               !.sentFirst = FALSE, !.stable = 0, !.timestamp = 0,
               !.scaledOff = FALSE, !.scaleFailures = 0, !.sinceRefresh = 0,
               !.encoder = WithIntra([@ EXCEPT !.settings = None, !.streak = 0])]

(* Fault: a new viewer restarts the timestamps of all.                     *)
RefreshedFromZero(st, renewed) ==
    [st EXCEPT !.encoder = WithIntra(IF renewed THEN NewEncoder(None) ELSE [@ EXCEPT !.streak = 0]),
               !.sentFirst = FALSE, !.stable = 0, !.startup = 0, !.timestamp = 0,
               !.scaleFailures = 0, !.scaledOff = FALSE, !.sinceRefresh = 0]

(* A join asks for a new encoder; when none can be made, the old one stays. *)
Refreshed(st, renewed) ==
    [st EXCEPT !.encoder = WithIntra(IF renewed THEN NewEncoder(None) ELSE [@ EXCEPT !.streak = 0]),
               !.sentFirst = FALSE, !.stable = 0, !.startup = 0,
               !.scaleFailures = 0, !.scaledOff = FALSE, !.sinceRefresh = 0]

Forced(st) == [st EXCEPT !.encoder = WithIntra(@)]

Showing(st, size) ==
    IF st.source = size THEN st
    ELSE [st EXCEPT !.source = size, !.scaleFailures = 0, !.scaledOff = FALSE,
                    !.encoder = [@ EXCEPT !.streak = 0]]

(* handle_session_transitions, with the flags it is given.                 *)
Transition(st, size, renewed) ==
    IF ~st.active THEN Reset(st)
    ELSE LET renewedOrNot == IF refresh THEN Refreshed(st, renewed) ELSE st
             forcedOrNot == IF forceIdr THEN Forced(renewedOrNot) ELSE renewedOrNot
         IN  Showing(forcedOrNot, size)

Pressed(st) ==
    CASE pressure = "lossy" -> [st EXCEPT !.profile = Degraded(@), !.stable = 0]
      [] pressure = "busy" -> [st EXCEPT !.profile = Slower(@), !.stable = 0]
      [] OTHER -> st

(* After RefreshFrames frames an intra frame is due.                       *)
Due(st) ==
    IF st.sinceRefresh < RefreshFrames THEN st
    ELSE [Forced(st) EXCEPT !.sinceRefresh = 0]

(* The encoder was used; a source whose scaling failed is no longer scaled. *)
Booked(st, size, built) ==
    LET counted == [st EXCEPT !.encoder = built.encoder]
    IN  IF ~ScalingWanted(st, size) THEN counted
        ELSE IF built.scaled THEN [counted EXCEPT !.scaleFailures = 0, !.scaledOff = FALSE]
        ELSE IF st.scaleFailures + 1 >= ScaleFailures
        THEN [counted EXCEPT !.scaleFailures = 0, !.scaledOff = TRUE]
        ELSE [counted EXCEPT !.scaleFailures = @ + 1]

Lowered(st) == [st EXCEPT !.profile = Degraded(@)]

(* No payload: the first frames are retried, later ones lower the profile. *)
Failed(st) ==
    IF ~st.sentFirst /\ st.startup < StartupRetries
    THEN [st EXCEPT !.startup = @ + 1]
    ELSE Lowered(st)

(* What follows a frame sent: the clock moves on, a time without pressure  *)
(* raises the profile and a small payload the frame rate.                  *)
Sent(st, f, elapsed) ==
    LET raised == IF st.stable + 1 = StableFrames THEN Restored(st.profile) ELSE st.profile
    IN  [st EXCEPT !.timestamp = (@ + AtLeast(90 * elapsed, 1)) % Wrap,
                   !.sinceRefresh = @ + 1,
                   !.sentFirst = TRUE,
                   !.startup = 0,
                   !.stable = (@ + 1) % StableFrames,
                   !.profile = IF f.size = "small" THEN Faster(raised) ELSE raised]

-----------------------------------------------------------------------------
(* The rest of the worker. *)

(* register_client_session; create_session notes it in a later step.       *)
Register(s) ==
    /\ s \notin sessions \cup leaving \cup joining
    /\ sessions' = sessions \cup {s}
    /\ joining' = joining \cup {s}
    /\ waiting' = waiting \cup {s}
    /\ UNCHANGED <<leaving, controlVars, sender, outgoing, streams, unrepaired>>

NoteRegistered(s) ==
    /\ s \in joining
    /\ joining' = joining \ {s}
    /\ refresh' = TRUE
    /\ UNCHANGED <<sessions, leaving, forceIdr, pressure, sender, outgoing, viewerVars>>

(* A client without a slot joins as a player.                              *)
PlayerJoins ==
    /\ refresh' = TRUE
    /\ UNCHANGED <<roomVars, forceIdr, pressure, sender, outgoing, viewerVars>>

(* A viewer that lost packets asks for a keyframe.                         *)
RequestKeyframe(s) ==
    /\ s \in sessions
    /\ forceIdr' = TRUE
    /\ waiting' = waiting \cup {s}
    /\ unrepaired' = unrepaired \ {s}
    /\ UNCHANGED <<roomVars, refresh, pressure, sender, outgoing, streams>>

(* A teardown takes the session from the map, then lowers the count.       *)
Leave(s) ==
    /\ s \in sessions
    /\ sessions' = sessions \ {s}
    /\ leaving' = leaving \cup {s}
    /\ streams' = streams \ {s}
    /\ waiting' = waiting \ {s}
    /\ unrepaired' = unrepaired \ {s}
    /\ UNCHANGED <<joining, controlVars, sender, outgoing>>

CountDown(s) ==
    /\ s \in leaving
    /\ leaving' = leaving \ {s}
    /\ UNCHANGED <<sessions, joining, controlVars, sender, outgoing, viewerVars>>

-----------------------------------------------------------------------------
(* The frame thread. *)

HasVideoSessions == sessions \cup leaving # {}

Idle ==
    /\ outgoing = None /\ ~HasVideoSessions
    /\ sender' = [sender EXCEPT !.active = FALSE]
    /\ UNCHANGED <<roomVars, controlVars, outgoing, viewerVars>>

Encoded(st, f, elapsed) ==
    \/ /\ f = None
       /\ sender' = Failed(st)
       /\ outgoing' = None
       /\ UNCHANGED unrepaired
    \/ /\ f # None /\ f.size = "oversized"
       /\ sender' = Lowered(st)
       /\ outgoing' = None
       /\ unrepaired' = IF f.key /\ st.profile.interval = Floor.interval THEN waiting ELSE unrepaired
    \/ /\ f # None /\ f.size # "oversized"
       /\ sender' = Sent(st, f, elapsed)
       /\ outgoing' = IF f.key THEN "key" ELSE "other"
       /\ UNCHANGED unrepaired

(* A frame for the viewers: the flags are taken whether it is sent or not. *)
HandleFrame ==
    /\ outgoing = None /\ HasVideoSessions
    /\ refresh' = FALSE /\ forceIdr' = FALSE /\ pressure' = "none"
    /\ \E size \in Sources, renewed \in {refresh, FALSE}, elapsed \in Elapsed :
          LET st == Pressed(Transition(sender, size, renewed))
              due == Due(st)
          IN  IF elapsed < Interval(st.profile, size)
              THEN sender' = st /\ UNCHANGED <<outgoing, unrepaired>>
              ELSE \E b \in Build(due, size) : Encoded(Booked(due, size, b), b.payload, elapsed)
    /\ UNCHANGED <<roomVars, streams, waiting>>

(* broadcast_video_frame: a queue takes every keyframe (VideoQueue.tla);   *)
(* how full the queues are, and whether one drops something, is pressure.  *)
Broadcast ==
    /\ outgoing # None
    /\ IF sessions = {} THEN UNCHANGED pressure
       ELSE \E p \in Pressure : pressure' = p
    /\ waiting' = IF outgoing = "key" THEN {} ELSE waiting
    /\ unrepaired' = IF outgoing = "key" THEN {} ELSE unrepaired
    /\ outgoing' = None
    /\ streams' = sessions
    /\ UNCHANGED <<roomVars, refresh, forceIdr, sender>>

RoomNext ==
    \/ PlayerJoins
    \/ \E s \in Sessions :
          Register(s) \/ NoteRegistered(s) \/ RequestKeyframe(s) \/ Leave(s) \/ CountDown(s)

Next == RoomNext \/ Idle \/ HandleFrame \/ Broadcast

Spec == Init /\ [][Next]_vars

-----------------------------------------------------------------------------
(* Properties. *)

(* Something makes one of the next frames a keyframe: a flag is up, the    *)
(* encoder was asked, or it is about to be replaced by a new one.          *)
Requested ==
    \/ refresh \/ forceIdr
    \/ ~sender.active
    \/ sender.encoder.fresh \/ sender.encoder.intra
    \/ sender.encoder.settings = None
    \/ sender.encoder.settings # None /\ sender.encoder.settings.interval # sender.profile.interval
    \/ outgoing = "key"

(* A viewer that joined or asked for a keyframe has one on its way, once   *)
(* its registration is noted: although the flags are taken by frames that  *)
(* are then not sent for pacing, find the sender inactive, fail to encode  *)
(* or are too large (video_sender.rs:277-473, room.rs:77-117).  The one    *)
(* exception is "unrepaired": at the slowest interval nothing follows a    *)
(* keyframe above the payload limit but the periodic refresh.              *)
KeyframeOnItsWay == waiting \subseteq (unrepaired \cup joining) \/ Requested

(* Timestamps of a viewer's stream never start again: the reset when the   *)
(* room fills after being empty (video_sender.rs:185-188, 262-275), decided *)
(* by a count that lags the map, never meets a session that was sent       *)
(* frames before it.                                                       *)
Steps == {AtLeast(90 * e, 1) : e \in Elapsed}

TimestampsAdvance ==
    [][streams # {} =>
          IF outgoing = None /\ outgoing' # None
          THEN \E d \in Steps : sender'.timestamp = (sender.timestamp + d) % Wrap
          ELSE sender'.timestamp = sender.timestamp]_vars

=============================================================================
