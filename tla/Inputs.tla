------------------------------- MODULE Inputs --------------------------------
(***************************************************************************)
(* The inputs of the players (arcade-worker/src): from the tasks that      *)
(* receive them (signal_router.rs, the input channel of webrtc_session.rs) *)
(* through the room's player slots and its buffer of pending inputs        *)
(* (room.rs, room_state.rs) and an unbounded channel to the emulator       *)
(* thread, which keeps the pads that the core reads (emulator_thread.rs,   *)
(* libretro.rs).  Slots and buffer have a lock each, and what a task read  *)
(* under one is used under the other.                                      *)
(*                                                                         *)
(* Phones reach the worker by signaling only; a viewer's page sends over   *)
(* its WebRTC channel, or by signaling while that is shut, and sends an    *)
(* input only when its buttons have changed.  An input is numbered by its  *)
(* arrival at the worker (the WebRTC channel may lose or reorder what the  *)
(* page sent).  Sessions and their teardown are in Room.tla; here they are *)
(* the loss of a slot.                                                     *)
(***************************************************************************)
EXTENDS Naturals, Sequences, Joypad

CONSTANTS
    Viewers, Phones,
    MaxPlayers, \* MAX_PLAYERS
    MaxPending, \* MAX_PENDING_INPUT_BATCHES
    Bitmaps,    \* client -> the bitmaps of its inputs (a bound: no more come)
    None

Clients == Viewers \cup Phones
Ports == 0..(MaxPlayers - 1)
Router == "router"
Tasks == Viewers \cup {Router}

ASSUME CountAssumption == {MaxPlayers, MaxPending} \subseteq Nat \ {0}
ASSUME BitmapAssumption == Bitmaps \in [Clients -> Seq(SUBSET (0..15))]
ASSUME NameAssumption == None \notin Clients \cup Ports /\ Router \notin Clients

VARIABLES
    slots,      \* player slot -> client
    pending,    \* client -> its inputs waiting for a slot
    channel,    \* inputs sent to the emulator thread
    job,        \* what each receiving task has left to do
    taken,      \* the input the emulator thread has looked up, or None
    pads,       \* the controllers of the core
    running,    \* the emulator thread has not ended
    arrived,    \* history: client -> number of its inputs
    applied,    \* history: client -> its last input to reach a pad
    paths,      \* history: client -> tasks that received its inputs
    lost        \* history: clients that lost a slot or were terminated

vars == <<slots, pending, channel, job, taken, pads, running, arrived, applied, paths, lost>>
emulatorVars == <<taken, pads, running, applied>>

Input == {i \in [client : Clients, no : Nat] : i.no \in 1..Len(Bitmaps[i.client])}

Idle == [at |-> "idle"]
Job == {Idle}
    \cup [at : {"join"}, input : Input, assigned : BOOLEAN]
    \cup [at : {"queue", "flush"}, input : Input]
    \cup [at : {"send"}, batch : Seq(Input)]
    \cup [at : {"release"}, client : Clients]

Pad == [keys : SUBSET (0..15), axes : [0..(MaxAxes - 1) -> (SUBSET (0..7)) \X (SUBSET (0..7))]]

TypeOK ==
    /\ slots \in [Ports -> Clients \cup {None}]
    /\ pending \in [Clients -> Seq(Input)]
    /\ \A c \in Clients : Len(pending[c]) <= MaxPending
    /\ channel \in Seq(Input)
    /\ job \in [Tasks -> Job]
    /\ taken \in [input : Input, port : Ports \cup {None}] \cup {None}
    /\ pads \in [Ports -> Pad]
    /\ running \in BOOLEAN
    /\ arrived \in [Clients -> Nat]
    /\ applied \in [Clients -> Nat]
    /\ paths \in [Clients -> SUBSET Tasks]
    /\ lost \subseteq Clients

Init ==
    /\ slots = [p \in Ports |-> None]
    /\ pending = [c \in Clients |-> <<>>]
    /\ channel = <<>>
    /\ job = [t \in Tasks |-> Idle]
    /\ taken = None
    /\ pads = [p \in Ports |-> Blank]
    /\ running = TRUE
    /\ arrived = [c \in Clients |-> 0]
    /\ applied = [c \in Clients |-> 0]
    /\ paths = [c \in Clients |-> {}]
    /\ lost = {}

-----------------------------------------------------------------------------
(* Slots and pending inputs. *)

Players == {slots[p] : p \in Ports} \ {None}
Free == {p \in Ports : slots[p] = None}
Lowest(P) == CHOOSE p \in P : \A q \in P : p <= q
PortOf(c) == IF c \in Players THEN Lowest({p \in Ports : slots[p] = c}) ELSE None

(* assign_client.                                                          *)
Assign(c) ==
    slots' = IF c \in Players \/ Free = {} THEN slots ELSE [slots EXCEPT ![Lowest(Free)] = c]

ReleaseSlot(c) ==
    /\ slots' = [p \in Ports |-> IF slots[p] = c THEN None ELSE slots[p]]
    /\ lost' = IF c \in Players THEN lost \cup {c} ELSE lost

(* Fault: the buffer is never full.                                        *)
QueuedFreely(q, i) == Append(q, i)

(* queue_client: a full buffer gives up its oldest input.                  *)
Queued(q, i) == IF Len(q) >= MaxPending THEN Append(Tail(q), i) ELSE Append(q, i)

-----------------------------------------------------------------------------
(* The tasks that receive inputs. *)

At(t, place) == job[t].at = place
Then(t, next) == job' = [job EXCEPT ![t] = next]

(* buffer_or_send_input begins: has the client a slot already?             *)
Receive(t, c) ==
    /\ At(t, "idle")
    /\ t \in {Router, c}
    /\ arrived[c] < Len(Bitmaps[c])
    /\ arrived' = [arrived EXCEPT ![c] = @ + 1]
    /\ paths' = [paths EXCEPT ![c] = @ \cup {t}]
    /\ Then(t, [at |-> "join", input |-> [client |-> c, no |-> arrived[c] + 1],
                assigned |-> c \in Players])
    /\ UNCHANGED <<slots, pending, channel, emulatorVars, lost>>

(* ensure_session_joined: it gets one, unless all are taken.               *)
Ensure(t) ==
    /\ At(t, "join")
    /\ LET i == job[t].input IN
          /\ Assign(i.client)
          /\ Then(t, IF i.client \notin Players /\ Free = {} THEN [at |-> "queue", input |-> i]
                     ELSE IF job[t].assigned THEN [at |-> "send", batch |-> <<i>>]
                     ELSE [at |-> "flush", input |-> i])
    /\ UNCHANGED <<pending, channel, emulatorVars, arrived, paths, lost>>

Queue(t) ==
    /\ At(t, "queue")
    /\ LET i == job[t].input IN
          pending' = [pending EXCEPT ![i.client] = Queued(@, i)]
    /\ Then(t, Idle)
    /\ UNCHANGED <<slots, channel, emulatorVars, arrived, paths, lost>>

(* Fault: the new input overtakes those that were waiting.                 *)
FlushBehind(t) ==
    /\ At(t, "flush")
    /\ LET i == job[t].input IN
          /\ Then(t, [at |-> "send", batch |-> <<i>> \o pending[i.client]])
          /\ pending' = [pending EXCEPT ![i.client] = <<>>]
    /\ UNCHANGED <<slots, channel, emulatorVars, arrived, paths, lost>>

(* flush_pending_inputs_to_sender, before the input itself. The buffer is  *)
(* drained here; the sends that follow, one for each input, are one step   *)
(* (Send).                                                                 *)
Flush(t) ==
    /\ At(t, "flush")
    /\ LET i == job[t].input IN
          /\ Then(t, [at |-> "send", batch |-> Append(pending[i.client], i)])
          /\ pending' = [pending EXCEPT ![i.client] = <<>>]
    /\ UNCHANGED <<slots, channel, emulatorVars, arrived, paths, lost>>

Send(t) ==
    /\ At(t, "send")
    /\ channel' = channel \o job[t].batch
    /\ Then(t, Idle)
    /\ UNCHANGED <<slots, pending, emulatorVars, arrived, paths, lost>>

(* handle_join_room: a slot, and no look at what is pending.               *)
JoinRoom(c) ==
    /\ At(Router, "idle")
    /\ Assign(c)
    /\ UNCHANGED <<pending, channel, job, emulatorVars, arrived, paths, lost>>

(* handle_terminate_session: release_input_source empties the buffer, then *)
(* frees the slot.                                                         *)
Terminate(c) ==
    /\ At(Router, "idle")
    /\ pending' = [pending EXCEPT ![c] = <<>>]
    /\ Then(Router, [at |-> "release", client |-> c])
    /\ lost' = lost \cup {c}
    /\ UNCHANGED <<slots, channel, emulatorVars, arrived, paths>>

Release ==
    /\ At(Router, "release")
    /\ ReleaseSlot(job[Router].client)
    /\ Then(Router, Idle)
    /\ UNCHANGED <<pending, channel, emulatorVars, arrived, paths>>

(* unregister_client_session, by a task of the viewer's session: the       *)
(* buffer stays.                                                           *)
Unregister(v) ==
    /\ v \in Players
    /\ ReleaseSlot(v)
    /\ UNCHANGED <<pending, channel, job, emulatorVars, arrived, paths>>

-----------------------------------------------------------------------------
(* The emulator thread. *)

(* Between two frames it empties the channel.                              *)
Take ==
    /\ running /\ taken = None /\ channel # <<>>
    /\ taken' = [input |-> Head(channel), port |-> PortOf(Head(channel).client)]
    /\ channel' = Tail(channel)
    /\ UNCHANGED <<slots, pending, job, pads, running, arrived, applied, paths, lost>>

Apply ==
    /\ taken # None /\ taken.port # None
    /\ pads' = [pads EXCEPT ![taken.port] = Updated(@, Packet(Bitmaps[taken.input.client][taken.input.no]))]
    /\ applied' = [applied EXCEPT ![taken.input.client] = taken.input.no]
    /\ taken' = None
    /\ UNCHANGED <<slots, pending, channel, job, running, arrived, paths, lost>>

Requeue ==
    /\ taken # None /\ taken.port = None
    /\ pending' = [pending EXCEPT ![taken.input.client] = Queued(@, taken.input)]
    /\ taken' = None
    /\ UNCHANGED <<slots, channel, job, pads, running, arrived, applied, paths, lost>>

(* The core cannot run a frame, and the thread ends.                       *)
CoreFails ==
    /\ running /\ taken = None /\ channel = <<>>
    /\ running' = FALSE
    /\ UNCHANGED <<slots, pending, channel, job, taken, pads, arrived, applied, paths, lost>>

Working(t) == Ensure(t) \/ Queue(t) \/ Flush(t) \/ Send(t)
Emulating == Take \/ Apply \/ Requeue

Next ==
    \/ \E t \in Tasks, c \in Clients : Receive(t, c)
    \/ \E t \in Tasks : Working(t)
    \/ \E c \in Clients : JoinRoom(c) \/ Terminate(c)
    \/ Release
    \/ \E v \in Viewers : Unregister(v)
    \/ Emulating
    \/ CoreFails

Spec == Init /\ [][Next]_vars

(* Tasks are polled by the runtime and finish a handler they began; the    *)
(* emulator thread comes back to its channel after every frame or sleep.   *)
Fairness == WF_vars(Emulating) /\ WF_vars(Release) /\ \A t \in Tasks : WF_vars(Working(t))

LiveSpec == Spec /\ Fairness

-----------------------------------------------------------------------------
(* Properties. *)

(* A client whose inputs came one way only and that never lost its slot.   *)
Steady(c) == c \notin lost /\ \E t \in Tasks : paths[c] = {t}

(* The inputs of a steady client reach its pad in the order in which they  *)
(* arrived, whether they went straight to the emulator, waited for a slot, *)
(* or waited while a join gave the client one (room.rs:484-519,            *)
(* emulator_thread.rs:15-28).                                              *)
InputsStayInOrder ==
    [][\A c \in Clients : (Steady(c))' => applied'[c] >= applied[c]]_vars

(* In the end the core reads, button by button, what the player's page     *)
(* last sent: the pages send changes only, so an input lost, overtaken or  *)
(* decoded otherwise would be a button stuck. It needs a steady client     *)
(* with nothing left in its buffer: joinRoom gives a slot and leaves the   *)
(* buffer as it is (signal_router.rs:186-199, room.rs:344-356).            *)
Settled(c) == Steady(c) /\ c \in Players /\ arrived[c] > 0 /\ pending[c] = <<>>

CoreReads(c) ==
    {b \in Buttons : InputState(pads, PortOf(c), Joystick, 0, CoreId[b]) = 1}

Sent(c) == {b \in Buttons : PortalBit[b] \in Bitmaps[c][arrived[c]]}

LastInputWins ==
    \A c \in Clients : <>[](running /\ Settled(c) => CoreReads(c) = Sent(c))

=============================================================================
