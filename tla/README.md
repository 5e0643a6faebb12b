# A verification development for cloud-game-rs

TLA+ models of the cloud arcade: a signaling server that introduces browsers
and phones to workers, workers that run a game each and stream it over WebRTC,
and a web portal. The models follow the sources of this repository; file and
line references are to it (`ws.rs` is `arcade-signal/src/ws.rs`, and so on).
`PROJECT.json` lists every run, theorem, hazard and finding, and maps each
definition to the lines it stands for.

## The system

| component | state | operations | talks to |
|---|---|---|---|
| pairing table, `arcade-signal/src/controllers.rs` | code -> host registration (worker, expiry), host -> code, phone -> route (host, worker); one mutex | `register_host`, `join`, `worker_for_input`, `cleanup_peer` | called by the socket tasks |
| registry, `arcade-signal/src/registry.rs` | senders of clients and workers, client -> worker binding, games, player counts, rank of workers; one mutex | register, unregister, bind, unbind, set game, set count, `games_payload` | called by the socket tasks |
| socket tasks, `arcade-signal/src/ws.rs` | one task and one unbounded outbound queue for each socket | `run_peer_socket`, `handle_browser_message`, `handle_worker_message`, `cleanup_browser`, `cleanup_worker` | JSON messages to and from browsers and workers |
| signal router, `arcade-worker/src/signal_router.rs` | signals kept until their session exists | init, terminate, answer, candidate, join, input | one message at a time from the signaling server |
| room, `arcade-worker/src/room.rs`, `room_state.rs` | sessions, session count, eight player slots, pending inputs, encoder requests | register, unregister, join, release, buffer or send input | shared by the router, each session's tasks, the emulator and the frame callbacks |
| session tasks, `arcade-worker/src/webrtc_session.rs` | peer connection, channels, video sender task | state callback, channel callback, sender loop | the room; the browser over WebRTC |
| video queue, `room.rs` | bounded frame buffer, closed flag, `Notify` | `push`, `pop`, `close` | frame thread, sender task, whoever unregisters |
| encoder control, `arcade-worker/src/video_sender.rs` | encoder, profile, pacing, forced keyframes | `handle_frame`, `handle_session_transitions` | takes frames from the core, fills the queues |
| emulator, `emulator_thread.rs`, `libretro.rs` | the core, its input bits | tick, apply inputs | takes inputs, emits frames and sound |
| portal connection, `arcade-portal/src/store/signalConnection.js` | socket, timers | connect, heartbeat, reconnect, foreground check | the signaling server |
| phone page, `arcade-portal/src/controller.jsx`, `usePhoneControllerHost.js` | join code, status, button mask | join, retry, send input | the signaling server |
| game session runtime, `arcade-portal/src/hooks/webrtc/` | peer connection, media, timers | start, dispose, stall detection | signaling server and worker |

What is hard about it:

- *Handlers are not atomic.* The signaling server is one task for each socket
  and a mutex on each of two tables; a handler locks, unlocks, locks the other
  table, then queues messages. Cleanups of one peer overlap handlers of others.
- *Teardown has many authors.* A session ends by `terminateSession`, by its
  state callback, by its sender task or by the loss of a socket, and each of
  them works on the client id and not on the session.
- *Messages cross.* Lists, counts, pairings and their ends are read at one
  moment and queued at another.
- *Slow viewers.* A bounded queue between the encoder and each viewer drops
  frames and must leave a stream that a decoder can start and that goes on.
- *Time.* Codes expire, pages retry and reconnect, browsers sleep.

What makes each part correct is said by the properties below; `PROJECT.json`
lists under `hazards` where each one could go wrong.

## The modules

**Controllers** is the pairing table. One action for each method that takes the
lock. An instant of expiry is the number of ticks a registration has left, so
`Tick` stands for time. A code is a model value: `CodeFor` lets
`next_available_code` return any code that is free. `lastWorker` and `gone` are
history variables: properties read them, and `Next` lets only peers that are not
`gone` call the table. The methods themselves do not ask, so this is an
obligation on the server, which `TableSpec` below states.

**Registry** is the registry. Its `Next` allows any order of calls, with one
restriction, that a worker is recorded only while it is registered; that the
server keeps to it is the property `RegistrySpec` below. `DedupedInOrder` is
the loop of `games_payload` for one order of the hash map, `GamesPayload` the
same list defined without a loop.

**SignalServer** composes the two into the handlers of `ws.rs`. Its variables
are those of both tables and, for each peer, the state of its socket (`link`)
and what is left of the handler its task runs (`todo`). The first critical
section of a handler is an action, taken when the task is idle; the others are
steps of `Proceed`, so tasks interleave at every lock and every send. A message
takes effect when it is queued, since queues are in order and unbounded: `view`
is what a browser will know once it has read its queue and `room` whom a worker
will hold. A lookup of a sender and the send on it are one step, because a
sender goes away only when the receiver's socket is over or has Close queued.
What browsers do is taken from the portal: a connection belongs to one path, so
a screen asks for one room (`plays`) and a phone hosts nothing. `Controllers`
is instantiated with `gone` mapped to the peers whose socket is over. The
history variable `overtaken` has the phones that paired while a departed host's
cleanup had yet to terminate them at the same worker (`EndIsDue`). Two things are
coarser than the code: a broadcast reaches all clients in one step
(`ws.rs:100-106`; their queues are separate and no property compares two of
them), and a join always seats its phone (a worker has eight slots, more than
the runs have browsers; contention for slots is in `Room` and `Inputs`).

**VideoQueue** is `VideoSampleQueue` and the loop of the sender task, at the
grain of single accesses to the buffer, the closed flag and the `Notify`. A
`Notify` is a permit and at most one waiter: `notify_one` wakes the waiter or
leaves a permit, `notify_waiters` wakes the waiter and leaves nothing. `missed`
is the history of the one wake-up that reaches nobody: `notify_waiters` while
the task is between its look at the flag and its wait, with no permit left.

**Room** has the sessions, slots and counts of a worker with everybody who
changes them: the router (one message at a time), and for each session its
sender task, its state callback and its input channel. A teardown is a sequence
of critical sections in `todo`, and the number of teardowns at once is not
bounded but by the number of sessions. Of an input only what it does to the
slots is here, and its look at them and the assignment of one are a single
step; where it goes is the matter of `Inputs`, which separates them. For the same
reason `join_room` is one step. So are the insertion of a session and the
increment of the count, which are done under one lock; that `has_video_sessions`
reads the count without it matters to `FrameSender` only. A peer is
"closing" from the moment its close is asked for and "closed" when the state
callback says so.

**Inputs** follows an input from the task that receives it to the pad the core
reads. The router and each viewer's channel run `buffer_or_send_input` as a
`job` of up to four critical sections (look at the slots, join, flush or queue,
send, which for a flushed buffer is one step for all its inputs); the emulator
thread takes an input from its channel, looks its slot up
and applies it or queues it again. `joinRoom`, `terminateSession` and the loss
of a slot interleave with all of that. Sessions are reduced to the slots they
hold. **Joypad** has no state: it is the encoding of the page's button bitmap,
`update_input_state` and `input_state_callback`, so that `Inputs` can say what
the core reads in terms of the buttons the page meant.

**FrameSender** is `video_sender.rs`: the flags of `VideoControl`, the state
the sender keeps between frames, and a frame as two steps, `HandleFrame`
(session transitions, pressure, pacing, encoding with its retries, failures and
the payload limit) and `Broadcast`. Sizes, profiles, scaling and intervals are
computed as in the code, on the integers. The encoder is external: a new one
starts with a keyframe, one that was asked for an intra frame produces it next,
and otherwise it may produce any frame, nothing, or fail. Sessions register,
note their request, leave and are uncounted at any moment between the two. The
history variables are `streams` (viewers that were sent something), `waiting`
(viewers without a keyframe since they joined or asked) and `unrepaired` (see
the observations below).

**Signals** is the handshake of one page with one worker through the server:
requests, offers, answers and candidates on two ordered queues, several
attempts of the page under one client id, and the router's buffer for signals
without a session. A payload is kept in the form its author wrote (plain text,
typed JSON, base64 of either) and goes through the server's normalisation and
the worker's decoding as operators, so a form the two understand differently
would lose the answer. The page takes an offer in one step, although it awaits
its connection several times: messages wait for one another in a chain, and a
connection that was closed settles none of its promises, so a page that is left
meanwhile sends nothing more for it.

Operators commented `Fault:` are variants of the definition below them with a
plausible mistake. No specification uses them; `PROJECT.json` pairs each with
the property that catches it.

## The runs

| run | instance | shows |
|---|---|---|
| `pairing_table` | 2 screens, 2 phones, 2 workers, 3 codes, TTL 2 | the invariants and action properties of the table |
| `registry` | 3 workers, names with equal normal form and a blank one | the list without duplicates does not depend on the order of the map, and offers each game once |
| `signal_pairing` | 2 screens of one room, 1 phone, 1 worker, 1 code | types; routes and player slots agree between handlers but for the phones in `overtaken`; departed phones free their slots |
| `signal_sessions` | 1 screen, 1 phone, 1 worker | sessions and relays respect the binding; browsers dropped with their worker leave completely; the server implements the pairing table |
| `signal_games` | 2 workers, 1 browser that hosts nothing, 2 names, duplicates removed | games lists converge; the server keeps to `Registry` |
| `video_queue` | capacity 3 (the real one), 6 frames | streams start with a keyframe and advance; a sender that waits has a wake-up on its way; no queued frame is stuck; closing ends the sender |
| `room` | 1 viewer, 1 phone, 2 sessions, 1 slot | counts, slots, encoder requests and sessions agree however teardowns overlap |
| `frame_sender` | 2 viewers, pictures of 384x224 and 1920x1080, profiles from 960x540 at 16 ms down to 704x416 at 32 ms, frames 16 or 48 ms apart | a viewer that waits has a keyframe on its way; no stream's time starts again |
| `inputs` | 1 viewer, 1 phone, 1 slot, buffer of 2, three and two inputs | a client's inputs reach its pad in order; in the end the core reads what the page last sent |
| `signals` | 3 attempts, 1 candidate each way, one ending for each peer, buffer of 1, two ways to write payloads | attempts do not mix; a request finds nothing of the attempt before; the first answer counts; it and every candidate arrive |
| `signal_join_race` | 1 screen, 1 phone, 1 worker | a violation: see Findings |
| `room_reconnect` | 1 viewer, 2 sessions | a violation |

Why these bounds are enough to be interesting:

- Two screens of one room and a phone give every overlap of one host's cleanup
  with the phone's pairing with the other, its inputs and its departure. Phones
  of one host meet only in that host's cleanup, where one's messages delay the
  other's; a task may be delayed anyway. Names and counts are left out of the
  pairing runs (no names, `Counts = {}`) because no handler mixes them with
  pairing. The instances with several phones are the table's own, and the
  refinement is proved for any number.
- Three codes for two screens leave a free code when both are taken, so a host
  whose code expired may get another one or the same. With TTL 2 a code has an
  age between new and expired.
- Two names with one normal form, and a blank name, exercise each branch of
  `games_payload`; three workers give a worker between two others in rank.
- Session ids of the server are never reused (`next_session_id`), so every peer
  connects once; a peer that comes back is another peer.
- In `Room` two sessions are what a stale teardown needs (the old one and the
  new one), and one slot for two clients makes every join contend. Sessions are
  interchangeable and taken as a symmetry set, as are the screens of
  `signal_pairing`, the viewers of `frame_sender`, the workers of `registry`
  and the peers of the pairing table; runs that check liveness use no symmetry.
- Six frames fill a queue of three, overflow it three times and leave the frame
  thread time to go on after the queue is closed.
- In `frame_sender` one picture is scaled and one is not, the profile has two
  sizes and two intervals, 16 ms is too early for the slower interval and 48 ms
  late enough for both, and every threshold is 1 or 2 so that each counter runs
  over. `Wrap` is twice the step of 16 ms, so timestamps wrap at once.
- In `inputs` a buffer of two overflows with three inputs, one slot makes
  viewer and phone contend, and the inputs press all sixteen buttons, which the
  two ends number differently.
- In `signals` three attempts let what was said in the first meet the third.
  A buffer of one is full with one signal.

Deadlock is not checked in the runs in which everything may stop: peers that
have all left, frames or inputs that have run out, attempts that are used up.
`registry` may always be called, `room` has a phone that may always send an
input and `frame_sender` frames without end, and these check it; the runs that
look for a violation end at it.

### Fairness

`SignalServer.LiveSpec` assumes that a task with work goes on with it (weak
fairness of `Proceed`): sends are to unbounded channels and never block. Two
messages get their turn in a socket's queue however busy the page is, hence
strong fairness: the end of a socket that was sent Close, and the request for
the games list that the portal sends when it opens and repeats with its
heartbeat (`signalConnection.js`). Nothing makes anyone connect, join, leave or
send anything else.

`VideoQueue.LiveSpec` assumes that the sender task is scheduled when it is ready
and that a `push` and a `close` that began run to their end. Frames and closing
are not assumed to happen.

`Inputs.LiveSpec` assumes that the emulator thread returns to its channel after
each frame or sleep, and that each receiving task finishes a handler it began.
No input has to come, and the core may fail for good at any time.

`Signals.Spec` assumes that the page takes what its socket delivers while it is
shown and that the router takes what it receives. Nothing makes the page appear,
leave, gather candidates, or a peer fail.

## Findings

Each of these two is a run in which TLC violates what the page says.

1. `signal_join_race`: `controllerJoined` is queued after `join` released the
   table. A host's cleanup in between makes the phone read "left" before
   "joined", and its page says it is paired while its inputs are blocked.
2. `room_reconnect`: the tasks of an old session unregister by client id. After
   the page's Reconnect they may remove the new session.

What else was seen while modelling, without a run of its own; the properties
say how far it goes:

- `ws.rs:159` checks that a worker is there and `ws.rs:166` binds under another
  lock. A worker that leaves in between leaves the browser bound to nobody.
  `RoomsHoldBoundScreens` shows that no live worker holds a session by it.
- `cleanup_peer` takes the phones of a host from the table, and
  `terminateSession` is sent for each later (`ws.rs:480`). A phone that has in
  the meantime paired with another screen of the same room loses its slot and
  keeps its route; its next input seats it again. `RoutedPhonesArePlayers`
  excepts exactly the phones this happens to (`overtaken`), and says that they
  are without a seat.
- `cleanup_peer` returns early for a peer with a route, also if it hosts
  (`controllers.rs:142`). No page of the portal does both on one connection, and
  `GoneLeavesNothing` speaks of peers with one role.
- A phone that pairs with a screen of another room does not leave the first one
  (`controllers.rs:118`), whose worker keeps its slot. This is the second
  exception of `DepartedPhonesFreeSlots`.
- A release counts players after it unlocked the slots and sends the number
  after unlocking again (`room.rs:406-412`); a join in between is overtaken, and
  the room list shows the older number until the next change.
- An input that arrives by the data channel after the session was torn down
  takes a slot again, and the teardown that follows the close of the peer finds
  no session and returns before it releases. `SlotsBelongToPlayers` shows that
  this is the only way to lose a slot: its history variable `late` records such
  inputs.
- `close` stores the flag and calls `notify_waiters`, which leaves no permit, so
  a sender task between its look at the flag and its wait sleeps for ever
  (`CloseEndsSender` excludes exactly this case by the variable `missed`).
- A keyframe above the payload limit is dropped and the flags that asked for it
  are gone. What repairs it is that the degraded profile has another interval,
  for which the next encoder is made anew. At the slowest interval there is no
  other, and viewers wait for the periodic refresh (`unrepaired`).
- Pacing uses the scaled size even when scaling was given up for this source.
- `should_emit_video` refuses a frame when the channel is full, so the branch of
  `main.rs:80-90` that drops the oldest frame is not taken.
- The emulator thread queues inputs of clients without a slot again, also after
  their buffer was drained, and `unregister_client_session` does not drain it.
  `joinRoom` gives a slot without a flush. So what is in the buffer may be older
  than what was applied; `InputsStayInOrder` and `LastInputWins` are about
  clients that kept their slot (`Steady`), the latter with an empty buffer.
- No code clears a pad: who gets a slot inherits the buttons held there.
- A page that moves from signaling to its data channel may have inputs on both
  ways at once, and the channel neither orders nor retransmits; a steady client
  is therefore one whose inputs came one way.
- An offer does not name its attempt. A page that takes an offer made for its
  earlier attempt answers it, the new session takes that answer for its own and
  ignores the proper one. `FirstAnswerCounts` says no more than that it is the
  first offer taken whose answer stands; `FirstOfferIsAnswered` asks that this
  offer was the session's own.

## What is proved

With TLAPS, for every value of the constants that satisfies the assumptions
(`TTL` positive, `None` none of the values, roles disjoint, finitely many phones
and workers, positive limits, the lowest profile below the best one).

**ControllersProofs.** Type correctness, then `CodesMatchHosts`, by induction
with the types: it is inductive since each action changes both maps together.
`InputsFollowHost` needs it, because a refreshed registration must belong to the
host that refreshes it. `GoneLeavesNothing` needs both: a peer that is gone
cannot be named by an entry that is not its own. The action properties
`LiveCodeIsStable` and `PairingOutlivesCode` follow from the invariant for each
action.

**RegistryProofs.** Types, and `EveryGameListedOnce`. The list is decided by
ranks, so it needs `Ranked`: rooms belong to registered workers, whose ranks
differ and are below the next one to be given. That each game has an oldest
worker is well-foundedness of the naturals. `DedupeIgnoresMapOrder` is about the
loop itself, for every order of the map and any number of rooms: after each turn
the entry of a game is the oldest of the rooms visited (`LoopSelectsOldest`).
Such an induction over a recursive function is done here by the first turn at
which it would fail, since the provers cannot apply an induction principle to a
predicate; `SignalsProofs` needs no more of its loop than a single turn.

**SignalServerProofs.** `TypeCorrect` is the type invariant of the composed
server. By itself it is not inductive, for two reasons. The later steps of a
handler use what earlier ones read, so the types of all steps in all `todo` go
with it. And they leave open who runs which step: `DoHost` registers its own
peer as a host and `DoUnregister` indexes the clients by it. `TasksFit` adds
that only screens have "host" steps and only browsers "unregister" steps; the
inductive invariant is `TypeOK /\ TasksFit /\ GoneTasksDontHost`.
`ServerRefinesTable` shows that every step of the server is a step of the
pairing table or leaves it unchanged, with `gone` mapped to the sockets that are
over. The hard case is `register_host`: it is called in a later step than the
message that asked for it was accepted, and must not run once the table has been
cleaned of its peer. `GoneTasksDontHost` says that it cannot: a socket ends
between handlers, so what a task has left afterwards was scheduled by the
cleanup. `TableInvariantsHold` transfers the invariants proved of the table
through that refinement.

Its second part proves `RelaysStayBound` and `RoomsHoldBoundScreens`. The
binding is checked or set in one critical section and used in the next, so the
invariant (`Bindings`) lists the forms the work of a screen's task can take
(`ScreenTaskFits`: unconcerned, departing, ending, opening, sending), each with
what is then known of its binding and its session, together with `WorkersOpen`
(a registered worker is one whose socket is open), `ScreensAtHome` and
`OthersSeatPhones` (no other task sends for a screen). On top of it
`ServerRefinesRegistry` shows that the server implements `Registry`: a worker's
task handles messages only while its socket is open, and its rank is the number
of workers that connected before it. `ServerListsGamesOnce` takes
`EveryGameListedOnce` over to the server, `ServerListHasOneOrder` the independence
of the map's order.

Its last part is about phones: `RoutedPhonesArePlayers` and
`DepartedPhonesFreeSlots`. Both speak of states in which no task has work left,
so the invariant (`PInv`) says what may be owed in between. `WorkFits` limits
what each kind of task may still send: a screen ends phones only in its cleanup
and only at the room of its page, a phone speaks for itself. `HostsAtHome` makes
every route lead to the room of its host's page. `SeatsFit` then has three parts,
for each phone and worker. A route lacks its slot only while the `joinRoom` is
still to be sent or the phone is in `overtaken`. `Overtaking` is what makes that
set exact: a routed phone whose end is due there is in it, one that is in it with
no end due has no seat, and a routed phone sends nothing to any other worker. And
a slot, or a message that would give one, lacks its route only while the
`terminateSession` is still to be sent or the room is one of those that
`DepartedPhonesFreeSlots` excepts. The invariants of the table, by the
refinement, are premises.

**VideoQueueProofs.** `NoLostWakeUp` and `StreamStartsAndAdvances` for any
capacity. The first is not inductive, since the task decides to wait two steps
before it does: `Awake` says of those two what holds of the waiting, that a
frame queued since then has its notification to come or has left a permit, and
of the second also that a close since then is to come, is known to be missed, or
finds a permit that wakes the task anyway.
For the order, what a push leaves of a full queue is a part of what was there in
its order (`Part`), so the numbers rise along what was sent, is held and is
queued (`InOrder`); that a stream starts with a keyframe needs that the task
writes only what it popped after it had one (`WriterHolds`, `StartsWithKey`).

**RoomProofs.** The types and the four safety properties of `Room`. A session
that is out of the table and not yet counted down is a "discard" at the head of
exactly one task (`DiscardsFirst`), so the counter is the number of sessions
plus that of such tasks (`Counted`). `Owned` and `PeersOwned` say whose sessions
the tasks speak of, `Seated` and `Wound` which last step of which task still
owes a release, the closing of a queue or of a peer. `SessionsAreClosed` is about
queues and peers: that a sender ends when its queue is closed is no part of it,
it is `CloseEndsSender` of `VideoQueue`, with the wake-up that may be missed.

**InputsProofs.** Types, the bound on every buffer, and `InputsStayInOrder`.
`AllAccounted` says whose inputs are where, so that two tasks are never busy
with one steady client; `AllOrdered` that along what is applied, taken, in the
channel, in the hands of the task and in the buffer its inputs are in order of
arrival, and that the buffer is flushed only while nothing was sent before.

**FrameSenderProofs.** Types (profiles never leave their limits, whatever the
pressure), `TimestampsAdvance` from `StreamsKeepActive` (a viewer that was sent
something is counted, so its sender is not reset under it), and
`KeyframeOnItsWay`. For the last, `Owes` names what obliges the sender to a
keyframe, and each part of the handling of a frame preserves it or produces the
keyframe.

**SignalsProofs.** Types, `AttemptsDoNotMix`, `RequestsStartAfresh` and
`FirstAnswerCounts`, for any numbers of attempts and candidates and any size of
the buffer. Messages name no attempt, so everything comes from their order.
`InOrder` states it of the queue to the worker: an attempt's request, its
signals, its end, then the next request. `RouterInOrder` says what the router
makes of it: the session and the kept signals belong to the attempt it is
serving, and it serves none between an end and the next request, so that a
request finds nothing. With this page the replay of kept signals is therefore
never of any; it would matter to a page that asks again without ending.
`FirstAnswerCounts` and `CandidatesAreKept` (a theorem without a run of its own;
it is the safety half of `CandidatesArrive`) need a second invariant, `AInv`:
attempts rise along the queue with each request (`QueueRises`), nothing was done
for attempts yet to come (`NotYet`), and of the answers of this attempt that are
on their way the first is to the first offer, until it is taken
(`AnswersInLine`).

Only model-checked are the seven properties of liveness under fairness
(`GamesConverge`, `DroppedBrowsersLeave`, `QueuedFramesMove`, `CloseEndsSender`,
`LastInputWins`, `FirstOfferIsAnswered`, `CandidatesArrive`), which are beyond
this prover; every safety property of the passing runs is a theorem. For four
of the seven the part that is safety is proved: that what must happen is always
on its way (`NoLostWakeUp` for the queue's two, `FirstAnswerCounts`,
`CandidatesAreKept`). The loops over a map and over a list of signals are
recursive functions and not folds, because the provers cannot expand an operator
that takes an operator. No module declares a RECURSIVE operator.

## What is not modelled

- The text of messages and their parser (`protocol.rs`, the generated constants)
  but for the payloads in `Signals`: what the parser accepts are the actions'
  parameters.
- Relays that change none of the state here: offers and candidates to browsers
  in `SignalServer` (they are in `Signals`), audio requests; origin checks and
  health endpoints.
- The router's cap on the number of clients with pending signals: `Signals` has
  one client.
- The libretro binding but for the pads, codecs, the audio path: foreign calls
  and signal processing. Start-up, downloads of cores and deployment scripts.
- A worker's own connection to the server: it has one for the life of its
  process, and its end is `WorkerLeaves`.
- The portal's connection (`signalConnection.js`) with its timers, and the
  timers of the phone page and of the game session: what decides about them, the
  order in which a browser delivers socket events and runs timers, is not in
  this repository. `SignalServer` takes from it that the games list is requested
  again and again.
- Rendering, key mappings and local storage of the portal.
