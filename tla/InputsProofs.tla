----------------------------- MODULE InputsProofs -----------------------------
(***************************************************************************)
(* Proofs about Inputs, for any viewers, phones, slots, sizes of the       *)
(* buffer and inputs: types, and the order of a client's inputs.           *)
(*                                                                         *)
(* The order rests on AllOrdered: while a client keeps its slot and its    *)
(* inputs come one way (Clean), what is applied, looked up, sent, and in   *)
(* the hands of its task comes in the order of arrival; the buffer is      *)
(* flushed only when nothing was sent before, and the emulator thread      *)
(* never gives an input back to it.  AllAccounted says whose inputs are    *)
(* where, so that two tasks are never busy with one clean client.          *)
(***************************************************************************)
EXTENDS Inputs, SequenceTheorems, WellFoundedInduction, TLAPS

-----------------------------------------------------------------------------
(* Slots. *)

(* A set of slots that is not empty has a lowest one.                      *)
LEMMA LowestIsLeast ==
    ASSUME NEW P \in SUBSET Nat, P # {}
    PROVE  Lowest(P) \in P
<1> DEFINE R == OpToRel(<, Nat)
<1>1. IsWellFoundedOn(R, Nat)
  BY NatLessThanWellFounded
<1>2. \A q, p \in Nat : <<q, p>> \in R <=> q < p
  BY DEF OpToRel
<1> HIDE DEF R
<1>3. PICK p \in P : \A q \in P : ~(<<q, p>> \in R)
  BY <1>1, WFMin
<1>4. ASSUME NEW q \in P
      PROVE  p <= q
  <2>1. ~(q < p)
    BY <1>2, <1>3
  <2>2. QED
    BY <2>1
<1>5. QED
  BY <1>4 DEF Lowest

LEMMA PortsAreNat == Ports \subseteq Nat
BY CountAssumption DEF Ports

LEMMA LowestPort ==
    ASSUME NEW P \in SUBSET Ports, P # {}
    PROVE  Lowest(P) \in P
BY PortsAreNat, LowestIsLeast

(* A client has a slot exactly when it is a player (room_state.rs:40-58).  *)
LEMMA PortOfPlayer ==
    ASSUME TypeOK, NEW c \in Clients
    PROVE  /\ PortOf(c) \in Ports \cup {None}
           /\ c \in Players <=> PortOf(c) # None
<1>1. CASE c \in Players
  <2>1. {p \in Ports : slots[p] = c} # {} /\ {p \in Ports : slots[p] = c} \in SUBSET Ports
    BY <1>1 DEF Players
  <2>2. Lowest({p \in Ports : slots[p] = c}) \in {p \in Ports : slots[p] = c}
    BY <2>1, LowestPort
  <2>3. QED
    BY <1>1, <2>2, NameAssumption DEF PortOf
<1>2. CASE c \notin Players
  BY <1>2 DEF PortOf
<1>3. QED
  BY <1>1, <1>2

(* An assignment takes a free slot and no other (room_state.rs:22-38).     *)
LEMMA AssignEffect ==
    ASSUME TypeOK, NEW c \in Clients, Assign(c)
    PROVE  /\ slots' \in [Ports -> Clients \cup {None}]
           /\ Players \subseteq Players'
           /\ Players' \subseteq Players \cup {c}
           /\ c \in Players \/ Free # {} => c \in Players'
<1>0. c # None
  BY NameAssumption
<1>1. CASE c \in Players \/ Free = {}
  <2>1. slots' = slots
    BY <1>1 DEF Assign
  <2>2. QED
    BY <1>1, <2>1 DEF TypeOK, Players
<1>2. CASE ~(c \in Players \/ Free = {})
  <2> DEFINE p == Lowest(Free)
  <2>1. slots' = [slots EXCEPT ![p] = c]
    BY <1>2 DEF Assign
  <2>2. p \in Free
    BY <1>2, LowestPort DEF Free
  <2> HIDE DEF p
  <2>3. p \in Ports /\ slots[p] = None
    BY <2>2 DEF Free
  <2>4. /\ slots' \in [Ports -> Clients \cup {None}]
        /\ slots'[p] = c
        /\ \A q \in Ports : q # p => slots'[q] = slots[q]
    BY <2>1, <2>3 DEF TypeOK
  <2>5. QED
    BY <1>0, <2>3, <2>4 DEF Players
<1>3. QED
  BY <1>1, <1>2

(* A release takes the slots of one client, and that is recorded.          *)
LEMMA ReleaseSlotEffect ==
    ASSUME TypeOK, NEW c \in Clients, ReleaseSlot(c)
    PROVE  /\ slots' \in [Ports -> Clients \cup {None}]
           /\ lost' \subseteq Clients /\ lost \subseteq lost'
           /\ \A d \in Players : d \in Players' \/ d \in lost'
<1>1. slots' = [p \in Ports |-> IF slots[p] = c THEN None ELSE slots[p]]
  BY DEF ReleaseSlot
<1>2. slots' \in [Ports -> Clients \cup {None}]
  BY <1>1 DEF TypeOK
<1>3. lost' \subseteq Clients /\ lost \subseteq lost'
  BY DEF ReleaseSlot, TypeOK
<1>4. ASSUME NEW d \in Players, d # c
      PROVE  d \in Players'
  <2>1. PICK p \in Ports : slots[p] = d /\ d # None
    BY DEF Players
  <2>2. slots'[p] = d
    BY <1>1, <1>4, <2>1
  <2>3. QED
    BY <2>1, <2>2 DEF Players
<1>5. c \in Players => c \in lost'
  BY DEF ReleaseSlot
<1>6. QED
  BY <1>2, <1>3, <1>4, <1>5

-----------------------------------------------------------------------------
(* Pads: a packet of two bytes gives a pad (libretro.rs:1152-1180). *)
LEMMA UpdatedPad ==
    ASSUME NEW pad \in Pad, NEW mask \in SUBSET (0..15)
    PROVE  Updated(pad, Packet(mask)) \in Pad
<1> DEFINE low == mask \cap 0..7
           high == {b - 8 : b \in mask \cap 8..15}
           keys == low \cup {b + 8 : b \in high}
           axes == [i \in 0..(MaxAxes - 1) |-> <<{}, {}>>]
<1>1. Packet(mask) = <<low, high>>
  BY DEF Packet
<1>2. keys \in SUBSET (0..15)
  OBVIOUS
<1>3. axes \in [0..(MaxAxes - 1) -> (SUBSET (0..7)) \X (SUBSET (0..7))]
  OBVIOUS
<1> HIDE DEF low, high
<1>4. /\ Len(<<low, high>>) = 2
      /\ <<low, high>>[1] = low /\ <<low, high>>[2] = high
  OBVIOUS
<1>5. KeyState(<<low, high>>) = keys
  BY <1>4 DEF KeyState
<1>6. Axes(<<low, high>>) = axes
  <2>1. \A i \in 0..(MaxAxes - 1) : ~(2 * (i + 1) + 1 < 2)
    BY DEF MaxAxes
  <2>2. QED
    BY <1>4, <2>1 DEF Axes
<1> HIDE DEF keys, axes
<1>7. Updated(pad, <<low, high>>) = [keys |-> keys, axes |-> axes]
  BY <1>4, <1>5, <1>6 DEF Updated
<1>8. [keys |-> keys, axes |-> axes] \in Pad
  <2> DEFINE Bytes == [0..(MaxAxes - 1) -> (SUBSET (0..7)) \X (SUBSET (0..7))]
  <2>1. axes \in Bytes
    BY <1>3
  <2> HIDE DEF Bytes
  <2>2. [keys |-> keys, axes |-> axes] \in [keys : SUBSET (0..15), axes : Bytes]
    BY <1>2, <2>1
  <2>3. QED
    BY <2>2 DEF Bytes, Pad
<1>9. QED
  BY <1>1, <1>7, <1>8

LEMMA BlankPad == Blank \in Pad
BY DEF Blank, Pad

(* Queueing keeps the bound (room_state.rs:63-74).                         *)
LEMMA QueuedEffect ==
    ASSUME NEW q \in Seq(Input), NEW i \in Input, Len(q) <= MaxPending
    PROVE  Queued(q, i) \in Seq(Input) /\ Len(Queued(q, i)) <= MaxPending
<1>0. MaxPending \in Nat \ {0} /\ Len(q) \in Nat
  BY CountAssumption, LenProperties
<1>1. CASE Len(q) >= MaxPending
  <2>1. q # <<>>
    BY <1>0, <1>1, EmptySeq
  <2>2. Tail(q) \in Seq(Input) /\ Len(Tail(q)) = Len(q) - 1
    BY <2>1, HeadTailProperties
  <2>3. Queued(q, i) = Append(Tail(q), i)
    BY <1>1 DEF Queued
  <2>4. Append(Tail(q), i) \in Seq(Input) /\ Len(Append(Tail(q), i)) = Len(Tail(q)) + 1
    BY <2>2, AppendProperties
  <2>5. QED
    BY <1>0, <2>2, <2>3, <2>4
<1>2. CASE ~(Len(q) >= MaxPending)
  <2>1. Queued(q, i) = Append(q, i)
    BY <1>2 DEF Queued
  <2>2. Append(q, i) \in Seq(Input) /\ Len(Append(q, i)) = Len(q) + 1
    BY AppendProperties
  <2>3. QED
    BY <1>0, <1>2, <2>1, <2>2
<1>3. QED
  BY <1>1, <1>2

(* An input is one of its client's. *)
LEMMA InputType ==
    ASSUME NEW i \in Input
    PROVE  /\ i.client \in Clients /\ i.no \in Nat /\ i.no \in 1..Len(Bitmaps[i.client])
           /\ Bitmaps[i.client][i.no] \in SUBSET (0..15)
<1>1. i.client \in Clients /\ i.no \in Nat /\ i.no \in 1..Len(Bitmaps[i.client])
  BY DEF Input
<1>2. Bitmaps[i.client] \in Seq(SUBSET (0..15))
  BY <1>1, BitmapAssumption
<1>3. QED
  BY <1>1, <1>2, ElementOfSeq

(* What a job holds follows from what it is. *)
LEMMA JobShape ==
    ASSUME NEW j \in Job
    PROVE  /\ j.at \in {"join", "queue", "flush"} => j.input \in Input
           /\ j.at = "join" => j.assigned \in BOOLEAN
           /\ j.at = "send" => j.batch \in Seq(Input)
           /\ j.at = "release" => j.client \in Clients
BY DEF Job, Idle

LEMMA JobTypes ==
    /\ Idle \in Job
    /\ \A i \in Input :
          /\ [at |-> "queue", input |-> i] \in Job
          /\ [at |-> "flush", input |-> i] \in Job
          /\ \A a \in BOOLEAN : [at |-> "join", input |-> i, assigned |-> a] \in Job
    /\ \A b \in Seq(Input) : [at |-> "send", batch |-> b] \in Job
    /\ \A c \in Clients : [at |-> "release", client |-> c] \in Job
BY DEF Job

LEMMA ThenType ==
    ASSUME TypeOK, NEW t \in Tasks, NEW j \in Job, Then(t, j)
    PROVE  /\ job' \in [Tasks -> Job]
           /\ job'[t] = j
           /\ \A u \in Tasks : u # t => job'[u] = job[u]
BY DEF Then, TypeOK

-----------------------------------------------------------------------------
(* Types. *)

(* The new input of a client is one of its inputs. *)
LEMMA NewInput ==
    ASSUME TypeOK, NEW c \in Clients, arrived[c] < Len(Bitmaps[c])
    PROVE  [client |-> c, no |-> arrived[c] + 1] \in Input
<1>1. arrived[c] \in Nat
  BY DEF TypeOK
<1>2. Len(Bitmaps[c]) \in Nat
  BY BitmapAssumption, LenProperties
<1>3. QED
  BY <1>1, <1>2 DEF Input

LEMMA ReceiveTypes ==
    ASSUME TypeOK, NEW t \in Tasks, NEW c \in Clients, Receive(t, c)
    PROVE  TypeOK'
<1> DEFINE i == [client |-> c, no |-> arrived[c] + 1]
           a == c \in Players
<1>1. i \in Input
  BY NewInput DEF Receive
<1>2. a \in BOOLEAN /\ Then(t, [at |-> "join", input |-> i, assigned |-> a])
  BY DEF Receive
<1> HIDE DEF i, a
<1>3. job' \in [Tasks -> Job]
  BY <1>1, <1>2, JobTypes, ThenType
<1>4. arrived' \in [Clients -> Nat] /\ paths' \in [Clients -> SUBSET Tasks]
  BY DEF Receive, TypeOK
<1>5. QED
  BY <1>3, <1>4 DEF Receive, TypeOK, emulatorVars

LEMMA EnsureTypes ==
    ASSUME TypeOK, NEW t \in Tasks, Ensure(t)
    PROVE  TypeOK'
<1> DEFINE i == job[t].input
           next == IF i.client \notin Players /\ Free = {} THEN [at |-> "queue", input |-> i]
                   ELSE IF job[t].assigned THEN [at |-> "send", batch |-> <<i>>]
                   ELSE [at |-> "flush", input |-> i]
<1>1. i \in Input
  BY JobShape DEF TypeOK, Ensure, At
<1>2. Assign(i.client) /\ Then(t, next)
  BY DEF Ensure
<1> HIDE DEF i
<1>3. slots' \in [Ports -> Clients \cup {None}]
  BY <1>1, <1>2, AssignEffect, InputType
<1>4. <<i>> \in Seq(Input)
  BY <1>1
<1>5. next \in Job
  BY <1>1, <1>4, JobTypes
<1> HIDE DEF next
<1>6. job' \in [Tasks -> Job]
  BY <1>2, <1>5, ThenType
<1>7. QED
  BY <1>3, <1>6 DEF Ensure, TypeOK, emulatorVars

LEMMA QueueTypes ==
    ASSUME TypeOK, NEW t \in Tasks, Queue(t)
    PROVE  TypeOK'
<1> DEFINE i == job[t].input
           q == Queued(pending[i.client], i)
<1>1. i \in Input /\ i.client \in Clients
  BY JobShape, InputType DEF TypeOK, Queue, At
<1>2. pending' = [pending EXCEPT ![i.client] = q] /\ Then(t, Idle)
  BY DEF Queue
<1>3. q \in Seq(Input) /\ Len(q) <= MaxPending
  BY <1>1, QueuedEffect DEF TypeOK
<1> HIDE DEF i, q
<1>4. pending' \in [Clients -> Seq(Input)] /\ \A c \in Clients : Len(pending'[c]) <= MaxPending
  BY <1>1, <1>2, <1>3 DEF TypeOK
<1>5. job' \in [Tasks -> Job]
  BY <1>2, JobTypes, ThenType
<1>6. QED
  BY <1>4, <1>5 DEF Queue, TypeOK, emulatorVars

(* Emptying a buffer. *)
LEMMA EmptiedTypes ==
    ASSUME TypeOK, NEW c \in Clients, pending' = [pending EXCEPT ![c] = <<>>]
    PROVE  /\ pending' \in [Clients -> Seq(Input)]
           /\ \A d \in Clients : Len(pending'[d]) <= MaxPending
           /\ pending'[c] = <<>>
           /\ \A d \in Clients : d # c => pending'[d] = pending[d]
<1>1. <<>> \in Seq(Input) /\ Len(<<>>) = 0 /\ 0 <= MaxPending
  BY EmptySeq, CountAssumption
<1>2. QED
  BY <1>1 DEF TypeOK

LEMMA FlushTypes ==
    ASSUME TypeOK, NEW t \in Tasks, Flush(t)
    PROVE  TypeOK'
<1> DEFINE i == job[t].input
           b == Append(pending[i.client], i)
<1>1. i \in Input /\ i.client \in Clients
  BY JobShape, InputType DEF TypeOK, Flush, At
<1>2. pending' = [pending EXCEPT ![i.client] = <<>>] /\ Then(t, [at |-> "send", batch |-> b])
  BY DEF Flush
<1>3. b \in Seq(Input)
  BY <1>1, AppendProperties DEF TypeOK
<1> HIDE DEF i, b
<1>4. pending' \in [Clients -> Seq(Input)] /\ \A c \in Clients : Len(pending'[c]) <= MaxPending
  BY <1>1, <1>2, EmptiedTypes
<1>5. job' \in [Tasks -> Job]
  BY <1>2, <1>3, JobTypes, ThenType
<1>6. QED
  BY <1>4, <1>5 DEF Flush, TypeOK, emulatorVars

LEMMA SendTypes ==
    ASSUME TypeOK, NEW t \in Tasks, Send(t)
    PROVE  TypeOK'
<1>1. job[t].batch \in Seq(Input)
  BY JobShape DEF TypeOK, Send, At
<1>2. channel' \in Seq(Input)
  BY <1>1, ConcatProperties DEF Send, TypeOK
<1>3. job' \in [Tasks -> Job]
  BY JobTypes, ThenType DEF Send
<1>4. QED
  BY <1>2, <1>3 DEF Send, TypeOK, emulatorVars

LEMMA RouterTypes ==
    ASSUME TypeOK, (\E c \in Clients : JoinRoom(c) \/ Terminate(c)) \/ Release
    PROVE  TypeOK'
<1>0. Router \in Tasks
  BY DEF Tasks
<1>1. ASSUME NEW c \in Clients, JoinRoom(c)
      PROVE  TypeOK'
  BY <1>1, AssignEffect DEF JoinRoom, TypeOK, emulatorVars
<1>2. ASSUME NEW c \in Clients, Terminate(c)
      PROVE  TypeOK'
  <2>1. pending' \in [Clients -> Seq(Input)] /\ \A d \in Clients : Len(pending'[d]) <= MaxPending
    BY <1>2, EmptiedTypes DEF Terminate
  <2>2. job' \in [Tasks -> Job]
    BY <1>0, <1>2, JobTypes, ThenType DEF Terminate
  <2>3. QED
    BY <1>2, <2>1, <2>2 DEF Terminate, TypeOK, emulatorVars
<1>3. ASSUME Release
      PROVE  TypeOK'
  <2>1. job[Router].client \in Clients
    BY <1>0, <1>3, JobShape DEF TypeOK, Release, At
  <2>2. slots' \in [Ports -> Clients \cup {None}] /\ lost' \subseteq Clients
    BY <1>3, <2>1, ReleaseSlotEffect DEF Release
  <2>3. job' \in [Tasks -> Job]
    BY <1>0, <1>3, JobTypes, ThenType DEF Release
  <2>4. QED
    BY <1>3, <2>2, <2>3 DEF Release, TypeOK, emulatorVars
<1>4. QED
  BY <1>1, <1>2, <1>3

LEMMA EmulatingTypes ==
    ASSUME TypeOK, Emulating
    PROVE  TypeOK'
<1>1. ASSUME Take
      PROVE  TypeOK'
  <2>1. Head(channel) \in Input /\ Tail(channel) \in Seq(Input)
    BY <1>1, HeadTailProperties DEF Take, TypeOK
  <2>2. PortOf(Head(channel).client) \in Ports \cup {None}
    BY <2>1, InputType, PortOfPlayer
  <2>3. QED
    BY <1>1, <2>1, <2>2 DEF Take, TypeOK
<1>2. ASSUME Apply
      PROVE  TypeOK'
  <2> DEFINE c == taken.input.client
             n == taken.input.no
             port == taken.port
  <2>1. taken.input \in Input /\ port \in Ports
    BY <1>2 DEF Apply, TypeOK
  <2>2. c \in Clients /\ n \in Nat /\ Bitmaps[c][n] \in SUBSET (0..15)
    BY <2>1, InputType
  <2>3. pads' = [pads EXCEPT ![port] = Updated(pads[port], Packet(Bitmaps[c][n]))]
    BY <1>2 DEF Apply
  <2>4. pads[port] \in Pad
    BY <2>1 DEF TypeOK
  <2>5. Updated(pads[port], Packet(Bitmaps[c][n])) \in Pad
    BY <2>2, <2>4, UpdatedPad
  <2>6. pads' \in [Ports -> Pad]
    BY <2>1, <2>3, <2>5 DEF TypeOK
  <2>7. applied' \in [Clients -> Nat]
    BY <1>2, <2>2 DEF Apply, TypeOK
  <2>8. QED
    BY <1>2, <2>6, <2>7 DEF Apply, TypeOK
<1>3. ASSUME Requeue
      PROVE  TypeOK'
  <2> DEFINE i == taken.input
             q == Queued(pending[i.client], i)
  <2>1. i \in Input /\ i.client \in Clients
    BY <1>3, InputType DEF Requeue, TypeOK
  <2>2. pending' = [pending EXCEPT ![i.client] = q]
    BY <1>3 DEF Requeue
  <2>3. q \in Seq(Input) /\ Len(q) <= MaxPending
    BY <2>1, QueuedEffect DEF TypeOK
  <2> HIDE DEF i, q
  <2>4. pending' \in [Clients -> Seq(Input)] /\ \A c \in Clients : Len(pending'[c]) <= MaxPending
    BY <2>1, <2>2, <2>3 DEF TypeOK
  <2>5. QED
    BY <1>3, <2>4 DEF Requeue, TypeOK
<1>4. QED
  BY <1>1, <1>2, <1>3 DEF Emulating

LEMMA TypeOKStep ==
    ASSUME TypeOK, [Next]_vars
    PROVE  TypeOK'
<1>1. ASSUME NEW t \in Tasks, Working(t)
      PROVE  TypeOK'
  BY <1>1, EnsureTypes, QueueTypes, FlushTypes, SendTypes DEF Working
<1>2. ASSUME NEW v \in Viewers, Unregister(v)
      PROVE  TypeOK'
  BY <1>2, ReleaseSlotEffect DEF Unregister, TypeOK, emulatorVars, Clients
<1>3. ASSUME CoreFails
      PROVE  TypeOK'
  BY <1>3 DEF CoreFails, TypeOK
<1>4. CASE UNCHANGED vars
  BY <1>4 DEF vars, TypeOK
<1>5. QED
  BY <1>1, <1>2, <1>3, <1>4, ReceiveTypes, RouterTypes, EmulatingTypes DEF Next

(* No buffer exceeds its limit, whoever queues (room_state.rs:63-74), and  *)
(* jobs, channel and pads keep their types.                                *)
THEOREM TypeCorrect == Spec => []TypeOK
<1>1. Init => TypeOK
  BY BlankPad, JobTypes, CountAssumption DEF Init, TypeOK
<1>2. TypeOK /\ [Next]_vars => TypeOK'
  BY TypeOKStep
<1>3. QED
  BY <1>1, <1>2, PTL DEF Spec

-----------------------------------------------------------------------------
(* The inputs of one client in a sequence of inputs. *)

Below(c, s, n) == \A k \in 1..Len(s) : s[k].client = c => s[k].no <= n
Above(c, s, n) == \A k \in 1..Len(s) : s[k].client = c => s[k].no >= n
Without(c, s) == \A k \in 1..Len(s) : s[k].client # c

Sorted(c, s) ==
    \A j, k \in 1..Len(s) :
        j < k /\ s[j].client = c /\ s[k].client = c => s[j].no <= s[k].no

LEMMA EmptyInputs ==
    ASSUME NEW c, NEW n
    PROVE  Below(c, <<>>, n) /\ Above(c, <<>>, n) /\ Without(c, <<>>) /\ Sorted(c, <<>>)
BY DEF Below, Above, Without, Sorted

LEMMA OneInput ==
    ASSUME NEW c, NEW i
    PROVE  /\ Sorted(c, <<i>>)
           /\ \A n : Below(c, <<i>>, n) <=> (i.client = c => i.no <= n)
           /\ \A n : Above(c, <<i>>, n) <=> (i.client = c => i.no >= n)
           /\ Without(c, <<i>>) <=> i.client # c
BY DEF Below, Above, Without, Sorted

LEMMA ConcatInputs ==
    ASSUME NEW c, NEW s \in Seq(Input), NEW b \in Seq(Input)
    PROVE  /\ \A n : Below(c, s \o b, n) <=> Below(c, s, n) /\ Below(c, b, n)
           /\ \A n : Above(c, s \o b, n) <=> Above(c, s, n) /\ Above(c, b, n)
           /\ Without(c, s \o b) <=> Without(c, s) /\ Without(c, b)
           /\ /\ Sorted(c, s) /\ Sorted(c, b)
              /\ \A k \in 1..Len(b) : b[k].client = c => Below(c, s, b[k].no)
              => Sorted(c, s \o b)
<1> DEFINE u == s \o b
           m == Len(s)
           l == Len(b)
<1>1. /\ m \in Nat /\ l \in Nat /\ Len(u) = m + l
      /\ \A k \in 1..(m + l) : u[k] = IF k <= m THEN s[k] ELSE b[k - m]
  BY ConcatProperties, LenProperties
<1> HIDE DEF u
<1>2. \A k \in 1..m : k \in 1..(m + l) /\ u[k] = s[k]
  BY <1>1
<1>3. \A k \in 1..l : k + m \in 1..(m + l) /\ u[k + m] = b[k]
  BY <1>1
<1>4. \A k \in 1..(m + l) : (k \in 1..m /\ u[k] = s[k]) \/ (k - m \in 1..l /\ k > m /\ u[k] = b[k - m])
  BY <1>1
<1>5. ASSUME NEW n
      PROVE  Below(c, u, n) <=> Below(c, s, n) /\ Below(c, b, n)
  BY <1>1, <1>2, <1>3, <1>4 DEF Below
<1>6. ASSUME NEW n
      PROVE  Above(c, u, n) <=> Above(c, s, n) /\ Above(c, b, n)
  BY <1>1, <1>2, <1>3, <1>4 DEF Above
<1>7. Without(c, u) <=> Without(c, s) /\ Without(c, b)
  <2>1. ASSUME Without(c, u)
        PROVE  Without(c, s) /\ Without(c, b)
    BY <1>1, <1>2, <1>3, <2>1 DEF Without
  <2>2. ASSUME Without(c, s), Without(c, b)
        PROVE  Without(c, u)
    BY <1>1, <1>4, <2>2 DEF Without
  <2>3. QED
    BY <2>1, <2>2
<1>8. ASSUME Sorted(c, s), Sorted(c, b),
             \A k \in 1..Len(b) : b[k].client = c => Below(c, s, b[k].no)
      PROVE  Sorted(c, u)
  <2> SUFFICES ASSUME NEW j \in 1..(m + l), NEW k \in 1..(m + l), j < k, u[j].client = c, u[k].client = c
               PROVE  u[j].no <= u[k].no
    BY <1>1 DEF Sorted
  <2>1. CASE k \in 1..m /\ u[k] = s[k]
    <3>1. j \in 1..m /\ u[j] = s[j]
      BY <1>1, <1>2, <2>1
    <3>2. QED
      BY <1>8, <2>1, <3>1 DEF Sorted
  <2>2. CASE k - m \in 1..l /\ k > m /\ u[k] = b[k - m]
    <3>1. CASE j \in 1..m /\ u[j] = s[j]
      <4>1. Below(c, s, b[k - m].no)
        BY <1>8, <2>2
      <4>2. QED
        BY <2>2, <3>1, <4>1 DEF Below
    <3>2. CASE j - m \in 1..l /\ j > m /\ u[j] = b[j - m]
      <4>1. j - m < k - m
        BY <1>1
      <4>2. QED
        BY <1>8, <2>2, <3>2, <4>1 DEF Sorted
    <3>3. QED
      BY <1>4, <3>1, <3>2
  <2>3. QED
    BY <1>4, <2>1, <2>2
<1>9. QED
  BY <1>5, <1>6, <1>7, <1>8 DEF u

LEMMA AppendInputs ==
    ASSUME NEW c, NEW s \in Seq(Input), NEW i \in Input
    PROVE  /\ \A n : Below(c, Append(s, i), n) <=> Below(c, s, n) /\ (i.client = c => i.no <= n)
           /\ Without(c, Append(s, i)) <=> Without(c, s) /\ i.client # c
           /\ Sorted(c, s) /\ (i.client = c => Below(c, s, i.no)) => Sorted(c, Append(s, i))
<1>1. Append(s, i) = s \o <<i>> /\ <<i>> \in Seq(Input)
  BY AppendIsConcat
<1>2. Len(<<i>>) = 1 /\ <<i>>[1] = i
  OBVIOUS
<1> DEFINE b == <<i>>
<1>3. /\ Sorted(c, b) /\ (Without(c, b) <=> i.client # c)
      /\ \A n : Below(c, b, n) <=> (i.client = c => i.no <= n)
  BY OneInput
<1>4. \A k \in 1..Len(b) : b[k] = i
  BY <1>2
<1> HIDE DEF b
<1>5. b \in Seq(Input) /\ Append(s, i) = s \o b
  BY <1>1 DEF b
<1>6. QED
  BY <1>3, <1>4, <1>5, ConcatInputs

LEMMA TailInputs ==
    ASSUME NEW c, NEW s \in Seq(Input), s # <<>>
    PROVE  /\ \A n : Below(c, s, n) => Below(c, Tail(s), n) /\ (Head(s).client = c => Head(s).no <= n)
           /\ \A n : Above(c, s, n) => Above(c, Tail(s), n) /\ (Head(s).client = c => Head(s).no >= n)
           /\ Without(c, s) => Without(c, Tail(s)) /\ Head(s).client # c
           /\ Sorted(c, s) => Sorted(c, Tail(s)) /\ (Head(s).client = c => Above(c, Tail(s), Head(s).no))
<1> DEFINE r == Tail(s)
           h == Head(s)
           l == Len(s)
<1>1. /\ l \in Nat \ {0} /\ Len(r) = l - 1
      /\ \A k \in 1..(l - 1) : r[k] = s[k + 1]
  BY EmptySeq, HeadTailProperties
<1>2. h = s[1]
  OBVIOUS
<1> HIDE DEF r, h
<1>3. 1 \in 1..l /\ \A k \in 1..(l - 1) : k + 1 \in 1..l /\ 1 < k + 1
  BY <1>1
<1>4. ASSUME NEW n
      PROVE  Below(c, s, n) => Below(c, r, n) /\ (h.client = c => h.no <= n)
  BY <1>1, <1>2, <1>3 DEF Below
<1>5. ASSUME NEW n
      PROVE  Above(c, s, n) => Above(c, r, n) /\ (h.client = c => h.no >= n)
  BY <1>1, <1>2, <1>3 DEF Above
<1>6. Without(c, s) => Without(c, r) /\ h.client # c
  BY <1>1, <1>2, <1>3 DEF Without
<1>7. ASSUME Sorted(c, s)
      PROVE  Sorted(c, r) /\ (h.client = c => Above(c, r, h.no))
  <2>1. \A j, k \in 1..(l - 1) : j < k => j + 1 < k + 1
    BY <1>1
  <2>2. Sorted(c, r)
    BY <1>1, <1>3, <1>7, <2>1 DEF Sorted
  <2>3. ASSUME NEW k \in 1..(l - 1), h.client = c, r[k].client = c
        PROVE  r[k].no >= h.no
    <3>1. k + 1 \in 1..l /\ 1 \in 1..l /\ 1 < k + 1 /\ r[k] = s[k + 1]
      BY <1>1, <1>3
    <3>2. s[1].no <= s[k + 1].no
      BY <1>2, <1>7, <2>3, <3>1 DEF Sorted
    <3>3. s[1] \in Input /\ s[k + 1] \in Input
      BY <3>1, ElementOfSeq
    <3>4. QED
      BY <1>2, <3>1, <3>2, <3>3, InputType
  <2>4. QED
    BY <1>1, <2>2, <2>3 DEF Above
<1>8. QED
  BY <1>4, <1>5, <1>6, <1>7 DEF r, h

(* Queueing drops the oldest or nothing, and appends. *)
LEMMA QueuedInputs ==
    ASSUME NEW c, NEW s \in Seq(Input), NEW i \in Input, Len(s) <= MaxPending
    PROVE  /\ \A n : Below(c, s, n) /\ (i.client = c => i.no <= n) => Below(c, Queued(s, i), n)
           /\ Without(c, s) /\ i.client # c => Without(c, Queued(s, i))
           /\ Sorted(c, s) /\ (i.client = c => Below(c, s, i.no)) => Sorted(c, Queued(s, i))
<1>1. CASE Len(s) >= MaxPending
  <2>1. s # <<>>
    BY <1>1, EmptySeq, CountAssumption
  <2>2. Tail(s) \in Seq(Input)
    BY <2>1, HeadTailProperties
  <2>3. Queued(s, i) = Append(Tail(s), i)
    BY <1>1 DEF Queued
  <2> DEFINE r == Tail(s)
  <2>4. /\ \A n : Below(c, s, n) => Below(c, r, n)
        /\ Without(c, s) => Without(c, r)
        /\ Sorted(c, s) => Sorted(c, r)
    BY <2>1, TailInputs
  <2> HIDE DEF r
  <2>5. r \in Seq(Input) /\ Queued(s, i) = Append(r, i)
    BY <2>2, <2>3 DEF r
  <2>6. \A n : Below(c, s, n) /\ (i.client = c => i.no <= n) => Below(c, Append(r, i), n)
    BY <2>4, <2>5, AppendInputs
  <2>7. Without(c, s) /\ i.client # c => Without(c, Append(r, i))
    BY <2>4, <2>5, AppendInputs
  <2>8. Sorted(c, s) /\ (i.client = c => Below(c, s, i.no)) => Sorted(c, Append(r, i))
    <3>1. Sorted(c, r) /\ (i.client = c => Below(c, r, i.no)) => Sorted(c, Append(r, i))
      BY <2>5, AppendInputs
    <3>2. Below(c, s, i.no) => Below(c, r, i.no)
      BY <2>4
    <3>3. QED
      BY <2>4, <3>1, <3>2
  <2>9. QED
    BY <2>5, <2>6, <2>7, <2>8
<1>2. CASE ~(Len(s) >= MaxPending)
  <2>1. Queued(s, i) = Append(s, i)
    BY <1>2 DEF Queued
  <2>2. QED
    BY <2>1, AppendInputs
<1>3. QED
  BY <1>1, <1>2

-----------------------------------------------------------------------------
(* Where the inputs of a client are. *)

TakenOf(c) == taken # None /\ taken.input.client = c

SentUpTo(c, n) ==
    applied[c] <= n /\ (TakenOf(c) => taken.input.no <= n) /\ Below(c, channel, n)

NothingSent(c) == applied[c] = 0 /\ ~TakenOf(c) /\ Without(c, channel)

Holds(t, c) == job[t].at \in {"join", "queue", "flush"} /\ job[t].input.client = c
Sends(t, c) == job[t].at = "send" /\ ~Without(c, job[t].batch)

(* No input has a number that has not arrived, buffers are not mixed up,   *)
(* and a task is busy only with inputs it received.                        *)
TaskAccounted(t, c) ==
    /\ Holds(t, c) => job[t].input.no <= arrived[c]
    /\ Sends(t, c) => Below(c, job[t].batch, arrived[c])
    /\ Holds(t, c) \/ Sends(t, c) => t \in paths[c]

Accounted(c) ==
    /\ \A d \in Clients : d # c => Without(d, pending[c])
    /\ SentUpTo(c, arrived[c])
    /\ Below(c, pending[c], arrived[c])
    /\ \A t \in Tasks : TaskAccounted(t, c)

AllAccounted == \A c \in Clients : Accounted(c)

LEMMA BelowMore ==
    ASSUME NEW c, NEW s \in Seq(Input), NEW m \in Nat, NEW n \in Nat, m <= n, Below(c, s, m)
    PROVE  Below(c, s, n)
<1> SUFFICES ASSUME NEW k \in 1..Len(s), s[k].client = c
             PROVE  s[k].no <= n
  BY DEF Below
<1>1. s[k].no <= m /\ s[k] \in Input
  BY ElementOfSeq DEF Below
<1>2. QED
  BY <1>1, InputType

(* What a task has to do stays accounted for while it does nothing. *)
LEMMA TaskStaysAccounted ==
    ASSUME TypeOK, TypeOK', NEW u \in Tasks, NEW c \in Clients, TaskAccounted(u, c),
           job'[u] = job[u], arrived[c] <= arrived'[c], paths[c] \subseteq paths'[c]
    PROVE  TaskAccounted(u, c)'
<1>1. job[u] \in Job /\ arrived[c] \in Nat /\ arrived'[c] \in Nat
  BY DEF TypeOK
<1>2. Holds(u, c)' <=> Holds(u, c)
  BY DEF Holds
<1>3. Sends(u, c)' <=> Sends(u, c)
  BY DEF Sends
<1>4. ASSUME Holds(u, c)
      PROVE  job[u].input.no <= arrived'[c]
  <2>1. job[u].input \in Input
    BY <1>1, <1>4, JobShape DEF Holds
  <2>2. job[u].input.no \in Nat /\ job[u].input.no <= arrived[c]
    BY <1>4, <2>1, InputType DEF TaskAccounted
  <2>3. QED
    BY <1>1, <2>2
<1>5. ASSUME Sends(u, c)
      PROVE  Below(c, job[u].batch, arrived'[c])
  <2>1. job[u].batch \in Seq(Input)
    BY <1>1, <1>5, JobShape DEF Sends
  <2>2. QED
    BY <1>1, <1>5, <2>1, BelowMore DEF TaskAccounted
<1>6. QED
  BY <1>2, <1>3, <1>4, <1>5 DEF TaskAccounted

(* The parts of Accounted that no step of a task disturbs. *)
LEMMA StaysAccounted ==
    ASSUME TypeOK, TypeOK', NEW c \in Clients, Accounted(c),
           UNCHANGED <<channel, taken, applied>>, arrived[c] <= arrived'[c]
    PROVE  SentUpTo(c, arrived[c])' /\ (pending'[c] = pending[c] => Below(c, pending[c], arrived[c])')
<1>1. arrived[c] \in Nat /\ arrived'[c] \in Nat /\ applied[c] \in Nat
  BY DEF TypeOK
<1>2. Below(c, channel, arrived[c])'
  BY <1>1, BelowMore DEF Accounted, SentUpTo, TypeOK
<1>3. applied'[c] <= arrived'[c]
  BY <1>1 DEF Accounted, SentUpTo
<1>4. ASSUME TakenOf(c)'
      PROVE  taken'.input.no <= arrived'[c]
  <2>1. TakenOf(c) /\ taken' = taken
    BY <1>4 DEF TakenOf
  <2>2. taken.input \in Input /\ taken.input.no <= arrived[c]
    BY <2>1 DEF Accounted, SentUpTo, TakenOf, TypeOK
  <2>3. QED
    BY <1>1, <2>1, <2>2, InputType
<1>5. pending'[c] = pending[c] => Below(c, pending[c], arrived[c])'
  BY <1>1, BelowMore DEF Accounted, TypeOK
<1>6. QED
  BY <1>2, <1>3, <1>4, <1>5 DEF SentUpTo

LEMMA ReceiveAccounted ==
    ASSUME TypeOK, TypeOK', AllAccounted, NEW t \in Tasks, NEW d \in Clients, Receive(t, d)
    PROVE  AllAccounted'
<1> SUFFICES ASSUME NEW c \in Clients
             PROVE  Accounted(c)'
  BY DEF AllAccounted
<1>0. Accounted(c)
  BY DEF AllAccounted
<1>1. /\ arrived' = [arrived EXCEPT ![d] = @ + 1] /\ paths' = [paths EXCEPT ![d] = @ \cup {t}]
      /\ UNCHANGED <<pending, channel, taken, applied>>
      /\ job[t].at = "idle"
  BY DEF Receive, emulatorVars, At
<1>2. arrived[c] <= arrived'[c] /\ paths[c] \subseteq paths'[c]
  BY <1>1 DEF TypeOK
<1> DEFINE i == [client |-> d, no |-> arrived[d] + 1]
           j == [at |-> "join", input |-> i, assigned |-> d \in Players]
<1>3. i \in Input /\ j \in Job /\ Then(t, j)
  <2>1. i \in Input
    BY NewInput DEF Receive
  <2>2. (d \in Players) \in BOOLEAN
    OBVIOUS
  <2> HIDE DEF i
  <2>3. j \in Job
    BY <2>1, <2>2, JobTypes
  <2>4. QED
    BY <2>1, <2>3 DEF Receive, i
<1>4. i.client = d /\ i.no = arrived[d] + 1 /\ j.at = "join" /\ j.input = i
  OBVIOUS
<1> HIDE DEF i, j
<1>5. job'[t] = j /\ \A u \in Tasks : u # t => job'[u] = job[u]
  BY <1>3, ThenType
<1>6. ASSUME NEW u \in Tasks
      PROVE  TaskAccounted(u, c)'
  <2>1. CASE u # t
    BY <1>0, <1>2, <1>5, <2>1, TaskStaysAccounted DEF Accounted
  <2>2. CASE u = t
    <3>1. ~Sends(u, c)' /\ (Holds(u, c)' <=> c = d)
      BY <1>4, <1>5, <2>2 DEF Sends, Holds
    <3>2. c = d => t \in paths'[c] /\ i.no <= arrived'[c]
      BY <1>1, <1>4 DEF TypeOK
    <3>3. QED
      BY <1>4, <1>5, <2>2, <3>1, <3>2 DEF TaskAccounted
  <2>3. QED
    BY <2>1, <2>2
<1>7. SentUpTo(c, arrived[c])' /\ Below(c, pending[c], arrived[c])'
  BY <1>0, <1>1, <1>2, StaysAccounted
<1>8. QED
  BY <1>0, <1>1, <1>6, <1>7 DEF Accounted

(* A step of one task to job j, which sends and holds only what the task   *)
(* held, with the histories as they are. *)
LEMMA TaskMoves ==
    ASSUME TypeOK, TypeOK', NEW t \in Tasks, NEW c \in Clients, NEW j \in Job, Then(t, j),
           UNCHANGED <<arrived, paths>>,
           \A u \in Tasks : TaskAccounted(u, c),
           j.at \in {"join", "queue", "flush"} /\ j.input.client = c
               => Holds(t, c) /\ j.input.no <= arrived[c],
           j.at = "send" /\ ~Without(c, j.batch) => Holds(t, c) /\ Below(c, j.batch, arrived[c])
    PROVE  \A u \in Tasks : TaskAccounted(u, c)'
<1>1. job'[t] = j /\ \A u \in Tasks : u # t => job'[u] = job[u]
  BY ThenType
<1>2. arrived[c] <= arrived'[c] /\ paths[c] \subseteq paths'[c]
  BY DEF TypeOK
<1>3. ASSUME NEW u \in Tasks
      PROVE  TaskAccounted(u, c)'
  <2>1. CASE u # t
    BY <1>1, <1>2, <2>1, TaskStaysAccounted
  <2>2. CASE u = t
    <3>1. Holds(t, c)' => Holds(t, c) /\ job'[t].input.no <= arrived'[c]
      BY <1>1 DEF Holds
    <3>2. Sends(t, c)' => Holds(t, c) /\ Below(c, job'[t].batch, arrived'[c])
      BY <1>1 DEF Sends
    <3>3. Holds(t, c) => t \in paths'[c]
      BY DEF TaskAccounted
    <3>4. QED
      BY <2>2, <3>1, <3>2, <3>3 DEF TaskAccounted
  <2>3. QED
    BY <2>1, <2>2
<1>4. QED
  BY <1>3

LEMMA HeldInput ==
    ASSUME TypeOK, NEW t \in Tasks, NEW c \in Clients, TaskAccounted(t, c),
           job[t].at \in {"join", "queue", "flush"}
    PROVE  /\ job[t].input \in Input /\ job[t].input.client \in Clients
           /\ Holds(t, c) <=> job[t].input.client = c
           /\ job[t].input.client = c => job[t].input.no <= arrived[c]
<1>1. job[t].input \in Input
  BY JobShape DEF TypeOK
<1>2. QED
  BY <1>1, InputType DEF Holds, TaskAccounted

LEMMA EnsureAccounted ==
    ASSUME TypeOK, TypeOK', AllAccounted, NEW t \in Tasks, Ensure(t)
    PROVE  AllAccounted'
<1> SUFFICES ASSUME NEW c \in Clients
             PROVE  Accounted(c)'
  BY DEF AllAccounted
<1>0. Accounted(c) /\ \A u \in Tasks : TaskAccounted(u, c)
  BY DEF AllAccounted, Accounted
<1>1. UNCHANGED <<pending, channel, taken, applied, arrived, paths>> /\ job[t].at = "join"
  BY DEF Ensure, emulatorVars, At
<1> DEFINE i == job[t].input
<1>2. /\ i \in Input /\ (Holds(t, c) <=> i.client = c) /\ (i.client = c => i.no <= arrived[c])
  BY <1>0, <1>1, HeldInput
<1> HIDE DEF i
<1>3. /\ <<i>> \in Seq(Input) /\ (Without(c, <<i>>) <=> i.client # c)
      /\ i.client = c => Below(c, <<i>>, arrived[c])
  <2>1. <<i>> \in Seq(Input)
    BY <1>2
  <2>2. /\ Without(c, <<i>>) <=> i.client # c
        /\ \A n : Below(c, <<i>>, n) <=> (i.client = c => i.no <= n)
    BY OneInput
  <2>3. QED
    BY <1>2, <2>1, <2>2
<1>4. PICK j \in Job : /\ Then(t, j)
                       /\ \/ j = [at |-> "queue", input |-> i]
                          \/ j = [at |-> "send", batch |-> <<i>>]
                          \/ j = [at |-> "flush", input |-> i]
  <2>1. \/ Then(t, [at |-> "queue", input |-> i])
        \/ Then(t, [at |-> "send", batch |-> <<i>>])
        \/ Then(t, [at |-> "flush", input |-> i])
    BY DEF Ensure, i
  <2>2. QED
    BY <1>2, <1>3, <2>1, JobTypes
<1>5. \A u \in Tasks : TaskAccounted(u, c)'
  <2>1. j.at \in {"join", "queue", "flush"} /\ j.input.client = c
            => Holds(t, c) /\ j.input.no <= arrived[c]
    BY <1>2, <1>4
  <2>2. j.at = "send" /\ ~Without(c, j.batch) => Holds(t, c) /\ Below(c, j.batch, arrived[c])
    BY <1>2, <1>3, <1>4
  <2>3. QED
    BY <1>0, <1>1, <1>4, <2>1, <2>2, TaskMoves
<1>6. SentUpTo(c, arrived[c])' /\ Below(c, pending[c], arrived[c])'
  <2>1. arrived[c] <= arrived'[c]
    BY <1>1 DEF TypeOK
  <2>2. QED
    BY <1>0, <1>1, <2>1, StaysAccounted
<1>7. QED
  BY <1>0, <1>1, <1>5, <1>6 DEF Accounted

LEMMA QueueAccounted ==
    ASSUME TypeOK, TypeOK', AllAccounted, NEW t \in Tasks, Queue(t)
    PROVE  AllAccounted'
<1> SUFFICES ASSUME NEW c \in Clients
             PROVE  Accounted(c)'
  BY DEF AllAccounted
<1>0. Accounted(c) /\ \A u \in Tasks : TaskAccounted(u, c)
  BY DEF AllAccounted, Accounted
<1> DEFINE i == job[t].input
<1>1. /\ UNCHANGED <<channel, taken, applied, arrived, paths>> /\ job[t].at = "queue"
      /\ pending' = [pending EXCEPT ![i.client] = Queued(@, i)] /\ Then(t, Idle)
  BY DEF Queue, emulatorVars, At
<1>2. /\ i \in Input /\ i.client \in Clients
      /\ i.client = c => i.no <= arrived[c]
  BY <1>0, <1>1, HeldInput
<1> HIDE DEF i
<1>3. \A u \in Tasks : TaskAccounted(u, c)'
  <2>1. Idle \in Job /\ Idle.at = "idle"
    BY JobTypes DEF Idle
  <2>2. QED
    BY <1>0, <1>1, <2>1, TaskMoves
<1>4. SentUpTo(c, arrived[c])' /\ (pending'[c] = pending[c] => Below(c, pending[c], arrived[c])')
  BY <1>0, <1>1, StaysAccounted DEF TypeOK
<1>5. ASSUME NEW d \in Clients
      PROVE  /\ d # c => Without(d, pending'[c])
             /\ d = c => Below(c, pending'[c], arrived'[c])
  <2> DEFINE q == pending[c]
  <2>1. q \in Seq(Input) /\ Len(q) <= MaxPending
    BY DEF TypeOK
  <2>2. pending'[c] = IF i.client = c THEN Queued(q, i) ELSE q
    BY <1>1, <1>2 DEF TypeOK
  <2>3. Below(c, q, arrived[c]) /\ (d # c => Without(d, q))
    BY <1>0 DEF Accounted
  <2> HIDE DEF q
  <2>4. i.client = c => Below(c, Queued(q, i), arrived[c])
    BY <1>2, <2>1, <2>3, QueuedInputs
  <2>5. i.client = c /\ d # c => Without(d, Queued(q, i))
    BY <1>2, <2>1, <2>3, QueuedInputs
  <2>6. QED
    BY <1>1, <2>2, <2>3, <2>4, <2>5
<1>6. QED
  BY <1>3, <1>4, <1>5 DEF Accounted

LEMMA FlushAccounted ==
    ASSUME TypeOK, TypeOK', AllAccounted, NEW t \in Tasks, Flush(t)
    PROVE  AllAccounted'
<1> SUFFICES ASSUME NEW c \in Clients
             PROVE  Accounted(c)'
  BY DEF AllAccounted
<1>0. Accounted(c) /\ \A u \in Tasks : TaskAccounted(u, c)
  BY DEF AllAccounted, Accounted
<1> DEFINE i == job[t].input
           b == Append(pending[i.client], i)
           j == [at |-> "send", batch |-> b]
<1>1. /\ UNCHANGED <<channel, taken, applied, arrived, paths>> /\ job[t].at = "flush"
      /\ pending' = [pending EXCEPT ![i.client] = <<>>] /\ Then(t, j)
  BY DEF Flush, emulatorVars, At
<1>2. /\ i \in Input /\ i.client \in Clients
      /\ Holds(t, c) <=> i.client = c
      /\ i.client = c => i.no <= arrived[c]
  BY <1>0, <1>1, HeldInput
<1>3. j.at = "send" /\ j.batch = b
  OBVIOUS
<1> HIDE DEF i, j
<1>4. pending[i.client] \in Seq(Input) /\ b \in Seq(Input)
  BY <1>2, AppendProperties DEF TypeOK
<1>5. j \in Job
  BY <1>4, JobTypes DEF j
<1>6. ~Without(c, b) => i.client = c
  BY <1>2, <1>4, AppendInputs DEF AllAccounted, Accounted
<1>7. i.client = c => Below(c, b, arrived[c])
  BY <1>0, <1>2, <1>4, AppendInputs DEF Accounted
<1> HIDE DEF b
<1>8. \A u \in Tasks : TaskAccounted(u, c)'
  <2>1. j.at = "send" /\ ~Without(c, j.batch) => Holds(t, c) /\ Below(c, j.batch, arrived[c])
    BY <1>2, <1>3, <1>6, <1>7
  <2>2. QED
    BY <1>0, <1>1, <1>3, <1>5, <2>1, TaskMoves
<1>9. SentUpTo(c, arrived[c])' /\ (pending'[c] = pending[c] => Below(c, pending[c], arrived[c])')
  BY <1>0, <1>1, StaysAccounted DEF TypeOK
<1>10. pending'[c] = pending[c] \/ pending'[c] = <<>>
  BY <1>1, <1>2, EmptiedTypes
<1>11. \A d : Without(d, <<>>) /\ \A n : Below(d, <<>>, n)
  BY EmptyInputs
<1>12. QED
  BY <1>0, <1>1, <1>8, <1>9, <1>10, <1>11 DEF Accounted

LEMMA SendAccounted ==
    ASSUME TypeOK, TypeOK', AllAccounted, NEW t \in Tasks, Send(t)
    PROVE  AllAccounted'
<1> SUFFICES ASSUME NEW c \in Clients
             PROVE  Accounted(c)'
  BY DEF AllAccounted
<1>0. Accounted(c) /\ \A u \in Tasks : TaskAccounted(u, c)
  BY DEF AllAccounted, Accounted
<1> DEFINE b == job[t].batch
<1>1. /\ UNCHANGED <<pending, taken, applied, arrived, paths>> /\ job[t].at = "send"
      /\ channel' = channel \o b /\ Then(t, Idle)
  BY DEF Send, emulatorVars, At
<1>2. b \in Seq(Input)
  BY <1>1, JobShape DEF TypeOK
<1>3. Below(c, b, arrived[c])
  <2>1. CASE Without(c, b)
    BY <2>1 DEF Without, Below
  <2>2. CASE ~Without(c, b)
    BY <1>0, <1>1, <2>2 DEF Sends, TaskAccounted
  <2>3. QED
    BY <2>1, <2>2
<1> HIDE DEF b
<1>4. \A u \in Tasks : TaskAccounted(u, c)'
  <2>1. Idle \in Job /\ Idle.at = "idle"
    BY JobTypes DEF Idle
  <2>2. QED
    BY <1>0, <1>1, <2>1, TaskMoves
<1>5. Below(c, channel \o b, arrived[c])
  BY <1>0, <1>2, <1>3, ConcatInputs DEF Accounted, SentUpTo, TypeOK
<1>6. QED
  BY <1>0, <1>1, <1>4, <1>5 DEF Accounted, SentUpTo, TakenOf

(* Steps that touch none of this. *)
LEMMA QuietAccounted ==
    ASSUME AllAccounted, UNCHANGED <<pending, channel, taken, applied, arrived, paths, job>>
    PROVE  AllAccounted'
BY DEF AllAccounted, Accounted, SentUpTo, TakenOf, TaskAccounted, Holds, Sends

LEMMA RouterAccounted ==
    ASSUME TypeOK, TypeOK', AllAccounted, (\E d \in Clients : Terminate(d)) \/ Release
    PROVE  AllAccounted'
<1> SUFFICES ASSUME NEW c \in Clients
             PROVE  Accounted(c)'
  BY DEF AllAccounted
<1>0. Accounted(c) /\ \A u \in Tasks : TaskAccounted(u, c)
  BY DEF AllAccounted, Accounted
<1>1. UNCHANGED <<channel, taken, applied, arrived, paths>> /\ Router \in Tasks
  BY DEF Terminate, Release, emulatorVars, Tasks
<1>2. PICK j \in Job : Then(Router, j) /\ j.at \in {"idle", "release"}
  <2>1. \A d \in Clients : [at |-> "release", client |-> d] \in Job
    BY JobTypes
  <2>2. Idle \in Job /\ Idle.at = "idle"
    BY JobTypes DEF Idle
  <2>3. QED
    BY <2>1, <2>2 DEF Terminate, Release
<1>3. \A u \in Tasks : TaskAccounted(u, c)'
  BY <1>0, <1>1, <1>2, TaskMoves
<1>4. pending'[c] = pending[c] \/ pending'[c] = <<>>
  BY EmptiedTypes DEF Terminate, Release
<1>5. SentUpTo(c, arrived[c])' /\ (pending'[c] = pending[c] => Below(c, pending[c], arrived[c])')
  BY <1>0, <1>1, StaysAccounted DEF TypeOK
<1>6. \A d : Without(d, <<>>) /\ \A n : Below(d, <<>>, n)
  BY EmptyInputs
<1>7. QED
  BY <1>0, <1>1, <1>3, <1>4, <1>5, <1>6 DEF Accounted

LEMMA EmulatingAccounted ==
    ASSUME TypeOK, AllAccounted, Emulating
    PROVE  AllAccounted'
<1> SUFFICES ASSUME NEW c \in Clients
             PROVE  Accounted(c)'
  BY DEF AllAccounted
<1>0. Accounted(c) /\ \A u \in Tasks : TaskAccounted(u, c)
  BY DEF AllAccounted, Accounted
<1>1. UNCHANGED <<arrived, paths, job>>
  BY DEF Emulating, Take, Apply, Requeue
<1>2. \A u \in Tasks : TaskAccounted(u, c)'
  BY <1>0, <1>1 DEF TaskAccounted, Holds, Sends
<1>3. ASSUME Take
      PROVE  Accounted(c)'
  <2>1. /\ channel # <<>> /\ channel \in Seq(Input)
        /\ taken' = [input |-> Head(channel), port |-> PortOf(Head(channel).client)]
        /\ channel' = Tail(channel) /\ UNCHANGED <<applied, pending>>
    BY <1>3 DEF Take, TypeOK
  <2>2. /\ Below(c, Tail(channel), arrived[c])
        /\ Head(channel).client = c => Head(channel).no <= arrived[c]
    BY <1>0, <2>1, TailInputs DEF Accounted, SentUpTo
  <2>3. SentUpTo(c, arrived[c])'
    BY <1>0, <1>1, <2>1, <2>2 DEF Accounted, SentUpTo, TakenOf
  <2>4. QED
    BY <1>0, <1>1, <1>2, <2>1, <2>3 DEF Accounted
<1>4. ASSUME Apply
      PROVE  Accounted(c)'
  <2>1. /\ taken # None /\ taken' = None
        /\ applied' = [applied EXCEPT ![taken.input.client] = taken.input.no]
        /\ UNCHANGED <<channel, pending>>
    BY <1>4 DEF Apply
  <2>2. applied'[c] <= arrived[c]
    BY <1>0, <2>1 DEF Accounted, SentUpTo, TakenOf, TypeOK
  <2>3. SentUpTo(c, arrived[c])'
    BY <1>0, <1>1, <2>1, <2>2 DEF Accounted, SentUpTo, TakenOf
  <2>4. QED
    BY <1>0, <1>1, <1>2, <2>1, <2>3 DEF Accounted
<1>5. ASSUME Requeue
      PROVE  Accounted(c)'
  <2> DEFINE i == taken.input
             q == pending[c]
  <2>1. /\ taken # None /\ taken' = None /\ i \in Input /\ i.client \in Clients
        /\ pending' = [pending EXCEPT ![i.client] = Queued(@, i)]
        /\ UNCHANGED <<channel, applied>>
    BY <1>5, InputType DEF Requeue, TypeOK
  <2>2. i.client = c => i.no <= arrived[c]
    BY <1>0, <2>1 DEF Accounted, SentUpTo, TakenOf
  <2> HIDE DEF i
  <2>3. SentUpTo(c, arrived[c])'
    BY <1>0, <1>1, <2>1 DEF Accounted, SentUpTo, TakenOf
  <2>4. q \in Seq(Input) /\ Len(q) <= MaxPending
    BY DEF TypeOK
  <2>5. pending'[c] = IF i.client = c THEN Queued(q, i) ELSE q
    BY <2>1 DEF TypeOK
  <2> HIDE DEF q
  <2>6. Below(c, q, arrived[c]) /\ \A d \in Clients : d # c => Without(d, q)
    BY <1>0 DEF Accounted, q
  <2>7. i.client = c => Below(c, Queued(q, i), arrived[c])
    BY <2>1, <2>2, <2>4, <2>6, QueuedInputs
  <2>8. i.client = c => \A d \in Clients : d # c => Without(d, Queued(q, i))
    BY <2>1, <2>4, <2>6, QueuedInputs
  <2>9. Below(c, pending'[c], arrived[c]) /\ \A d \in Clients : d # c => Without(d, pending'[c])
    BY <2>5, <2>6, <2>7, <2>8
  <2>10. QED
    BY <1>1, <1>2, <2>3, <2>9 DEF Accounted
<1>6. QED
  BY <1>3, <1>4, <1>5 DEF Emulating

LEMMA AccountedStep ==
    ASSUME TypeOK, TypeOK', AllAccounted, [Next]_vars
    PROVE  AllAccounted'
<1>1. ASSUME NEW t \in Tasks, Working(t)
      PROVE  AllAccounted'
  BY <1>1, EnsureAccounted, QueueAccounted, FlushAccounted, SendAccounted DEF Working
<1>2. ASSUME (\E c \in Clients : JoinRoom(c)) \/ (\E v \in Viewers : Unregister(v)) \/ CoreFails
      PROVE  AllAccounted'
  BY <1>2, QuietAccounted DEF JoinRoom, Unregister, CoreFails, emulatorVars
<1>3. CASE UNCHANGED vars
  BY <1>3, QuietAccounted DEF vars
<1>4. QED
  BY <1>1, <1>2, <1>3, ReceiveAccounted, RouterAccounted, EmulatingAccounted DEF Next

LEMMA AccountedInit ==
    ASSUME Init
    PROVE  AllAccounted
BY EmptyInputs DEF Init, AllAccounted, Accounted, SentUpTo, TakenOf, TaskAccounted, Holds, Sends, Idle

-----------------------------------------------------------------------------
(* The order of a client's inputs. *)

(* Weaker than Steady: it may not have sent anything yet.                  *)
Clean(c) == c \notin lost /\ \A t, u \in paths[c] : t = u

(* Until a clean client gets a slot none of its inputs goes on; the        *)
(* applied, the looked-up and the sent ones come in this order.            *)
SentInOrder(c) ==
    /\ c \notin Players => NothingSent(c)
    /\ TakenOf(c) => /\ taken.port # None
                     /\ applied[c] <= taken.input.no
                     /\ Above(c, channel, taken.input.no)
    /\ Sorted(c, channel) /\ Above(c, channel, applied[c])

(* A task's input comes after everything sent and pending; it flushes the  *)
(* buffer only when nothing was sent before.                               *)
TaskOrdered(t, c) ==
    /\ Holds(t, c) => /\ SentUpTo(c, job[t].input.no)
                      /\ Below(c, pending[c], job[t].input.no)
                      /\ job[t].at = "flush" \/ (job[t].at = "join" /\ ~job[t].assigned)
                             => NothingSent(c)
                      /\ job[t].at = "flush" \/ (job[t].at = "join" /\ job[t].assigned)
                             => c \in Players
    /\ Sends(t, c) => /\ c \in Players /\ Sorted(c, job[t].batch)
                      /\ \A k \in 1..Len(job[t].batch) :
                            job[t].batch[k].client = c => SentUpTo(c, job[t].batch[k].no)

Ordered(c) ==
    /\ SentInOrder(c)
    /\ Sorted(c, pending[c])
    /\ \A t \in Tasks : TaskOrdered(t, c)

AllOrdered == \A c \in Clients : Clean(c) => Ordered(c)

(* Two tasks are never busy with the inputs of a clean client. *)
LEMMA OneBusyTask ==
    ASSUME NEW c \in Clients, Accounted(c), Clean(c), NEW t \in Tasks, NEW u \in Tasks,
           Holds(t, c) \/ Sends(t, c), Holds(u, c) \/ Sends(u, c)
    PROVE  t = u
BY DEF Accounted, TaskAccounted, Clean

(* Nothing makes a client clean again, and a clean one keeps its slot.     *)
LEMMA CleanBefore ==
    ASSUME TypeOK, [Next]_vars, NEW c \in Clients, Clean(c)'
    PROVE  Clean(c) /\ (c \in Players => c \in Players')
<1>1. lost \subseteq lost' /\ (c \in Players => c \in Players')
  <2>1. CASE UNCHANGED <<slots, lost>>
    BY <2>1 DEF Players
  <2>2. ASSUME NEW d \in Clients, ReleaseSlot(d)
        PROVE  lost \subseteq lost' /\ (c \in Players => c \in Players')
    BY <2>2, ReleaseSlotEffect DEF Clean
  <2>3. ASSUME NEW d \in Clients, Assign(d), UNCHANGED lost
        PROVE  lost \subseteq lost' /\ (c \in Players => c \in Players')
    BY <2>3, AssignEffect
  <2>4. ASSUME NEW t \in Tasks, Working(t)
        PROVE  lost \subseteq lost' /\ (c \in Players => c \in Players')
    <3>1. ASSUME Ensure(t)
          PROVE  lost \subseteq lost' /\ (c \in Players => c \in Players')
      <4>1. job[t].input \in Input
        BY <3>1, JobShape DEF TypeOK, Ensure, At
      <4>2. QED
        BY <2>3, <3>1, <4>1, InputType DEF Ensure
    <3>2. QED
      BY <2>1, <2>4, <3>1 DEF Working, Queue, Flush, Send
  <2>5. ASSUME NEW d \in Clients, JoinRoom(d) \/ Terminate(d)
        PROVE  lost \subseteq lost' /\ (c \in Players => c \in Players')
    BY <2>3, <2>5 DEF JoinRoom, Terminate, Players
  <2>6. ASSUME Release
        PROVE  lost \subseteq lost' /\ (c \in Players => c \in Players')
    <3>1. job[Router].client \in Clients
      BY <2>6, JobShape DEF TypeOK, Release, At, Tasks
    <3>2. QED
      BY <2>2, <2>6, <3>1 DEF Release
  <2>7. ASSUME NEW v \in Viewers, Unregister(v)
        PROVE  lost \subseteq lost' /\ (c \in Players => c \in Players')
    BY <2>2, <2>7 DEF Unregister, Clients
  <2>8. QED
    BY <2>1, <2>4, <2>5, <2>6, <2>7
       DEF Next, Receive, Emulating, Take, Apply, Requeue, CoreFails, vars
<1>2. paths[c] \subseteq paths'[c]
  BY DEF Next, Receive, Working, Ensure, Queue, Flush, Send, JoinRoom, Terminate, Release,
         Unregister, Emulating, Take, Apply, Requeue, CoreFails, vars, TypeOK
<1>3. QED
  BY <1>1, <1>2 DEF Clean

(* A task that does nothing stays in order. *)
LEMMA TaskStaysOrdered ==
    ASSUME NEW u \in Tasks, NEW c \in Clients, TaskOrdered(u, c),
           job'[u] = job[u],
           c \in Players => c \in Players',
           NothingSent(c) => NothingSent(c)',
           \A n : SentUpTo(c, n) => SentUpTo(c, n)',
           Holds(u, c) => pending'[c] = pending[c]
    PROVE  TaskOrdered(u, c)'
<1>1. (Holds(u, c)' <=> Holds(u, c)) /\ (Sends(u, c)' <=> Sends(u, c))
  BY DEF Holds, Sends
<1>2. ASSUME Holds(u, c)
      PROVE  /\ SentUpTo(c, job[u].input.no)'
             /\ Below(c, pending'[c], job'[u].input.no)
             /\ job'[u].at = "flush" \/ (job'[u].at = "join" /\ ~job'[u].assigned)
                    => NothingSent(c)'
             /\ job'[u].at = "flush" \/ (job'[u].at = "join" /\ job'[u].assigned)
                    => c \in Players'
  <2>1. SentUpTo(c, job[u].input.no)'
    <3> DEFINE n == job[u].input.no
    <3>1. SentUpTo(c, n) /\ job'[u].input.no = n
      BY <1>2 DEF TaskOrdered
    <3> HIDE DEF n
    <3>2. applied'[c] <= n /\ (TakenOf(c)' => taken'.input.no <= n) /\ Below(c, channel', n)
      BY <3>1 DEF SentUpTo
    <3>3. QED
      BY <3>1, <3>2 DEF SentUpTo
  <2>2. QED
    BY <1>2, <2>1 DEF TaskOrdered
<1>3. QED
  BY <1>1, <1>2 DEF TaskOrdered

(* Steps of the tasks that send nothing leave what was sent in order. *)
LEMMA SentStaysInOrder ==
    ASSUME NEW c \in Clients, SentInOrder(c), UNCHANGED <<channel, taken, applied>>,
           c \in Players => c \in Players'
    PROVE  /\ SentInOrder(c)'
           /\ NothingSent(c) <=> NothingSent(c)'
           /\ \A n : SentUpTo(c, n) <=> SentUpTo(c, n)'
<1>1. NothingSent(c) <=> NothingSent(c)'
  BY DEF NothingSent, TakenOf
<1>2. \A n : SentUpTo(c, n) <=> SentUpTo(c, n)'
  BY DEF SentUpTo, TakenOf
<1>3. SentInOrder(c)'
  BY <1>1 DEF SentInOrder, TakenOf
<1>4. QED
  BY <1>1, <1>2, <1>3

(* A step that neither sends nor touches c's buffer, by a task (or none)   *)
(* that does nothing for c before or after. *)
LEMMA OthersStayOrdered ==
    ASSUME NEW c \in Clients, Ordered(c), UNCHANGED <<channel, taken, applied>>,
           c \in Players => c \in Players',
           pending'[c] = pending[c],
           \A u \in Tasks : job'[u] = job[u] \/ (~Holds(u, c)' /\ ~Sends(u, c)')
    PROVE  Ordered(c)'
<1>1. SentInOrder(c)' /\ (NothingSent(c) <=> NothingSent(c)')
      /\ \A n : SentUpTo(c, n) <=> SentUpTo(c, n)'
  BY SentStaysInOrder DEF Ordered
<1>2. ASSUME NEW u \in Tasks
      PROVE  TaskOrdered(u, c)'
  <2>1. CASE job'[u] = job[u]
    BY <1>1, <2>1, TaskStaysOrdered DEF Ordered
  <2>2. CASE ~Holds(u, c)' /\ ~Sends(u, c)'
    BY <2>2 DEF TaskOrdered
  <2>3. QED
    BY <2>1, <2>2
<1>3. QED
  BY <1>1, <1>2 DEF Ordered

(* A step of the only task busy with c. *)
LEMMA OwnStepOrdered ==
    ASSUME TypeOK, NEW c \in Clients, Accounted(c), Clean(c), Ordered(c),
           NEW t \in Tasks, Holds(t, c) \/ Sends(t, c),
           NEW j \in Job, Then(t, j),
           SentInOrder(c)', Sorted(c, pending[c])', TaskOrdered(t, c)'
    PROVE  Ordered(c)'
<1>1. ASSUME NEW u \in Tasks
      PROVE  TaskOrdered(u, c)'
  <2>1. CASE u = t
    BY <2>1
  <2>2. CASE u # t
    <3>1. ~Holds(u, c) /\ ~Sends(u, c)
      BY <2>2, OneBusyTask
    <3>2. job'[u] = job[u]
      BY <2>2, ThenType
    <3>3. QED
      BY <3>1, <3>2 DEF TaskOrdered, Holds, Sends
  <2>3. QED
    BY <2>1, <2>2
<1>2. QED
  BY <1>1 DEF Ordered

LEMMA ReceiveOrdered ==
    ASSUME TypeOK, NEW c \in Clients, Accounted(c), Clean(c)', Ordered(c),
           NEW t \in Tasks, NEW d \in Clients, Receive(t, d)
    PROVE  Ordered(c)'
<1> DEFINE i == [client |-> d, no |-> arrived[d] + 1]
           j == [at |-> "join", input |-> i, assigned |-> d \in Players]
<1>1. /\ UNCHANGED <<slots, pending, channel, taken, applied>>
      /\ job' = [job EXCEPT ![t] = j]
      /\ job[t].at = "idle"
      /\ paths' = [paths EXCEPT ![d] = @ \cup {t}]
  BY DEF Receive, emulatorVars, At, Then
<1>2. i.client = d /\ i.no = arrived[d] + 1 /\ j.at = "join" /\ j.input = i
      /\ j.assigned = (d \in Players)
  OBVIOUS
<1> HIDE DEF i, j
<1>3. job'[t] = j /\ \A u \in Tasks : u # t => job'[u] = job[u]
  BY <1>1 DEF TypeOK
<1>4. Players' = Players
  BY <1>1 DEF Players
<1>5. CASE d # c
  <2>1. ~Holds(t, c)' /\ ~Sends(t, c)'
    BY <1>2, <1>3, <1>5 DEF Holds, Sends
  <2>2. QED
    BY <1>1, <1>3, <1>4, <2>1, OthersStayOrdered
<1>6. CASE d = c
  <2>1. /\ SentInOrder(c)'
        /\ NothingSent(c) <=> NothingSent(c)'
        /\ \A n : SentUpTo(c, n) <=> SentUpTo(c, n)'
    BY <1>1, <1>4, SentStaysInOrder DEF Ordered
  <2>2. arrived[c] \in Nat /\ arrived[c] <= i.no /\ i.no \in Nat
    BY <1>2, <1>6 DEF TypeOK
  <2>3. SentUpTo(c, i.no) /\ Below(c, pending[c], i.no)
    <3>1. Below(c, channel, i.no) /\ Below(c, pending[c], i.no)
      BY <2>2, BelowMore DEF Accounted, SentUpTo, TypeOK
    <3>2. applied[c] <= i.no
      BY <2>2 DEF Accounted, SentUpTo, TypeOK
    <3>3. TakenOf(c) => taken.input.no <= i.no
      <4>1. TakenOf(c) => taken.input \in Input /\ taken.input.no <= arrived[c]
        BY DEF Accounted, SentUpTo, TypeOK, TakenOf
      <4>2. QED
        BY <2>2, <4>1, InputType
    <3>4. QED
      BY <3>1, <3>2, <3>3 DEF SentUpTo
  <2>4. TaskOrdered(t, c)'
    <3>1. Holds(t, c)' /\ ~Sends(t, c)' /\ job'[t].input.no = i.no
      BY <1>2, <1>3, <1>6 DEF Holds, Sends
    <3>2. SentUpTo(c, job[t].input.no)'
      BY <2>1, <2>3, <3>1 DEF SentUpTo
    <3>3. Below(c, pending[c], job[t].input.no)'
      BY <1>1, <2>3, <3>1
    <3>4. ~job'[t].assigned => NothingSent(c)'
      BY <1>2, <1>3, <1>6, <2>1 DEF Ordered, SentInOrder
    <3>5. job'[t].assigned => c \in Players'
      BY <1>2, <1>3, <1>4, <1>6
    <3>6. QED
      BY <1>2, <1>3, <3>1, <3>2, <3>3, <3>4, <3>5 DEF TaskOrdered
  <2>5. ASSUME NEW u \in Tasks, u # t
        PROVE  TaskOrdered(u, c)'
    <3>1. t \in paths'[c]
      BY <1>1, <1>6 DEF TypeOK
    <3>2. paths[c] \subseteq paths'[c]
      BY <1>1 DEF TypeOK
    <3>3. ~Holds(u, c) /\ ~Sends(u, c)
      BY <2>5, <3>1, <3>2 DEF Clean, Accounted, TaskAccounted
    <3>4. QED
      BY <1>3, <2>5, <3>3 DEF TaskOrdered, Holds, Sends
  <2>6. QED
    BY <1>1, <2>1, <2>4, <2>5 DEF Ordered
<1>7. QED
  BY <1>5, <1>6

LEMMA EnsureOrdered ==
    ASSUME TypeOK, NEW c \in Clients, Accounted(c), Clean(c), Ordered(c),
           NEW t \in Tasks, Ensure(t), c \in Players => c \in Players'
    PROVE  Ordered(c)'
<1> DEFINE i == job[t].input
<1>1. UNCHANGED <<pending, channel, taken, applied>> /\ job[t].at = "join" /\ Assign(i.client)
  BY DEF Ensure, emulatorVars, At
<1>2. /\ i \in Input /\ i.client \in Clients
      /\ Holds(t, c) <=> i.client = c
  BY <1>1, HeldInput DEF Accounted
<1>3. /\ i.client \in Players \/ Free # {} => i.client \in Players'
  BY <1>1, <1>2, AssignEffect
<1>4. <<i>> \in Seq(Input) /\ <<i>>[1] = i /\ Len(<<i>>) = 1
  BY <1>2
<1>5. (Without(c, <<i>>) <=> i.client # c) /\ Sorted(c, <<i>>)
  BY OneInput
<1>6. PICK j \in Job :
         /\ Then(t, j)
         /\ \/ j = [at |-> "queue", input |-> i]
            \/ /\ j = [at |-> "send", batch |-> <<i>>] /\ job[t].assigned
               /\ i.client \in Players'
            \/ /\ j = [at |-> "flush", input |-> i] /\ ~job[t].assigned
               /\ i.client \in Players'
  <2>1. \/ Then(t, [at |-> "queue", input |-> i])
        \/ /\ Then(t, [at |-> "send", batch |-> <<i>>]) /\ job[t].assigned
           /\ i.client \in Players'
        \/ /\ Then(t, [at |-> "flush", input |-> i]) /\ ~job[t].assigned
           /\ i.client \in Players'
    <3> HIDE DEF i
    <3>1. job[t].assigned \in BOOLEAN
      BY <1>1, JobShape DEF TypeOK
    <3>2. CASE i.client \notin Players /\ Free = {}
      BY <3>2 DEF Ensure, i
    <3>3. CASE ~(i.client \notin Players /\ Free = {}) /\ job[t].assigned
      BY <1>3, <3>3 DEF Ensure, i
    <3>4. CASE ~(i.client \notin Players /\ Free = {}) /\ ~job[t].assigned
      BY <1>3, <3>4 DEF Ensure, i
    <3>5. QED
      BY <3>1, <3>2, <3>3, <3>4
  <2>2. QED
    BY <1>2, <1>4, <2>1, JobTypes
<1> HIDE DEF i
<1>7. job'[t] = j /\ \A u \in Tasks : u # t => job'[u] = job[u]
  BY <1>6, ThenType
<1>8. CASE i.client # c
  <2>1. ~Holds(t, c)' /\ ~Sends(t, c)'
    BY <1>5, <1>6, <1>7, <1>8 DEF Holds, Sends
  <2>2. QED
    BY <1>1, <1>7, <2>1, OthersStayOrdered
<1>9. CASE i.client = c
  <2>1. /\ SentInOrder(c)'
        /\ NothingSent(c) <=> NothingSent(c)'
        /\ \A n : SentUpTo(c, n) <=> SentUpTo(c, n)'
    BY <1>1, SentStaysInOrder DEF Ordered
  <2>2. /\ SentUpTo(c, i.no) /\ Below(c, pending[c], i.no)
        /\ ~job[t].assigned => NothingSent(c)
    BY <1>1, <1>2, <1>9 DEF Ordered, TaskOrdered, i
  <2>3. TaskOrdered(t, c)'
    <3>1. CASE j.at = "send"
      <4>1. job'[t].at = "send" /\ job'[t].batch = <<i>> /\ c \in Players'
        BY <1>6, <1>7, <1>9, <3>1
      <4>2. ~Holds(t, c)' /\ Sorted(c, job[t].batch)'
        BY <1>5, <4>1 DEF Holds
      <4>3. ASSUME NEW k \in 1..Len(job'[t].batch)
            PROVE  SentUpTo(c, job[t].batch[k].no)'
        <5>1. job'[t].batch[k] = i
          BY <1>4, <4>1, <4>3
        <5>2. QED
          BY <2>1, <2>2, <5>1 DEF SentUpTo
      <4>4. QED
        BY <4>1, <4>2, <4>3 DEF TaskOrdered
    <3>2. CASE j.at \in {"queue", "flush"}
      <4>1. j.input = i /\ (j.at = "flush" => ~job[t].assigned /\ c \in Players')
        BY <1>6, <1>9, <3>2
      <4>2. ~Sends(t, c)' /\ job'[t].input = i
        BY <1>7, <3>2, <4>1 DEF Sends
      <4>3. SentUpTo(c, job[t].input.no)' /\ Below(c, pending[c], job[t].input.no)'
        BY <1>1, <2>1, <2>2, <4>2 DEF SentUpTo
      <4>4. QED
        BY <1>7, <2>1, <2>2, <3>2, <4>1, <4>2, <4>3 DEF TaskOrdered
    <3>3. QED
      BY <1>6, <3>1, <3>2
  <2>4. QED
    BY <1>1, <1>2, <1>6, <1>9, <2>1, <2>3, OwnStepOrdered DEF Ordered
<1>10. QED
  BY <1>8, <1>9

LEMMA QueueOrdered ==
    ASSUME TypeOK, NEW c \in Clients, Accounted(c), Clean(c), Ordered(c),
           NEW t \in Tasks, Queue(t)
    PROVE  Ordered(c)'
<1> DEFINE i == job[t].input
           q == pending[c]
<1>1. /\ UNCHANGED <<slots, channel, taken, applied>> /\ job[t].at = "queue"
      /\ pending' = [pending EXCEPT ![i.client] = Queued(@, i)] /\ Then(t, Idle)
  BY DEF Queue, emulatorVars, At
<1>2. /\ i \in Input /\ i.client \in Clients
      /\ Holds(t, c) <=> i.client = c
  BY <1>1, HeldInput DEF Accounted
<1> HIDE DEF i
<1>3. Idle \in Job /\ job'[t] = Idle /\ \A u \in Tasks : u # t => job'[u] = job[u]
  BY <1>1, JobTypes, ThenType
<1>4. ~Holds(t, c)' /\ ~Sends(t, c)' /\ Players' = Players
  BY <1>1, <1>3 DEF Holds, Sends, Idle, Players
<1>5. pending'[c] = IF i.client = c THEN Queued(q, i) ELSE q
  BY <1>1, <1>2 DEF TypeOK
<1>6. q \in Seq(Input) /\ Len(q) <= MaxPending
  BY DEF TypeOK
<1> HIDE DEF q
<1>7. CASE i.client # c
  BY <1>1, <1>3, <1>4, <1>5, <1>7, OthersStayOrdered DEF q
<1>8. CASE i.client = c
  <2>1. Sorted(c, q) /\ Below(c, q, i.no)
    BY <1>2, <1>8 DEF Ordered, TaskOrdered, q, i
  <2>2. Sorted(c, Queued(q, i))
    BY <1>2, <1>6, <2>1, QueuedInputs
  <2>3. SentInOrder(c)'
    BY <1>1, <1>4, SentStaysInOrder DEF Ordered
  <2>4. TaskOrdered(t, c)'
    BY <1>4 DEF TaskOrdered
  <2>5. Sorted(c, pending[c])'
    BY <1>5, <1>8, <2>2
  <2>6. QED
    BY <1>1, <1>2, <1>3, <1>8, <2>3, <2>4, <2>5, OwnStepOrdered
<1>9. QED
  BY <1>7, <1>8

LEMMA FlushOrdered ==
    ASSUME TypeOK, AllAccounted, NEW c \in Clients, Clean(c), Ordered(c),
           NEW t \in Tasks, Flush(t)
    PROVE  Ordered(c)'
<1>0. Accounted(c)
  BY DEF AllAccounted
<1> DEFINE i == job[t].input
           s == pending[i.client]
           b == Append(s, i)
           j == [at |-> "send", batch |-> b]
<1>1. /\ UNCHANGED <<slots, channel, taken, applied>> /\ job[t].at = "flush"
      /\ pending' = [pending EXCEPT ![i.client] = <<>>] /\ Then(t, j)
  BY DEF Flush, emulatorVars, At
<1>2. /\ i \in Input /\ i.client \in Clients
      /\ Holds(t, c) <=> i.client = c
  BY <1>0, <1>1, HeldInput DEF Accounted
<1>3. j.at = "send" /\ j.batch = b
  OBVIOUS
<1> HIDE DEF i, j
<1>4. s \in Seq(Input) /\ b \in Seq(Input)
  BY <1>2, AppendProperties DEF TypeOK
<1>5. j \in Job
  BY <1>4, JobTypes DEF j
<1>6. job'[t] = j /\ (\A u \in Tasks : u # t => job'[u] = job[u]) /\ Players' = Players
  BY <1>1, <1>5, ThenType DEF Players
<1>7. pending'[c] = IF i.client = c THEN <<>> ELSE pending[c]
  BY <1>1, <1>2 DEF TypeOK
<1>8. CASE i.client # c
  <2>1. Without(c, b)
    BY <1>2, <1>4, <1>8, AppendInputs DEF AllAccounted, Accounted
  <2>2. ~Holds(t, c)' /\ ~Sends(t, c)'
    BY <1>3, <1>6, <2>1 DEF Holds, Sends
  <2>3. QED
    BY <1>1, <1>6, <1>7, <1>8, <2>2, OthersStayOrdered
<1>9. CASE i.client = c
  <2>1. /\ Sorted(c, s) /\ Below(c, s, i.no) /\ NothingSent(c) /\ c \in Players
    BY <1>1, <1>2, <1>9 DEF Ordered, TaskOrdered, i
  <2> HIDE DEF s
  <2>2. Sorted(c, b)
    BY <1>2, <1>4, <2>1, AppendInputs
  <2> HIDE DEF b
  <2>3. SentInOrder(c)' /\ NothingSent(c)'
    BY <1>1, <1>6, <2>1, SentStaysInOrder DEF Ordered
  <2>4. ~Holds(t, c)' /\ job'[t].batch = b
    BY <1>3, <1>6 DEF Holds
  <2>5. ASSUME NEW k \in 1..Len(b)
        PROVE  SentUpTo(c, job[t].batch[k].no)'
    <3>1. b[k] \in Input
      BY <1>4, <2>5, ElementOfSeq
    <3>2. b[k].no \in Nat
      BY <3>1, InputType
    <3>3. applied'[c] = 0 /\ ~TakenOf(c)' /\ Below(c, channel', b[k].no)
      BY <2>3 DEF NothingSent, Below, Without
    <3>4. QED
      BY <2>4, <3>2, <3>3 DEF SentUpTo
  <2>8. TaskOrdered(t, c)'
    BY <1>6, <2>1, <2>2, <2>4, <2>5 DEF TaskOrdered
  <2>6. Sorted(c, pending[c])'
    BY <1>7, <1>9, EmptyInputs
  <2>7. QED
    BY <1>0, <1>1, <1>2, <1>5, <1>9, <2>3, <2>6, <2>8, OwnStepOrdered
<1>10. QED
  BY <1>8, <1>9

(* Without inputs of c in a batch, its channel is to c what it was. *)
LEMMA SendOrdered ==
    ASSUME TypeOK, NEW c \in Clients, Accounted(c), Clean(c), Ordered(c),
           NEW t \in Tasks, Send(t)
    PROVE  Ordered(c)'
<1> DEFINE b == job[t].batch
           s == channel
<1>1. /\ UNCHANGED <<slots, pending, taken, applied>> /\ job[t].at = "send"
      /\ channel' = s \o b /\ Then(t, Idle)
  BY DEF Send, emulatorVars, At
<1>2. b \in Seq(Input) /\ s \in Seq(Input)
  BY <1>1, JobShape DEF TypeOK
<1>3. /\ Idle \in Job /\ job'[t] = Idle /\ \A u \in Tasks : u # t => job'[u] = job[u]
      /\ Players' = Players /\ (TakenOf(c)' <=> TakenOf(c))
  BY <1>1, JobTypes, ThenType DEF Players, TakenOf
<1>4. ~Holds(t, c)' /\ ~Sends(t, c)'
  BY <1>3 DEF Holds, Sends, Idle
<1>5. SentInOrder(c) /\ Sorted(c, pending[c]) /\ TaskOrdered(t, c)
  BY DEF Ordered
<1>6. Sorted(c, s) /\ Above(c, s, applied[c])
  BY <1>5 DEF SentInOrder
<1>7. Sends(t, c) <=> ~Without(c, b)
  BY <1>1 DEF Sends
<1>8. /\ \A n : Below(c, s \o b, n) <=> Below(c, s, n) /\ Below(c, b, n)
      /\ \A n : Above(c, s \o b, n) <=> Above(c, s, n) /\ Above(c, b, n)
      /\ Without(c, s \o b) <=> Without(c, s) /\ Without(c, b)
  <2> HIDE DEF s, b
  <2>1. QED
    BY <1>2, ConcatInputs
<1>9. /\ Sorted(c, s) /\ Sorted(c, b)
      /\ \A k \in 1..Len(b) : b[k].client = c => Below(c, s, b[k].no)
      => Sorted(c, s \o b)
  <2> HIDE DEF s, b
  <2>1. QED
    BY <1>2, ConcatInputs
<1>10. CASE ~Sends(t, c)
  <2> HIDE DEF b
  <2>1. Without(c, b)
    BY <1>7, <1>10
  <2>2. (\A n : Below(c, b, n) /\ Above(c, b, n)) /\ Sorted(c, b)
    BY <2>1 DEF Without, Below, Above, Sorted
  <2>3. \A k \in 1..Len(b) : b[k].client = c => Below(c, s, b[k].no)
    BY <2>1 DEF Without
  <2>4. Sorted(c, channel')
    BY <1>1, <1>6, <1>9, <2>2, <2>3
  <2>5. /\ \A n : Above(c, channel', n) <=> Above(c, channel, n)
        /\ \A n : Below(c, channel', n) <=> Below(c, channel, n)
        /\ Without(c, channel') <=> Without(c, channel)
    BY <1>1, <1>8, <2>1, <2>2
  <2>6. NothingSent(c) <=> NothingSent(c)'
    BY <1>1, <1>3, <2>5 DEF NothingSent
  <2>7. \A n : SentUpTo(c, n) => SentUpTo(c, n)'
    BY <1>1, <1>3, <2>5 DEF SentUpTo
  <2>8. SentInOrder(c)'
    BY <1>1, <1>3, <1>5, <2>4, <2>5, <2>6 DEF SentInOrder
  <2>9. ASSUME NEW u \in Tasks
        PROVE  TaskOrdered(u, c)'
    <3>1. CASE u # t
      BY <1>1, <1>3, <2>6, <2>7, <3>1, TaskStaysOrdered DEF Ordered
    <3>2. CASE u = t
      BY <1>4, <3>2 DEF TaskOrdered
    <3>3. QED
      BY <3>1, <3>2
  <2>10. QED
    BY <1>1, <1>5, <2>8, <2>9 DEF Ordered
<1>11. CASE Sends(t, c)
  <2>1. c \in Players /\ Sorted(c, b)
    BY <1>5, <1>11 DEF TaskOrdered
  <2>2. \A k \in 1..Len(b) : b[k].client = c =>
            /\ applied[c] <= b[k].no /\ Below(c, s, b[k].no)
            /\ TakenOf(c) => taken.input.no <= b[k].no
    BY <1>5, <1>11 DEF TaskOrdered, SentUpTo
  <2> HIDE DEF b, s
  <2>3. Sorted(c, s \o b)
    BY <1>6, <1>9, <2>1, <2>2 DEF s
  <2>4. \A k \in 1..Len(b) : b[k] \in Input /\ b[k].no \in Nat
    BY <1>2, ElementOfSeq, InputType
  <2>5. applied[c] \in Nat /\ (TakenOf(c) => taken.input.no \in Nat)
    BY InputType DEF TypeOK, TakenOf
  <2>6. Above(c, b, applied[c])
    BY <2>2, <2>4, <2>5 DEF Above
  <2>7. TakenOf(c) => Above(c, b, taken.input.no)
    BY <2>2, <2>4, <2>5 DEF Above
  <2>8. Above(c, channel', applied'[c])
    BY <1>1, <1>6, <1>8, <2>6
  <2>9. TakenOf(c)' => Above(c, channel', taken'.input.no)
    BY <1>1, <1>3, <1>5, <1>8, <2>7 DEF SentInOrder, s
  <2>10. SentInOrder(c)'
    BY <1>1, <1>3, <1>5, <2>1, <2>3, <2>8, <2>9 DEF SentInOrder
  <2>11. TaskOrdered(t, c)' /\ Sorted(c, pending[c])'
    BY <1>1, <1>4, <1>5 DEF TaskOrdered
  <2>12. QED
    BY <1>1, <1>3, <1>11, <2>10, <2>11, OwnStepOrdered
<1>12. QED
  BY <1>10, <1>11

(* Inputs are taken and applied from the front of what was sent. *)
LEMMA EmulatingOrdered ==
    ASSUME TypeOK, NEW c \in Clients, Ordered(c), Emulating
    PROVE  Ordered(c)' /\ applied'[c] >= applied[c]
<1>0. SentInOrder(c) /\ Sorted(c, pending[c]) /\ \A u \in Tasks : TaskOrdered(u, c)
  BY DEF Ordered
<1>1. UNCHANGED <<slots, job>> /\ Players' = Players
  BY DEF Emulating, Take, Apply, Requeue, Players
<1>2. applied[c] \in Nat
  BY DEF TypeOK
<1>3. ASSUME SentInOrder(c)', pending'[c] = pending[c], NothingSent(c) => NothingSent(c)',
             \A n : SentUpTo(c, n) => SentUpTo(c, n)'
      PROVE  Ordered(c)'
  <2>1. \A u \in Tasks : TaskOrdered(u, c)'
    BY <1>0, <1>1, <1>3, TaskStaysOrdered
  <2>2. QED
    BY <1>0, <1>3, <2>1 DEF Ordered
<1>4. ASSUME Take
      PROVE  Ordered(c)' /\ applied' = applied
  <2> DEFINE h == Head(channel)
             r == Tail(channel)
  <2>1. /\ taken = None /\ channel # <<>> /\ channel \in Seq(Input)
        /\ taken' = [input |-> h, port |-> PortOf(h.client)]
        /\ channel' = r /\ UNCHANGED <<applied, pending>>
    BY <1>4 DEF Take, TypeOK
  <2>2. /\ h \in Input /\ taken'.input = h /\ taken'.port = PortOf(h.client)
    BY <2>1, HeadTailProperties
  <2>3. /\ \A n : Below(c, channel, n) => Below(c, r, n) /\ (h.client = c => h.no <= n)
        /\ \A n : Above(c, channel, n) => Above(c, r, n) /\ (h.client = c => h.no >= n)
        /\ Without(c, channel) => Without(c, r) /\ h.client # c
        /\ Sorted(c, channel) => Sorted(c, r) /\ (h.client = c => Above(c, r, h.no))
    BY <2>1, TailInputs
  <2>4. ~TakenOf(c) /\ (TakenOf(c)' => h.client = c)
    BY <2>1, <2>2 DEF TakenOf
  <2> HIDE DEF h, r
  <2>5. NothingSent(c) => NothingSent(c)'
    BY <2>1, <2>3, <2>4 DEF NothingSent
  <2>6. \A n : SentUpTo(c, n) => SentUpTo(c, n)'
    BY <2>1, <2>2, <2>3, <2>4 DEF SentUpTo
  <2>7. h.client = c => taken'.port # None /\ applied[c] <= h.no
    <3>1. h.client = c => c \in Players
      BY <1>0, <2>3 DEF SentInOrder, NothingSent
    <3>2. h.client = c => PortOf(c) # None
      BY <3>1, PortOfPlayer
    <3>3. h.client = c => h.no >= applied[c] /\ h.no \in Nat
      BY <1>0, <2>2, <2>3, InputType DEF SentInOrder
    <3>4. QED
      BY <1>2, <2>2, <3>2, <3>3
  <2>8. SentInOrder(c)'
    BY <1>0, <1>1, <2>1, <2>2, <2>3, <2>4, <2>5, <2>7 DEF SentInOrder
  <2>9. QED
    BY <1>3, <2>1, <2>5, <2>6, <2>8
<1>5. ASSUME Apply
      PROVE  Ordered(c)' /\ applied'[c] >= applied[c]
  <2>1. /\ taken # None /\ taken' = None
        /\ applied' = [applied EXCEPT ![taken.input.client] = taken.input.no]
        /\ UNCHANGED <<channel, pending>>
    BY <1>5 DEF Apply
  <2>2. ~TakenOf(c)'
    BY <2>1 DEF TakenOf
  <2>3. applied'[c] = IF TakenOf(c) THEN taken.input.no ELSE applied[c]
    BY <2>1 DEF TakenOf, TypeOK
  <2>4. TakenOf(c) => applied[c] <= taken.input.no /\ Above(c, channel, taken.input.no)
                      /\ taken.input.no \in Nat
    BY <1>0, InputType DEF SentInOrder, TypeOK, TakenOf
  <2>5. NothingSent(c) => NothingSent(c)'
    BY <2>1, <2>2, <2>3 DEF NothingSent
  <2>6. \A n : SentUpTo(c, n) => SentUpTo(c, n)'
    BY <2>1, <2>2, <2>3 DEF SentUpTo
  <2>7. SentInOrder(c)'
    BY <1>0, <1>1, <2>1, <2>2, <2>3, <2>4, <2>5 DEF SentInOrder
  <2>8. applied'[c] >= applied[c]
    BY <1>2, <2>3, <2>4
  <2>9. QED
    BY <1>3, <2>1, <2>5, <2>6, <2>7, <2>8
<1>6. ASSUME Requeue
      PROVE  Ordered(c)' /\ applied' = applied
  <2>1. /\ taken # None /\ taken.port = None /\ taken' = None
        /\ taken.input \in Input /\ taken.input.client \in Clients
        /\ pending' = [pending EXCEPT ![taken.input.client] = Queued(@, taken.input)]
        /\ UNCHANGED <<channel, applied>>
    BY <1>6, InputType DEF Requeue, TypeOK
  <2>2. ~TakenOf(c) /\ ~TakenOf(c)'
    BY <1>0, <2>1 DEF SentInOrder, TakenOf
  <2>3. pending'[c] = pending[c]
    BY <2>1, <2>2 DEF TakenOf, TypeOK
  <2>4. (NothingSent(c) => NothingSent(c)') /\ \A n : SentUpTo(c, n) => SentUpTo(c, n)'
    BY <2>1, <2>2 DEF NothingSent, SentUpTo
  <2>5. SentInOrder(c)'
    BY <1>0, <1>1, <2>1, <2>2, <2>4 DEF SentInOrder
  <2>6. QED
    BY <1>3, <2>1, <2>3, <2>4, <2>5
<1>7. QED
  BY <1>2, <1>4, <1>5, <1>6 DEF Emulating

LEMMA OrderedStep ==
    ASSUME TypeOK, AllAccounted, AllOrdered, [Next]_vars, NEW c \in Clients, Clean(c)'
    PROVE  Ordered(c)' /\ applied'[c] >= applied[c]
<1>0. Clean(c) /\ Ordered(c) /\ Accounted(c) /\ (c \in Players => c \in Players')
      /\ applied[c] >= applied[c]
  BY CleanBefore DEF AllOrdered, AllAccounted, TypeOK
<1>1. ASSUME NEW t \in Tasks, NEW d \in Clients, Receive(t, d)
      PROVE  Ordered(c)' /\ applied' = applied
  BY <1>0, <1>1, ReceiveOrdered DEF Receive, emulatorVars
<1>2. ASSUME NEW t \in Tasks, Working(t)
      PROVE  Ordered(c)' /\ applied' = applied
  BY <1>0, <1>2, EnsureOrdered, QueueOrdered, FlushOrdered, SendOrdered
     DEF Working, Ensure, Queue, Flush, Send, emulatorVars
<1>3. CASE UNCHANGED <<pending, channel, job, taken, applied>>
  BY <1>0, <1>3, OthersStayOrdered
<1>4. ASSUME (\E d \in Clients : Terminate(d)) \/ Release
      PROVE  Ordered(c)' /\ applied' = applied
  <2>1. PICK j \in Job : Then(Router, j) /\ j.at \in {"idle", "release"}
    <3>1. /\ \A d \in Clients : [at |-> "release", client |-> d] \in Job
          /\ Idle \in Job /\ Idle.at = "idle"
      BY JobTypes DEF Idle
    <3>2. QED
      BY <1>4, <3>1 DEF Terminate, Release
  <2>2. job' = [job EXCEPT ![Router] = j] /\ Router \in Tasks
    BY <2>1 DEF Then, Tasks
  <2>3. \A u \in Tasks : job'[u] = job[u] \/ job'[u].at \in {"idle", "release"}
    BY <2>1, <2>2 DEF TypeOK
  <2>4. \A u \in Tasks : job'[u] = job[u] \/ (~Holds(u, c)' /\ ~Sends(u, c)')
    BY <2>3 DEF Holds, Sends
  <2>5. pending'[c] = pending[c]
    BY <1>4 DEF Clean, Terminate, Release, TypeOK
  <2>6. UNCHANGED <<channel, taken, applied>>
    BY <1>4 DEF Terminate, Release, emulatorVars
  <2>7. QED
    BY <1>0, <2>4, <2>5, <2>6, OthersStayOrdered
<1>5. CASE Emulating
  BY <1>0, <1>5, EmulatingOrdered
<1>6. QED
  BY <1>0, <1>1, <1>2, <1>3, <1>4, <1>5
     DEF Next, JoinRoom, Unregister, CoreFails, emulatorVars, vars

LEMMA OrderedInit ==
    ASSUME Init
    PROVE  AllOrdered
BY EmptyInputs DEF Init, AllOrdered, Ordered, SentInOrder, NothingSent, TakenOf, TaskOrdered,
                   Holds, Sends, Idle

(* The inputs of a client that kept its slot and came one way reach its    *)
(* pad in the order in which they arrived, however the tasks, the router   *)
(* and the emulator thread interleave (room.rs:484-519,                    *)
(* emulator_thread.rs:15-28).                                              *)
THEOREM InputsInOrder == Spec => InputsStayInOrder
<1> DEFINE Inv == TypeOK /\ AllAccounted /\ AllOrdered
<1>1. Init => Inv
  <2>1. Init => TypeOK
    BY BlankPad, JobTypes, CountAssumption DEF Init, TypeOK
  <2>2. QED
    BY <2>1, AccountedInit, OrderedInit
<1>2. ASSUME Inv, [Next]_vars
      PROVE  Inv'
  <2>1. TypeOK'
    BY <1>2, TypeOKStep
  <2>2. AllAccounted'
    BY <1>2, <2>1, AccountedStep
  <2>3. AllOrdered'
    BY <1>2, OrderedStep DEF AllOrdered
  <2>4. QED
    BY <2>1, <2>2, <2>3
<1>3. Inv /\ [Next]_vars => [\A c \in Clients : (Steady(c))' => applied'[c] >= applied[c]]_vars
  <2>1. \A c \in Clients : (Steady(c))' => Clean(c)'
    BY DEF Steady, Clean
  <2>2. QED
    BY <2>1, OrderedStep
<1>4. QED
  BY <1>1, <1>2, <1>3, PTL DEF Spec, InputsStayInOrder
=============================================================================
