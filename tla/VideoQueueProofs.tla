--------------------------- MODULE VideoQueueProofs ---------------------------
(***************************************************************************)
(* Proofs about VideoQueue, for any capacity: types, that no wake-up is    *)
(* lost (Awake), and the order of what a viewer is sent.  Whatever a full queue gives up, what is left is a    *)
(* part of what was there, in its order (Part); so numbers rise along the  *)
(* frames sent, held and queued, up to the number of frames pushed.        *)
(***************************************************************************)
EXTENDS VideoQueue, SequenceTheorems, TLAPS

Frames == Seq(Frame)

(* r is what is left of s when some of its frames are dropped.             *)
Part(r, s) ==
    /\ r \in Frames
    /\ \E f \in [1..Len(r) -> 1..Len(s)] :
          /\ \A i \in 1..Len(r) : r[i] = s[f[i]]
          /\ \A i, j \in 1..Len(r) : i < j => f[i] < f[j]

LEMMA TailIsPart ==
    ASSUME NEW s \in Frames, s # <<>>
    PROVE  Part(Tail(s), s) /\ Len(Tail(s)) = Len(s) - 1
<1> DEFINE r == Tail(s)
           f == [i \in 1..Len(r) |-> i + 1]
<1>1. /\ r \in Frames /\ Len(r) = Len(s) - 1 /\ Len(s) \in Nat \ {0}
      /\ \A i \in 1..Len(r) : r[i] = s[i + 1]
  BY HeadTailProperties, EmptySeq DEF Frames
<1> HIDE DEF r
<1>2. f \in [1..Len(r) -> 1..Len(s)]
  BY <1>1
<1>3. \A i, j \in 1..Len(r) : i < j => f[i] < f[j]
  BY <1>1
<1>4. \A i \in 1..Len(r) : r[i] = s[f[i]]
  BY <1>1
<1>5. QED
  BY <1>1, <1>2, <1>3, <1>4 DEF Part, r

LEMMA WholeIsPart ==
    ASSUME NEW s \in Frames
    PROVE  Part(s, s)
<1> DEFINE f == [i \in 1..Len(s) |-> i]
<1>1. Len(s) \in Nat
  BY DEF Frames
<1>2. f \in [1..Len(s) -> 1..Len(s)]
  OBVIOUS
<1>3. QED
  BY <1>1, <1>2 DEF Part

LEMMA NothingIsPart ==
    ASSUME NEW s \in Frames
    PROVE  Part(<<>>, s)
<1> DEFINE r == <<>>
           f == [i \in 1..Len(r) |-> i]
<1>1. r \in Frames /\ 1..Len(r) = {}
  BY DEF Frames
<1> HIDE DEF r
<1>2. f \in [1..Len(r) -> 1..Len(s)]
  BY <1>1
<1>3. \E g \in [1..Len(r) -> 1..Len(s)] :
          /\ \A i \in 1..Len(r) : r[i] = s[g[i]]
          /\ \A i, j \in 1..Len(r) : i < j => g[i] < g[j]
  BY <1>1, <1>2
<1>4. QED
  BY <1>1, <1>3 DEF Part, r

(* The second of several frames is dropped. *)
LEMMA RemovedIsPart ==
    ASSUME NEW s \in Frames, Len(s) >= 2
    PROVE  Part(RemoveAt(s, 2), s) /\ Len(RemoveAt(s, 2)) = Len(s) - 1
<1> DEFINE a == SubSeq(s, 1, 1)
           b == SubSeq(s, 3, Len(s))
           r == a \o b
           f == [i \in 1..Len(r) |-> IF i = 1 THEN 1 ELSE i + 1]
<1>0. /\ RemoveAt(s, 2) = r /\ Len(s) \in Nat
      /\ \A i \in 1..Len(s) : s[i] \in Frame
  BY ElementOfSeq DEF RemoveAt, Frames
<1>1. a \in Frames /\ Len(a) = 1 /\ a[1] = s[1]
  BY <1>0 DEF Frames
<1>2. /\ b \in Frames /\ Len(b) = Len(s) - 2
      /\ \A i \in 1..Len(b) : b[i] = s[i + 2]
  <2>1. \A i \in 3..Len(s) : s[i] \in Frame
    BY <1>0
  <2>2. /\ b \in Seq(Frame) /\ Len(b) = IF 3 <= Len(s) THEN Len(s) - 3 + 1 ELSE 0
        /\ \A i \in 1..(Len(s) - 3 + 1) : b[i] = s[3 + i - 1]
    BY <1>0, <2>1, SubSeqProperties
  <2> HIDE DEF b
  <2>3. Len(b) = Len(s) - 2
    <3> DEFINE n == Len(s)
               m == Len(b)
    <3>1. n \in Nat /\ n >= 2 /\ m = IF 3 <= n THEN n - 3 + 1 ELSE 0
      BY <1>0, <2>2
    <3> HIDE DEF n, m
    <3>2. m = n - 2
      BY <3>1
    <3>3. QED
      BY <3>2 DEF n, m
  <2>4. ASSUME NEW i \in 1..Len(b)
        PROVE  b[i] = s[i + 2]
    <3>1. i \in 1..(Len(s) - 3 + 1) /\ 3 + i - 1 = i + 2
      BY <1>0, <2>3
    <3>2. QED
      BY <2>2, <3>1
  <2>5. QED
    BY <2>2, <2>3, <2>4 DEF Frames
<1> HIDE DEF a, b
<1>3. /\ r \in Frames /\ Len(r) = Len(s) - 1
      /\ \A i \in 1..Len(r) : r[i] = IF i <= 1 THEN a[i] ELSE b[i - 1]
  <2>1. /\ r \in Seq(Frame) /\ Len(r) = Len(a) + Len(b)
        /\ \A i \in 1..(Len(a) + Len(b)) : r[i] = IF i <= Len(a) THEN a[i] ELSE b[i - Len(a)]
    BY <1>1, <1>2, ConcatProperties DEF Frames
  <2> HIDE DEF r
  <2>2. QED
    BY <1>0, <1>1, <1>2, <2>1 DEF Frames
<1> HIDE DEF r
<1>4. f \in [1..Len(r) -> 1..Len(s)]
  BY <1>0, <1>3
<1>5. \A i, j \in 1..Len(r) : i < j => f[i] < f[j]
  BY <1>0, <1>3
<1>6. \A i \in 1..Len(r) : r[i] = s[f[i]]
  BY <1>0, <1>1, <1>2, <1>3
<1>7. QED
  BY <1>0, <1>3, <1>4, <1>5, <1>6 DEF Part

(* Room is made for a frame that is not refused, and nothing is reordered  *)
(* (room.rs:157-180).                                                      *)
LEMMA MadeRoomIsPart ==
    ASSUME TypeOK, NEW frame \in Frame, ~Refused(frame)
    PROVE  Part(MadeRoom(frame), buffer) /\ Len(MadeRoom(frame)) < Capacity
<1>0. /\ buffer \in Frames /\ Len(buffer) \in Nat /\ Len(buffer) <= Capacity
      /\ Capacity \in Nat \ {0}
  BY CapacityAssumption DEF TypeOK, Frames
<1>1. CASE Len(buffer) < Capacity
  BY <1>0, <1>1, WholeIsPart DEF MadeRoom
<1>2. CASE Len(buffer) = Capacity /\ frame.key
  <2>1. MadeRoom(frame) = <<>>
    BY <1>0, <1>2 DEF MadeRoom
  <2>2. QED
    BY <1>0, <2>1, NothingIsPart
<1>3. CASE Len(buffer) = Capacity /\ ~frame.key /\ FrontIsKey
  <2>1. MadeRoom(frame) = RemoveAt(buffer, 2)
    BY <1>0, <1>3 DEF MadeRoom
  <2>2. Len(buffer) >= 2
    BY <1>0, <1>3 DEF Refused
  <2>3. QED
    BY <1>0, <1>3, <2>1, <2>2, RemovedIsPart
<1>4. CASE Len(buffer) = Capacity /\ ~frame.key /\ ~FrontIsKey
  <2>1. MadeRoom(frame) = Tail(buffer)
    BY <1>0, <1>4 DEF MadeRoom
  <2>2. buffer # <<>>
    BY <1>0, <1>4
  <2>3. QED
    BY <1>0, <1>4, <2>1, <2>2, TailIsPart
<1>5. QED
  BY <1>0, <1>1, <1>2, <1>3, <1>4

(* A frame goes in behind what is left.                                    *)
LEMMA EnqueueEffect ==
    ASSUME TypeOK, Enqueue
    PROVE  \/ UNCHANGED buffer
           \/ \E r \in Frames : /\ Part(r, buffer)
                                /\ buffer' = Append(r, incoming)
                                /\ buffer' \in Frames /\ Len(buffer') <= Capacity
                                /\ Len(buffer') = Len(r) + 1
                                /\ \A i \in 1..Len(r) : buffer'[i] = r[i]
                                /\ buffer'[Len(r) + 1] = incoming
<1>1. CASE Refused(incoming)
  BY <1>1 DEF Enqueue
<1>2. CASE ~Refused(incoming)
  <2> DEFINE r == MadeRoom(incoming)
  <2>1. incoming \in Frame
    BY DEF Enqueue, TypeOK
  <2>2. Part(r, buffer) /\ Len(r) < Capacity /\ r \in Frames
    BY <1>2, <2>1, MadeRoomIsPart DEF Part
  <2>3. buffer' = Append(r, incoming)
    BY <1>2 DEF Enqueue
  <2> HIDE DEF r
  <2>4. /\ buffer' \in Frames /\ Len(buffer') = Len(r) + 1 /\ Len(r) \in Nat
        /\ \A i \in 1..Len(r) : buffer'[i] = r[i]
        /\ buffer'[Len(r) + 1] = incoming
    BY <2>1, <2>2, <2>3, AppendProperties DEF Frames
  <2>5. QED
    BY <2>2, <2>3, <2>4, CapacityAssumption
<1>3. QED
  BY <1>1, <1>2

(* The task that writes holds a frame. *)
WriterHolds == sender = "write" <=> holding # None

LEMMA PopEffect ==
    ASSUME TypeOK, Pop, buffer # <<>>
    PROVE  /\ Head(buffer) \in Frame /\ Head(buffer) # None /\ Head(buffer) = buffer[1]
           /\ buffer' = Tail(buffer) /\ buffer' \in Seq(Frame) /\ Len(buffer') = Len(buffer) - 1
           /\ \A i \in 1..Len(buffer') : buffer'[i] = buffer[i + 1]
           /\ Len(buffer) \in Nat \ {0}
<1>1. Head(buffer) \in Frame /\ Tail(buffer) \in Seq(Frame) /\ Len(Tail(buffer)) = Len(buffer) - 1
      /\ \A i \in 1..Len(Tail(buffer)) : Tail(buffer)[i] = buffer[i + 1]
  BY HeadTailProperties DEF TypeOK
<1>2. Len(buffer) \in Nat \ {0} /\ buffer' = Tail(buffer)
  BY EmptySeq, LenProperties DEF TypeOK, Pop
<1>3. QED
  BY <1>1, <1>2, NoneAssumption DEF TypeOK

LEMMA TypeOKStep ==
    ASSUME TypeOK, WriterHolds, [Next]_vars
    PROVE  TypeOK' /\ WriterHolds'
<1> USE DEF WriterHolds
<1>1. ASSUME NEW key \in BOOLEAN, Offer(key)
      PROVE  TypeOK' /\ WriterHolds'
  <2>1. pushed + 1 \in 1..MaxFrames /\ pushed + 1 \in 0..MaxFrames
    BY <1>1, BoundAssumption DEF Offer, TypeOK
  <2>2. [no |-> pushed + 1, key |-> key] \in Frame
    BY <2>1 DEF Frame
  <2>3. QED
    BY <1>1, <2>1, <2>2 DEF Offer, TypeOK
<1>2. ASSUME Enqueue
      PROVE  TypeOK' /\ WriterHolds'
  <2>1. buffer' \in Seq(Frame) /\ Len(buffer') <= Capacity
    BY <1>2, EnqueueEffect DEF Frames, TypeOK
  <2>2. QED
    BY <1>2, <2>1 DEF Enqueue, TypeOK
<1>3. ASSUME Pop
      PROVE  TypeOK' /\ WriterHolds'
  <2>1. CASE buffer = <<>>
    BY <1>3, <2>1 DEF Pop, TypeOK
  <2>2. CASE buffer # <<>>
    <3>1. /\ Head(buffer) \in Frame /\ Head(buffer) # None
          /\ buffer' \in Seq(Frame) /\ Len(buffer') <= Capacity
      BY <1>3, <2>2, PopEffect, CapacityAssumption DEF TypeOK
    <3>2. QED
      BY <1>3, <2>2, <3>1 DEF Pop, TypeOK
  <2>3. QED
    BY <2>1, <2>2
<1>4. ASSUME WriteSample
      PROVE  TypeOK' /\ WriterHolds'
  <2>1. Append(sent, holding) \in Seq(Frame)
    BY <1>4, AppendProperties DEF WriteSample, TypeOK
  <2>2. QED
    BY <1>4, <2>1 DEF WriteSample, TypeOK
<1>5. ASSUME NotifyOne \/ CheckClosed \/ Enrol \/ WriteFails \/ StoreClosed \/ NotifyWaiters
      PROVE  TypeOK' /\ WriterHolds'
  BY <1>5 DEF NotifyOne, CheckClosed, Enrol, WriteFails, StoreClosed, NotifyWaiters, TypeOK
<1>6. CASE UNCHANGED vars
  BY <1>6 DEF vars, TypeOK
<1>7. QED
  BY <1>1, <1>2, <1>3, <1>4, <1>5, <1>6 DEF Next, FrameThread, SenderTask, Closer

LEMMA TypeOKInit == Init => TypeOK /\ WriterHolds
<1>1. <<>> \in Seq(Frame) /\ Len(<<>>) = 0 /\ 0 <= Capacity /\ 0 \in 0..MaxFrames
  BY CapacityAssumption, BoundAssumption
<1>2. QED
  BY <1>1 DEF Init, TypeOK, WriterHolds

(* The queue never exceeds its capacity, and the task writes only what it  *)
(* popped (room.rs:157-185, webrtc_session.rs:290-307).                    *)
THEOREM TypeCorrect == Spec => []TypeOK
<1>1. TypeOK /\ WriterHolds /\ [Next]_vars => TypeOK' /\ WriterHolds'
  BY TypeOKStep
<1>2. QED
  BY <1>1, TypeOKInit, PTL DEF Spec

-----------------------------------------------------------------------------
(* Wake-ups. *)

(* From the moment the task found the queue empty, what was queued since   *)
(* has a push that has yet to notify, or left a permit. When it has also   *)
(* found the queue open, a close() since then has yet to notify or missed  *)
(* the task, or there is a permit by which it will look again.             *)
Awake ==
    /\ sender \in {"check", "gap", "waiting"} /\ buffer # <<>> =>
           owesNotify \/ (permit /\ sender # "waiting")
    /\ sender \in {"gap", "waiting"} /\ closed =>
           closer = "stored" \/ missed \/ (permit /\ sender = "gap")

LEMMA AwakeStep ==
    ASSUME Awake, [Next]_vars
    PROVE  Awake'
<1>1. CASE FrameThread
  <2>1. CASE \E key \in BOOLEAN : Offer(key)
    BY <2>1 DEF Offer, Awake
  <2>2. CASE Enqueue
    BY <2>2 DEF Enqueue, Awake
  <2>3. CASE NotifyOne
    BY <2>3 DEF NotifyOne, Awake
  <2>4. QED
    BY <1>1, <2>1, <2>2, <2>3 DEF FrameThread
<1>2. CASE SenderTask
  <2>1. CASE Pop
    BY <2>1 DEF Pop, Awake
  <2>2. CASE CheckClosed
    BY <2>2 DEF CheckClosed, Awake
  <2>3. CASE Enrol
    BY <2>3 DEF Enrol, Awake
  <2>4. CASE WriteSample \/ WriteFails
    BY <2>4 DEF WriteSample, WriteFails, Awake
  <2>5. QED
    BY <1>2, <2>1, <2>2, <2>3, <2>4 DEF SenderTask
<1>3. CASE Closer
  <2>1. CASE StoreClosed
    BY <2>1 DEF StoreClosed, Awake
  <2>2. CASE NotifyWaiters
    BY <2>2 DEF NotifyWaiters, Awake
  <2>3. QED
    BY <1>3, <2>1, <2>2 DEF Closer
<1>4. CASE UNCHANGED vars
  BY <1>4 DEF vars, Awake
<1>5. QED
  BY <1>1, <1>2, <1>3, <1>4 DEF Next

(* While the task waits, a push is about to wake it for a queued frame and *)
(* a close() for a closed queue, unless it missed the task                 *)
(* (room.rs:137-140, 180-201).                                             *)
THEOREM WakeUpsAreKept == Spec => []NoLostWakeUp
<1>1. Init => Awake
  BY DEF Init, Awake
<1>2. Awake /\ [Next]_vars => Awake'
  BY AwakeStep
<1>3. Awake => NoLostWakeUp
  BY DEF Awake, NoLostWakeUp
<1>4. QED
  BY <1>1, <1>2, <1>3, PTL DEF Spec

-----------------------------------------------------------------------------
(* Order. *)

Rising(s) == \A i, j \in 1..Len(s) : i < j => s[i].no < s[j].no
Before(s, n) == \A i \in 1..Len(s) : s[i].no < n
Follows(s, n) == \A i \in 1..Len(s) : n < s[i].no

(* The number that no frame has reached which is past the door.            *)
Coming == IF incoming = None THEN pushed + 1 ELSE pushed

InOrder ==
    /\ incoming # None => incoming.no = pushed
    /\ Rising(sent) /\ Rising(buffer)
    /\ Before(sent, Coming) /\ Before(buffer, Coming)
    /\ \A i \in 1..Len(sent) : Follows(buffer, sent[i].no)
    /\ holding # None => /\ Before(sent, holding.no) /\ Follows(buffer, holding.no)
                         /\ holding.no < Coming

StartsWithKey ==
    /\ sent # <<>> => sent[1].key
    /\ sent = <<>> /\ holding # None => holding.key

(* What is left of an ordered queue is ordered, and in the same limits. *)
LEMMA PartsKeepOrder ==
    ASSUME NEW s \in Frames, NEW r \in Frames, Part(r, s)
    PROVE  /\ Rising(s) => Rising(r)
           /\ \A n : Before(s, n) => Before(r, n)
           /\ \A n : Follows(s, n) => Follows(r, n)
<1>1. PICK f \in [1..Len(r) -> 1..Len(s)] :
          /\ \A i \in 1..Len(r) : r[i] = s[f[i]]
          /\ \A i, j \in 1..Len(r) : i < j => f[i] < f[j]
  BY DEF Part
<1>2. \A i \in 1..Len(r) : f[i] \in 1..Len(s)
  OBVIOUS
<1>3. Rising(s) => Rising(r)
  BY <1>1, <1>2 DEF Rising
<1>4. ASSUME NEW n
      PROVE  (Before(s, n) => Before(r, n)) /\ (Follows(s, n) => Follows(r, n))
  BY <1>1, <1>2 DEF Before, Follows
<1>5. QED
  BY <1>3, <1>4

(* The numbers of frames are natural. *)
LEMMA Numbers ==
    ASSUME TypeOK
    PROVE  /\ pushed \in Nat /\ Coming \in Nat
           /\ Len(sent) \in Nat /\ Len(buffer) \in Nat
           /\ \A i \in 1..Len(sent) : sent[i] \in Frame /\ sent[i].no \in Nat
           /\ \A i \in 1..Len(buffer) : buffer[i] \in Frame /\ buffer[i].no \in Nat
           /\ holding # None => holding \in Frame /\ holding.no \in Nat
           /\ incoming # None => incoming \in Frame /\ incoming.no \in Nat
<1>1. \A f \in Frame : f.no \in Nat
  BY BoundAssumption DEF Frame
<1>2. QED
  BY <1>1, ElementOfSeq, BoundAssumption DEF TypeOK, Coming

LEMMA OfferInOrder ==
    ASSUME TypeOK, InOrder, NEW key \in BOOLEAN, Offer(key)
    PROVE  InOrder'
<1>1. UNCHANGED <<buffer, sent, holding>>
  BY DEF Offer
<1>2. Coming <= Coming' /\ Coming' \in Nat /\ (incoming' # None => incoming'.no = pushed')
  BY Numbers DEF Offer, Coming
<1>3. Before(sent, Coming)' /\ Before(buffer, Coming)' /\ (holding # None => holding.no < Coming')
  BY <1>1, <1>2, Numbers DEF InOrder, Before
<1>4. QED
  BY <1>1, <1>2, <1>3 DEF InOrder, Rising, Before, Follows

LEMMA EnqueueInOrder ==
    ASSUME TypeOK, InOrder, Enqueue
    PROVE  InOrder'
<1>1. /\ incoming # None /\ incoming' = None
      /\ UNCHANGED <<sent, holding, pushed>>
      /\ Coming = incoming.no /\ Coming' = Coming + 1 /\ Coming \in Nat
  BY Numbers DEF Enqueue, InOrder, Coming
<1>2. Before(sent, Coming)' /\ (holding # None => holding.no < Coming')
  BY <1>1, Numbers DEF InOrder, Before
<1>3. CASE UNCHANGED buffer
  <2>1. Before(buffer, Coming)'
    BY <1>1, <1>3, Numbers DEF InOrder, Before
  <2>2. QED
    BY <1>1, <1>2, <1>3, <2>1 DEF InOrder, Rising, Follows, Before
<1>4. CASE ~UNCHANGED buffer
  <2>1. PICK r \in Frames : /\ Part(r, buffer)
                            /\ Len(buffer') = Len(r) + 1
                            /\ \A i \in 1..Len(r) : buffer'[i] = r[i]
                            /\ buffer'[Len(r) + 1] = incoming
    BY <1>4, EnqueueEffect
  <2>2. Len(r) \in Nat /\ buffer \in Frames
    BY DEF Frames, TypeOK
  <2>3. /\ Rising(r) /\ Before(r, Coming)
        /\ \A i \in 1..Len(sent) : Follows(r, sent[i].no)
        /\ holding # None => Follows(r, holding.no)
    BY <2>1, <2>2, PartsKeepOrder DEF InOrder
  <2>4. \A i \in 1..Len(buffer') : (i \in 1..Len(r) /\ buffer'[i] = r[i])
                                  \/ (i = Len(r) + 1 /\ buffer'[i] = incoming)
    BY <2>1, <2>2
  <2>5. \A i \in 1..Len(r) : r[i].no \in Nat
    <3>1. \A i \in 1..Len(r) : r[i] \in Frame
      BY ElementOfSeq DEF Frames
    <3>2. QED
      BY <3>1, BoundAssumption DEF Frame
  <2>6. Rising(buffer')
    BY <1>1, <2>1, <2>2, <2>3, <2>4, <2>5 DEF Rising, Before
  <2>7. Before(buffer', Coming')
    BY <1>1, <2>3, <2>4, <2>5 DEF Before
  <2>8. ASSUME NEW n \in Nat, Follows(r, n), n < Coming
        PROVE  Follows(buffer', n)
    BY <1>1, <2>4, <2>8 DEF Follows
  <2>9. \A i \in 1..Len(sent) : Follows(buffer', sent[i].no)
    <3>1. ASSUME NEW i \in 1..Len(sent)
          PROVE  Follows(buffer', sent[i].no)
      <4>1. sent[i].no \in Nat /\ sent[i].no < Coming /\ Follows(r, sent[i].no)
        BY <2>3, Numbers DEF InOrder, Before
      <4>2. QED
        BY <2>8, <4>1
    <3>2. QED
      BY <3>1
  <2>10. holding # None => Follows(buffer', holding.no)
    BY <2>3, <2>8, Numbers DEF InOrder
  <2>11. QED
    BY <1>1, <1>2, <2>6, <2>7, <2>9, <2>10 DEF InOrder, Rising, Before
<1>5. QED
  BY <1>3, <1>4

LEMMA PopInOrder ==
    ASSUME TypeOK, WriterHolds, InOrder, StartsWithKey, Pop
    PROVE  InOrder' /\ StartsWithKey'
<1>1. UNCHANGED <<sent, incoming, pushed>> /\ Coming' = Coming
  BY DEF Pop, Coming
<1>2. CASE buffer = <<>>
  <2>1. UNCHANGED <<buffer, holding>>
    BY <1>2 DEF Pop
  <2>2. QED
    BY <1>1, <2>1 DEF InOrder, StartsWithKey, Rising, Before, Follows
<1>3. CASE buffer # <<>>
  <2>1. /\ Head(buffer) # None /\ Head(buffer) = buffer[1] /\ Len(buffer') = Len(buffer) - 1
        /\ \A i \in 1..Len(buffer') : buffer'[i] = buffer[i + 1] /\ i + 1 \in 1..Len(buffer) /\ 1 < i + 1
        /\ 1 \in 1..Len(buffer) /\ Len(buffer) \in Nat
    BY <1>3, PopEffect
  <2>2. /\ Rising(buffer') /\ Before(buffer', Coming)
        /\ \A n : Follows(buffer, n) => Follows(buffer', n)
        /\ Follows(buffer', buffer[1].no)
    <3>1. \A i, j \in 1..Len(buffer') : i < j => i + 1 < j + 1
      OBVIOUS
    <3>2. Rising(buffer')
      BY <2>1, <3>1 DEF InOrder, Rising
    <3>3. QED
      BY <2>1, <3>2 DEF InOrder, Rising, Before, Follows
  <2>3. buffer[1].no < Coming /\ Before(sent, buffer[1].no)
    BY <2>1 DEF InOrder, Before, Follows
  <2>4. holding = None
    BY DEF Pop, WriterHolds
  <2>5. InOrder'
    <3>1. CASE UNCHANGED holding
      BY <1>1, <2>2, <2>4, <3>1 DEF InOrder, Rising, Before
    <3>2. CASE holding' = Head(buffer)
      BY <1>1, <2>1, <2>2, <2>3, <3>2 DEF InOrder, Rising, Before
    <3>3. QED
      BY <1>3, <3>1, <3>2 DEF Pop
  <2>6. StartsWithKey'
    BY <1>1, <1>3, <2>4 DEF Pop, StartsWithKey
  <2>7. QED
    BY <2>5, <2>6
<1>4. QED
  BY <1>2, <1>3

LEMMA WriteInOrder ==
    ASSUME TypeOK, WriterHolds, InOrder, StartsWithKey, WriteSample
    PROVE  InOrder' /\ StartsWithKey'
<1>1. /\ holding # None /\ holding' = None /\ UNCHANGED <<buffer, incoming, pushed>>
      /\ Coming' = Coming
  BY DEF WriteSample, WriterHolds, Coming
<1>2. /\ Len(sent') = Len(sent) + 1 /\ Len(sent) \in Nat /\ sent' # <<>>
      /\ \A i \in 1..Len(sent) : sent'[i] = sent[i]
      /\ sent'[Len(sent) + 1] = holding
  BY <1>1, AppendProperties, Numbers DEF WriteSample, TypeOK
<1>3. \A i \in 1..Len(sent') : (i \in 1..Len(sent) /\ sent'[i] = sent[i])
                              \/ (i = Len(sent) + 1 /\ sent'[i] = holding)
  BY <1>2
<1>4. Rising(sent')
  BY <1>1, <1>2, <1>3, Numbers DEF InOrder, Rising, Before
<1>5. Before(sent', Coming) /\ \A i \in 1..Len(sent') : Follows(buffer, sent'[i].no)
  BY <1>1, <1>3 DEF InOrder, Before
<1>6. sent'[1].key
  <2>1. CASE sent = <<>>
    BY <1>1, <1>2, <2>1 DEF StartsWithKey
  <2>2. CASE sent # <<>>
    <3>1. 1 \in 1..Len(sent)
      BY <1>2, <2>2, EmptySeq DEF TypeOK
    <3>2. QED
      BY <1>2, <2>2, <3>1 DEF StartsWithKey
  <2>3. QED
    BY <2>1, <2>2
<1>7. QED
  BY <1>1, <1>2, <1>4, <1>5, <1>6 DEF InOrder, StartsWithKey, Rising, Before, Follows

LEMMA OrderStep ==
    ASSUME TypeOK, WriterHolds, InOrder, StartsWithKey, [Next]_vars
    PROVE  InOrder' /\ StartsWithKey'
<1>1. ASSUME FrameThread
      PROVE  InOrder' /\ StartsWithKey'
  <2>1. StartsWithKey'
    BY <1>1 DEF FrameThread, Offer, Enqueue, NotifyOne, StartsWithKey
  <2>2. NotifyOne => InOrder'
    BY DEF NotifyOne, InOrder, Rising, Before, Follows, Coming
  <2>3. QED
    BY <1>1, <2>1, <2>2, OfferInOrder, EnqueueInOrder DEF FrameThread
<1>2. ASSUME SenderTask
      PROVE  InOrder' /\ StartsWithKey'
  <2>1. CheckClosed \/ Enrol \/ WriteFails => InOrder' /\ StartsWithKey'
    BY DEF CheckClosed, Enrol, WriteFails, InOrder, StartsWithKey, Rising, Before, Follows, Coming
  <2>2. QED
    BY <1>2, <2>1, PopInOrder, WriteInOrder DEF SenderTask
<1>3. CASE Closer \/ UNCHANGED vars
  BY <1>3 DEF Closer, StoreClosed, NotifyWaiters, vars, InOrder, StartsWithKey,
              Rising, Before, Follows, Coming
<1>4. QED
  BY <1>1, <1>2, <1>3 DEF Next

(* Two ordered sequences, one before the other, make one. *)
LEMMA JoinedRising ==
    ASSUME NEW a \in Frames, NEW b \in Frames, Rising(a), Rising(b),
           \A i \in 1..Len(a) : Follows(b, a[i].no)
    PROVE  /\ a \o b \in Frames /\ Rising(a \o b)
           /\ \A n : Follows(a, n) /\ Follows(b, n) => Follows(a \o b, n)
<1> DEFINE s == a \o b
<1>1. /\ s \in Frames /\ Len(s) = Len(a) + Len(b) /\ Len(a) \in Nat /\ Len(b) \in Nat
      /\ \A i \in 1..Len(s) : s[i] = IF i <= Len(a) THEN a[i] ELSE b[i - Len(a)]
  BY ConcatProperties DEF Frames
<1> HIDE DEF s
<1>2. \A i \in 1..Len(s) : (i \in 1..Len(a) /\ s[i] = a[i])
                          \/ (i > Len(a) /\ i - Len(a) \in 1..Len(b) /\ s[i] = b[i - Len(a)])
  BY <1>1
<1>3. ASSUME NEW i \in 1..Len(s), NEW j \in 1..Len(s), i < j
      PROVE  s[i].no < s[j].no
  <2>1. CASE j \in 1..Len(a) /\ s[j] = a[j]
    BY <1>1, <1>3, <2>1 DEF Rising
  <2>2. CASE j - Len(a) \in 1..Len(b) /\ s[j] = b[j - Len(a)]
    <3>1. i - Len(a) \in 1..Len(b) => i - Len(a) < j - Len(a)
      BY <1>1, <1>3
    <3>2. QED
      BY <1>2, <2>2, <3>1 DEF Rising, Follows
  <2>3. QED
    BY <1>2, <2>1, <2>2
<1>4. \A n : Follows(a, n) /\ Follows(b, n) => Follows(s, n)
  BY <1>2 DEF Follows
<1>5. QED
  BY <1>1, <1>3, <1>4 DEF Rising, s

LEMMA OrderedStream ==
    ASSUME TypeOK, InOrder, StartsWithKey
    PROVE  StreamStartsAndAdvances
<1> DEFINE ahead == IF holding = None THEN buffer ELSE <<holding>> \o buffer
           stream == sent \o ahead
<1>1. sent \in Frames /\ buffer \in Frames
  BY DEF TypeOK, Frames
<1>2. /\ ahead \in Frames /\ Rising(ahead)
      /\ \A i \in 1..Len(sent) : Follows(ahead, sent[i].no)
  <2>1. CASE holding = None
    BY <1>1, <2>1 DEF InOrder
  <2>2. CASE holding # None
    <3> DEFINE h == <<holding>>
    <3>1. h \in Frames /\ Len(h) = 1 /\ h[1] = holding
      BY <2>2 DEF TypeOK, Frames
    <3>2. Rising(h) /\ \A i \in 1..Len(h) : Follows(buffer, h[i].no)
      BY <2>2, <3>1 DEF Rising, InOrder
    <3> HIDE DEF h
    <3>3. /\ h \o buffer \in Frames /\ Rising(h \o buffer)
          /\ \A n : Follows(h, n) /\ Follows(buffer, n) => Follows(h \o buffer, n)
      BY <1>1, <3>1, <3>2, JoinedRising DEF InOrder
    <3>4. ASSUME NEW i \in 1..Len(sent)
          PROVE  Follows(h \o buffer, sent[i].no)
      <4>1. Follows(h, sent[i].no) /\ Follows(buffer, sent[i].no)
        BY <2>2, <3>1 DEF InOrder, Before, Follows
      <4>2. QED
        BY <3>3, <4>1
    <3>5. ahead = h \o buffer
      BY <2>2 DEF h
    <3>6. QED
      BY <3>3, <3>4, <3>5
  <2>3. QED
    BY <2>1, <2>2
<1> HIDE DEF ahead
<1>3. stream \in Frames /\ Rising(stream)
  BY <1>1, <1>2, JoinedRising DEF InOrder
<1>4. \A i, j \in DOMAIN stream : i < j => stream[i].no < stream[j].no
  <2> HIDE DEF stream
  <2>1. DOMAIN stream = 1..Len(stream)
    BY <1>3 DEF Frames
  <2>2. QED
    BY <1>3, <2>1 DEF Rising
<1>5. sent # <<>> => sent[1].key
  BY DEF StartsWithKey
<1>6. QED
  BY <1>4, <1>5 DEF StreamStartsAndAdvances, ahead

(* What a viewer is sent begins with a keyframe and goes on in the order   *)
(* of pushing, whatever a full queue gave up (room.rs:157-180,             *)
(* webrtc_session.rs:290-297).                                             *)
THEOREM StreamsAdvance == Spec => []StreamStartsAndAdvances
<1> DEFINE Inv == TypeOK /\ WriterHolds /\ InOrder /\ StartsWithKey
<1>1. Init => Inv
  <2>1. Init => InOrder /\ StartsWithKey
    BY DEF Init, InOrder, StartsWithKey, Rising, Before, Follows
  <2>2. QED
    BY <2>1, TypeOKInit
<1>2. Inv /\ [Next]_vars => Inv'
  BY TypeOKStep, OrderStep
<1>3. Inv => StreamStartsAndAdvances
  BY OrderedStream
<1>4. QED
  BY <1>1, <1>2, <1>3, PTL DEF Spec
=============================================================================
