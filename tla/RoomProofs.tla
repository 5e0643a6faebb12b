----------------------------- MODULE RoomProofs -----------------------------
(***************************************************************************)
(* The room of a worker, for any number of viewers, phones, sessions and   *)
(* player slots: its counter counts its sessions, no client plays twice or *)
(* keeps a slot by accident, new viewers get their keyframe and removed    *)
(* sessions are closed, however teardowns overlap.                         *)
(*                                                                         *)
(* A session that was taken from the table but not yet counted down is a   *)
(* "discard" at the head of exactly one task, so the counter is the number *)
(* of sessions plus the number of such tasks.  What remains to be done for *)
(* a slot or a peer connection is the last step of a known task.           *)
(***************************************************************************)
EXTENDS Room, FiniteSetTheorems, WellFoundedInduction, TLAPS

(* The steps that can come after the first one in a task.                  *)
LaterStep == {x \in Step : x.op # "discard"}

DiscardsFirst ==
    \A t \in Tasks : todo[t] # <<>> => Tail(todo[t]) \in Seq(LaterStep)

Discarding == {t \in Tasks : NextIs(t, "discard")}

EndsWith(t, x) == todo[t] # <<>> /\ todo[t][Len(todo[t])] = x

(* What the types leave open of the tasks of a session.                    *)
Owned ==
    /\ \A c \in Clients : sessions[c] # None => owner[sessions[c]] = c
    /\ \A s \in Sessions : s \in sending => todo[VideoTask(s)] = <<>> /\ owner[s] # None
    /\ \A s \in Sessions : peer[s] # "new" => owner[s] # None
    /\ \A s \in Sessions : todo[VideoTask(s)] # <<>> => owner[s] # None

(* Only peers of sessions that were created are closed.                    *)
OwnedStep == {x \in Step : x.op = "closePeer" => owner[x.session] # None}

PeersOwned == \A t \in Tasks : todo[t] \in Seq(OwnedStep)

Counted ==
    /\ IsFiniteSet(Registered)
    /\ IsFiniteSet(Discarding)
    /\ sessionCount = Cardinality(Registered) + Cardinality(Discarding)

(* A slot is released by the message that ends its client's request before *)
(* anything else is done about it, but for inputs that come afterwards.    *)
Seated ==
    /\ \A i, j \in Slots : slots[i] # None /\ slots[i] = slots[j] => i = j
    /\ \A c \in Players :
            \/ c \in asked \cup late
            \/ todo[Router] # <<>> /\ Head(todo[Router]) = Release(c)

(* A session outlives its client's request no longer than the message that *)
(* ended it takes; a session that is not in the table has its queue closed, *)
(* or a task about to close it; its peer connection is closed in the end.  *)
Wound ==
    /\ \A c \in Clients :
            sessions[c] # None => c \in asked \/ EndsWith(Router, Remove(c, TRUE))
    /\ \A s \in Sessions : owner[s] # None =>
            \/ s \in Registered
            \/ s \in queueClosed
            \/ \E t \in Tasks : todo[t] # <<>> /\ Head(todo[t]) = Discard(s)
    /\ \A s \in Sessions : owner[s] # None =>
            \/ s \in sending
            \/ peer[s] \in {"closing", "closed"}
            \/ EndsWith(VideoTask(s), ClosePeer(s))

(* The inductive invariant.                                                *)
IInv ==
    /\ TypeOK
    /\ DiscardsFirst
    /\ Owned
    /\ PeersOwned
    /\ Counted
    /\ Seated
    /\ NewSessionsGetRefresh
    /\ Wound

-----------------------------------------------------------------------------
(* The tasks are distinct, and the constructors of steps build steps.      *)
LEMMA TasksDistinct ==
    /\ Router \in Tasks
    /\ \A s \in Sessions : VideoTask(s) \in Tasks /\ StateTask(s) \in Tasks
    /\ \A s \in Sessions : VideoTask(s) # Router /\ StateTask(s) # Router
    /\ \A r, s \in Sessions : VideoTask(r) # StateTask(s)
    /\ \A r, s \in Sessions : VideoTask(r) = VideoTask(s) => r = s
    /\ \A r, s \in Sessions : StateTask(r) = StateTask(s) => r = s
<1>1. \A r, s : <<"video", r>> # <<"state", s>>
  BY \A r, s : <<"video", r>>[1] # <<"state", s>>[1]
<1>2. \A r, s : <<"video", r>> = <<"video", s>> => r = s
  BY \A r : <<"video", r>>[2] = r
<1>3. \A r, s : <<"state", r>> = <<"state", s>> => r = s
  BY \A r : <<"state", r>>[2] = r
<1>4. \A s : <<"video", s>> # <<"router">> /\ <<"state", s>> # <<"router">>
  BY \A s : Len(<<"video", s>>) = 2 /\ Len(<<"state", s>>) = 2 /\ Len(<<"router">>) = 1
<1>5. QED
  BY <1>1, <1>2, <1>3, <1>4 DEF Tasks, Router, VideoTask, StateTask

LEMMA StepsBuilt ==
    /\ \A c \in Clients, b \in BOOLEAN : Remove(c, b) \in LaterStep
    /\ \A c \in Clients : Release(c) \in LaterStep
    /\ ReadCount \in LaterStep /\ NoteRegistered \in LaterStep
    /\ \A n \in 0..MaxPlayers : SendCount(n) \in LaterStep
    /\ \A s \in Sessions : ClosePeer(s) \in LaterStep
    /\ \A s \in Sessions : Discard(s) \in Step
    /\ LaterStep \subseteq Step
  BY DEF LaterStep, Step, Remove, Release, ReadCount, NoteRegistered, SendCount,
     ClosePeer, Discard

LEMMA StepFields ==
    ASSUME NEW x \in Step
    PROVE  /\ x.op = "remove" => x.client \in Clients /\ x.closes \in BOOLEAN
                                 /\ x = Remove(x.client, x.closes)
           /\ x.op = "discard" => x.session \in Sessions /\ x = Discard(x.session)
           /\ x.op = "closePeer" => x.session \in Sessions /\ x = ClosePeer(x.session)
           /\ x.op = "release" => x.client \in Clients /\ x = Release(x.client)
           /\ x.op = "sendCount" => x.count \in 0..MaxPlayers
           /\ x.op = "noteRegistered" => x = NoteRegistered
           /\ x.op = "readCount" => x = ReadCount
  BY DEF Step, Remove, Release, ReadCount, NoteRegistered, SendCount, ClosePeer, Discard

(* Two steps in a row of one task: how the end of a sequence moves.        *)
LEMMA Prepended ==
    ASSUME NEW S, NEW T, NEW q, NEW steps, NEW r,
           T \subseteq S,
           q \in Seq(S), q # <<>>, Tail(q) \in Seq(T),
           steps \in Seq(S), steps # <<>> => Tail(steps) \in Seq(T),
           r = steps \o Tail(q)
    PROVE  /\ r \in Seq(S)
           /\ r # <<>> => Tail(r) \in Seq(T)
           /\ steps = <<>> => r = Tail(q)
           /\ steps # <<>> => r # <<>> /\ Head(r) = Head(steps)
           /\ Tail(q) # <<>> => r # <<>> /\ r[Len(r)] = q[Len(q)]
           /\ r # <<>> => Head(r) \in S
           /\ steps = <<>> /\ r # <<>> => Head(r) \in T
<1>1. Tail(q) \in Seq(S) /\ Len(Tail(q)) = Len(q) - 1 /\ Len(q) >= 1
  OBVIOUS
<1>2. r \in Seq(S) /\ Len(r) = Len(steps) + Len(q) - 1
  BY <1>1
<1>3. steps = <<>> => r = Tail(q)
  BY <1>1
<1>4. steps # <<>> => r # <<>> /\ Head(r) = Head(steps)
  BY <1>1, <1>2
<1>5. ASSUME Tail(q) # <<>>
      PROVE  r # <<>> /\ r[Len(r)] = q[Len(q)]
  <2>1. Len(q) >= 2
    BY <1>1, <1>5
  <2>2. Len(r) > Len(steps) /\ Len(r) - Len(steps) = Len(q) - 1
    BY <1>2, <2>1
  <2>3. r[Len(r)] = Tail(q)[Len(q) - 1]
    BY <1>1, <1>2, <2>1, <2>2
  <2>4. Tail(q)[Len(q) - 1] = q[Len(q)]
    BY <1>1, <2>1
  <2>5. r # <<>>
    BY <1>2, <2>1
  <2>6. QED
    BY <2>3, <2>4, <2>5
<1>6. r # <<>> => Head(r) \in S
  BY <1>2
<1>7. steps = <<>> /\ r # <<>> => Head(r) \in T
  BY <1>3
<1>8. ASSUME r # <<>>
      PROVE  Tail(r) \in Seq(T)
  <2>1. CASE steps = <<>>
    BY <1>3, <1>8, <2>1
  <2>2. CASE steps # <<>>
    <3>1. Tail(steps) \in Seq(T) /\ Len(steps) >= 1
      BY <2>2
    <3>2. Tail(steps) \o Tail(q) \in Seq(T)
      BY <3>1
    <3>3. Tail(r) = Tail(steps) \o Tail(q)
      BY <1>1, <1>2, <3>1
    <3>4. QED
      BY <3>2, <3>3
  <2>3. QED
    BY <2>1, <2>2
<1>9. QED
  BY <1>2, <1>3, <1>4, <1>5, <1>6, <1>7, <1>8

LEMMA LastOfOne ==
    ASSUME NEW S, NEW q \in Seq(S), q # <<>>, Tail(q) = <<>>
    PROVE  q[Len(q)] = Head(q)
<1>1. Len(Tail(q)) = Len(q) - 1 /\ Len(Tail(q)) = 0 /\ Len(q) \in Nat
  OBVIOUS
<1>2. Len(q) = 1
  BY <1>1
<1>3. QED
  BY <1>2

(* A task that goes on: it forgets its first step and may do others first. *)
LEMMA Continues ==
    ASSUME todo \in [Tasks -> Seq(Step)], DiscardsFirst,
           NEW t \in Tasks, todo[t] # <<>>,
           NEW steps \in Seq(Step), steps # <<>> => Tail(steps) \in Seq(LaterStep),
           Continue(t, steps)
    PROVE  /\ todo' \in [Tasks -> Seq(Step)] /\ DiscardsFirst'
           /\ \A u \in Tasks \ {t} : todo'[u] = todo[u]
           /\ steps = <<>> => ~NextIs(t, "discard")'
           /\ steps # <<>> => todo'[t] # <<>> /\ Head(todo'[t]) = Head(steps)
           /\ \A x : EndsWith(t, x) /\ Head(todo[t]) # x => EndsWith(t, x)'
           /\ \A x : EndsWith(t, x) => Tail(todo[t]) = <<>> \/ EndsWith(t, x)'
<1>1. todo'[t] = steps \o Tail(todo[t])
  BY DEF Continue
<1>2. \A u \in Tasks \ {t} : todo'[u] = todo[u]
  BY DEF Continue
<1> DEFINE S == Step
           T == LaterStep
           q == todo[t]
           r == todo'[t]
<1>3. /\ T \subseteq S /\ q \in Seq(S) /\ q # <<>> /\ Tail(q) \in Seq(T)
      /\ steps \in Seq(S) /\ (steps # <<>> => Tail(steps) \in Seq(T))
      /\ r = steps \o Tail(q)
  BY <1>1 DEF DiscardsFirst, LaterStep
<1>a. T' = T /\ S' = S
  BY DEF LaterStep, Step
<1> HIDE DEF S, T, q, r
<1>4. /\ r \in Seq(S)
      /\ r # <<>> => Tail(r) \in Seq(T)
      /\ steps = <<>> => r = Tail(q)
      /\ steps # <<>> => r # <<>> /\ Head(r) = Head(steps)
      /\ Tail(q) # <<>> => r # <<>> /\ r[Len(r)] = q[Len(q)]
      /\ r # <<>> => Head(r) \in S
      /\ steps = <<>> /\ r # <<>> => Head(r) \in T
  <2>1. r \in Seq(S)
    BY <1>3, Prepended
  <2>2. r # <<>> => Tail(r) \in Seq(T)
    BY <1>3, Prepended
  <2>3. steps = <<>> => r = Tail(q)
    BY <1>3, Prepended
  <2>4. steps # <<>> => r # <<>> /\ Head(r) = Head(steps)
    BY <1>3, Prepended
  <2>5. Tail(q) # <<>> => r # <<>> /\ r[Len(r)] = q[Len(q)]
    BY <1>3, Prepended
  <2>6. r # <<>> => Head(r) \in S
    BY <1>3, Prepended
  <2>7. steps = <<>> /\ r # <<>> => Head(r) \in T
    BY <1>3, Prepended
  <2>8. QED
    BY <2>1, <2>2, <2>3, <2>4, <2>5, <2>6, <2>7
<1>b. Tail(q) = <<>> => q[Len(q)] = Head(q)
  BY <1>3, LastOfOne
<1>5. todo' \in [Tasks -> Seq(Step)]
  BY <1>4 DEF Continue, S, r
<1>6. DiscardsFirst'
  BY <1>2, <1>4, <1>a DEF DiscardsFirst, T, r
<1>7. steps = <<>> => ~NextIs(t, "discard")'
  BY <1>4 DEF NextIs, LaterStep, T, r
<1>8. steps # <<>> => todo'[t] # <<>> /\ Head(todo'[t]) = Head(steps)
  BY <1>4 DEF r
<1>9. \A x : EndsWith(t, x) /\ Head(todo[t]) # x => EndsWith(t, x)'
  BY <1>4, <1>b DEF EndsWith, q, r
<1>10. \A x : EndsWith(t, x) => Tail(todo[t]) = <<>> \/ EndsWith(t, x)'
  BY <1>4 DEF EndsWith, q, r
<1>11. QED
  BY <1>2, <1>5, <1>6, <1>7, <1>8, <1>9, <1>10

-----------------------------------------------------------------------------
(* Player slots (room.rs:358-440). *)
LEMMA FirstIsIn ==
    ASSUME NEW I \in SUBSET Slots, I # {}
    PROVE  First(I) \in I
<1> DEFINE R == OpToRel(<, Nat)
<1>1. IsWellFoundedOn(R, Nat)
  BY NatLessThanWellFounded
<1>2. \A q, p \in Nat : <<q, p>> \in R <=> q < p
  BY DEF OpToRel
<1>3. I \subseteq Nat
  BY PlayersAssumption DEF Slots
<1> HIDE DEF R
<1>4. PICK i \in I : \A j \in I : ~(<<j, i>> \in R)
  BY <1>1, <1>3, WFMin
<1>5. ASSUME NEW j \in I
      PROVE  i <= j
  <2>1. ~(j < i)
    BY <1>2, <1>3, <1>4
  <2>2. QED
    BY <1>3, <2>1
<1>6. QED
  BY <1>5 DEF First

LEMMA CountBounds ==
    ASSUME TypeOK
    PROVE  /\ Count \in 0..MaxPlayers
           /\ FreeSlots # {} => Count + 1 \in 0..MaxPlayers
<1> DEFINE Taken == {i \in Slots : slots[i] # None}
<1>1. IsFiniteSet(Slots) /\ Cardinality(Slots) = MaxPlayers
  BY FS_Interval, PlayersAssumption DEF Slots
<1>2. /\ IsFiniteSet(Taken) /\ Cardinality(Taken) <= MaxPlayers
      /\ Cardinality(Taken) = MaxPlayers => Taken = Slots
  BY <1>1, FS_Subset
<1>3. Cardinality(Taken) \in Nat
  BY <1>2, FS_CardinalityType
<1>4. Count = Cardinality(Taken)
  BY DEF Count
<1>5. FreeSlots # {} => Taken # Slots
  BY DEF FreeSlots
<1> HIDE DEF Taken
<1>6. QED
  BY <1>2, <1>3, <1>4, <1>5, PlayersAssumption

(* An assignment seats one more client, or none (room.rs:351-380).         *)
LEMMA AssignSeatsOne ==
    ASSUME TypeOK, NEW c \in Clients, Assign(c),
           \A i, j \in Slots : slots[i] # None /\ slots[i] = slots[j] => i = j
    PROVE  /\ slots' \in [Slots -> Clients \cup {None}]
           /\ reported' \in 0..MaxPlayers
           /\ \A i, j \in Slots : slots'[i] # None /\ slots'[i] = slots'[j] => i = j
           /\ \A d \in Players' : d \in Players \/ d = c
<1>1. CASE c \in Players
  BY <1>1 DEF Assign, TypeOK, Players
<1>2. CASE c \notin Players /\ FreeSlots = {}
  BY <1>2, CountBounds DEF Assign, TypeOK, Players
<1>3. CASE c \notin Players /\ FreeSlots # {}
  <2>1. FirstFree \in Slots
    BY <1>3, FirstIsIn DEF FirstFree, FreeSlots
  <2>2. slots' = [slots EXCEPT ![FirstFree] = c] /\ reported' = Count + 1
    BY <1>3 DEF Assign
  <2>3. \A i \in Slots : slots[i] # c
    BY <1>3, NoneAssumption DEF Players
  <2>4. QED
    BY <1>3, <2>1, <2>2, <2>3, CountBounds DEF TypeOK, Players
<1>4. QED
  BY <1>1, <1>2, <1>3

-----------------------------------------------------------------------------
(* What a task that goes on leaves as it is: everything but the step it    *)
(* had at its head.                                                        *)
LEMMA ProceedFrame ==
    ASSUME IInv, NEW t \in Tasks, todo[t] # <<>>,
           NEW steps \in Seq(Step), steps # <<>> => Tail(steps) \in Seq(LaterStep),
           Continue(t, steps)
    PROVE  /\ todo' \in [Tasks -> Seq(Step)] /\ DiscardsFirst'
           /\ \A s \in Sessions : /\ s \in sending => todo'[VideoTask(s)] = <<>>
                                  /\ todo'[VideoTask(s)] # <<>> => todo[VideoTask(s)] # <<>>
           /\ \A x : todo[Router] # <<>> /\ Head(todo[Router]) = x /\ Head(todo[t]) # x =>
                        todo'[Router] # <<>> /\ Head(todo'[Router]) = x
           /\ \A x : todo[Router] = <<x>> /\ Head(todo[t]) # x => todo'[Router] = <<x>>
           /\ \A u \in Tasks : \A x : EndsWith(u, x) /\ Head(todo[t]) # x => EndsWith(u, x)'
           /\ \A x : (\E u \in Tasks : todo[u] # <<>> /\ Head(todo[u]) = x) /\ Head(todo[t]) # x =>
                        \E u \in Tasks : todo'[u] # <<>> /\ Head(todo'[u]) = x
           /\ steps = <<>> \/ Head(steps).op # "discard" => Discarding' = Discarding \ {t}
           /\ steps # <<>> /\ Head(steps).op = "discard" => Discarding' = Discarding \cup {t}
<1>0. /\ todo \in [Tasks -> Seq(Step)] /\ DiscardsFirst /\ Owned
      /\ Router \in Tasks /\ \A s \in Sessions : VideoTask(s) \in Tasks
  BY TasksDistinct DEF IInv, TypeOK
<1>1. /\ todo' \in [Tasks -> Seq(Step)] /\ DiscardsFirst'
      /\ \A u \in Tasks \ {t} : todo'[u] = todo[u]
      /\ steps = <<>> => ~NextIs(t, "discard")'
      /\ steps # <<>> => todo'[t] # <<>> /\ Head(todo'[t]) = Head(steps)
      /\ \A x : EndsWith(t, x) /\ Head(todo[t]) # x => EndsWith(t, x)'
  BY <1>0, Continues
<1>2. \A s \in Sessions : /\ s \in sending => todo'[VideoTask(s)] = <<>>
                          /\ todo'[VideoTask(s)] # <<>> => todo[VideoTask(s)] # <<>>
  BY <1>0, <1>1 DEF Owned
<1>3. /\ \A x : todo[Router] # <<>> /\ Head(todo[Router]) = x /\ Head(todo[t]) # x =>
                        todo'[Router] # <<>> /\ Head(todo'[Router]) = x
      /\ \A x : todo[Router] = <<x>> /\ Head(todo[t]) # x => todo'[Router] = <<x>>
  BY <1>0, <1>1
<1>4. \A u \in Tasks : \A x : EndsWith(u, x) /\ Head(todo[t]) # x => EndsWith(u, x)'
  BY <1>1 DEF EndsWith
<1>5. \A x : (\E u \in Tasks : todo[u] # <<>> /\ Head(todo[u]) = x) /\ Head(todo[t]) # x =>
                \E u \in Tasks : todo'[u] # <<>> /\ Head(todo'[u]) = x
  BY <1>1
<1>6. \A u \in Tasks \ {t} : NextIs(u, "discard")' <=> NextIs(u, "discard")
  BY <1>1 DEF NextIs
<1>7. steps = <<>> \/ Head(steps).op # "discard" => ~NextIs(t, "discard")'
  BY <1>1 DEF NextIs
<1>8. steps # <<>> /\ Head(steps).op = "discard" => NextIs(t, "discard")'
  BY <1>1 DEF NextIs
<1>9. Discarding' = {u \in Tasks : NextIs(u, "discard")'}
  BY DEF Discarding, Tasks, VideoTask, StateTask, Router
<1>10. QED
  BY <1>1, <1>2, <1>3, <1>4, <1>5, <1>6, <1>7, <1>8, <1>9 DEF Discarding

LEMMA PeersOwnedKept ==
    ASSUME PeersOwned, NEW t \in Tasks, todo[t] # <<>>, owner' = owner,
           NEW steps \in Seq(OwnedStep), Continue(t, steps)
    PROVE  PeersOwned'
<1> DEFINE S == OwnedStep
<1>1. /\ todo[t] \in Seq(S) /\ steps \in Seq(S)
      /\ \A u \in Tasks : todo[u] \in Seq(S)
  BY DEF PeersOwned
<1>2. S' = S
  BY DEF OwnedStep, Step
<1>3. todo' = [todo EXCEPT ![t] = steps \o Tail(@)]
  BY DEF Continue
<1> HIDE DEF S
<1>4. Tail(todo[t]) \in Seq(S)
  BY <1>1
<1>5. steps \o Tail(todo[t]) \in Seq(S)
  BY <1>1, <1>4
<1>6. \A u \in Tasks : todo'[u] \in Seq(S)
  BY <1>1, <1>3, <1>5
<1>7. QED
  BY <1>2, <1>6 DEF PeersOwned, S, Tasks, VideoTask, StateTask, Router

(* The counter counts, if nothing it counts has changed.                   *)
LEMMA CountKept ==
    ASSUME Counted, UNCHANGED <<sessions, sessionCount>>, Discarding' = Discarding
    PROVE  Counted'
<1>1. Registered' = Registered
  BY DEF Registered
<1>2. QED
  BY <1>1 DEF Counted

LEMMA RegisteredHas ==
    /\ \A s : s \in Registered <=> s # None /\ \E c \in Clients : sessions[c] = s
    /\ \A s : s \in Registered' <=> s # None /\ \E c \in Clients : sessions'[c] = s
  BY DEF Registered

LEMMA TwoAndMore ==
    ASSUME NEW S, NEW T, T \subseteq S, NEW d \in S, NEW r \in T, NEW y \in Seq(T),
           NEW z, z = <<d, r>> \o y
    PROVE  z \in Seq(S) /\ z # <<>> /\ Head(z) = d /\ Tail(z) \in Seq(T)
<1>1. /\ <<d, r>> \in Seq(S) /\ y \in Seq(S)
      /\ Len(<<d, r>>) = 2 /\ <<d, r>>[1] = d /\ <<d, r>>[2] = r
  OBVIOUS
<1> DEFINE q == <<d, r>>
<1> HIDE DEF q
<1>2. /\ z \in Seq(S) /\ Len(z) = 2 + Len(y)
      /\ z[1] = d /\ z[2] = r
      /\ \A i \in 1..Len(y) : z[i + 2] = y[i]
  BY <1>1 DEF q
<1>3. Len(y) \in Nat /\ \A i \in 1..Len(y) : y[i] \in T
  OBVIOUS
<1>4. z # <<>> /\ Head(z) = d
  BY <1>2, <1>3
<1>5. \A i \in 1..(Len(z) - 1) : z[i + 1] \in T
  <2>1. ASSUME NEW i \in 1..(Len(z) - 1)
        PROVE  z[i + 1] \in T
    <3>1. CASE i = 1
      BY <1>2, <3>1
    <3>2. CASE i # 1
      <4>1. i - 1 \in 1..Len(y) /\ (i - 1) + 2 = i + 1
        BY <1>2, <1>3, <2>1, <3>2
      <4>2. z[i + 1] = y[i - 1]
        BY <1>2, <4>1
      <4>3. QED
        BY <1>3, <4>1, <4>2
    <3>3. QED
      BY <3>1, <3>2
  <2>2. QED
    BY <2>1
<1>6. /\ Tail(z) \in Seq(S) /\ Len(Tail(z)) = Len(z) - 1
      /\ \A i \in 1..(Len(z) - 1) : Tail(z)[i] = z[i + 1]
  BY <1>2, <1>4
<1>7. Tail(z) \in Seq(T)
  <2>1. \A w \in Seq(S) : (\A i \in 1..Len(w) : w[i] \in T) => w \in Seq(T)
    OBVIOUS
  <2> DEFINE w == Tail(z)
  <2>2. w \in Seq(S) /\ \A i \in 1..Len(w) : w[i] \in T
    BY <1>5, <1>6
  <2> HIDE DEF w
  <2>3. w \in Seq(T)
    BY <2>1, <2>2
  <2>4. QED
    BY <2>3 DEF w
<1>8. QED
  BY <1>2, <1>4, <1>7

(* Taking a session from the table (room.rs:382-389).                      *)
LEMMA RemoveKeeps ==
    ASSUME IInv, NEW t \in Tasks, DoRemove(t)
    PROVE  IInv'
<1> DEFINE x == Head(todo[t])
           c == x.client
           s == sessions[c]
           steps == IF s = None THEN <<>>
                    ELSE <<Discard(s), Release(c)>>
                         \o (IF x.closes THEN <<ClosePeer(s)>> ELSE <<>>)
<1>0. /\ TypeOK /\ todo[t] # <<>> /\ x.op = "remove" /\ x \in Step
      /\ Continue(t, steps)
      /\ sessions' = [sessions EXCEPT ![c] = None]
      /\ UNCHANGED <<asked, sessionCount, owner, peer, queueClosed, sending,
                     slots, reported, refresh, covered, late>>
  BY DEF IInv, TypeOK, DoRemove, NextIs, playerVars, videoVars
<1>1. /\ c \in Clients /\ x.closes \in BOOLEAN /\ x = Remove(c, x.closes)
      /\ s \in Sessions \cup {None}
  BY <1>0, StepFields DEF TypeOK
<1>2. /\ steps \in Seq(Step)
      /\ steps # <<>> => Tail(steps) \in Seq(LaterStep)
      /\ steps # <<>> => s # None /\ Head(steps) = Discard(s)
      /\ s # None => steps # <<>>
      /\ steps \in Seq(OwnedStep)
  <2>1. CASE s = None
    BY <2>1
  <2>2. CASE s # None
    <3> DEFINE d == Discard(s)
               r == Release(c)
               p == ClosePeer(s)
               S == Step
               T == LaterStep
    <3>1. d \in S /\ r \in T /\ p \in T /\ T \subseteq S
      BY <1>1, <2>2, StepsBuilt
    <3> DEFINE y == IF x.closes THEN <<p>> ELSE <<>>
               O == OwnedStep
    <3>a. d \in O /\ r \in O /\ p \in O
      <4>1. owner[s] # None
        BY <1>1, <2>2, NoneAssumption DEF IInv, Owned
      <4>2. d \in S /\ r \in S /\ p \in S
        BY <3>1
      <4>3. QED
        BY <4>1, <4>2 DEF OwnedStep, Discard, Release, ClosePeer
    <3>2. steps = <<d, r>> \o y
      BY <2>2
    <3>3. y \in Seq(T) /\ y \in Seq(O)
      <4> HIDE DEF d, r, p, S, T, O
      <4>1. QED
        BY <3>1, <3>a
    <3> HIDE DEF d, r, p, y, S, T, O, steps
    <3>4. steps \in Seq(S) /\ Tail(steps) \in Seq(T)
      <4>1. steps \in Seq(S)
        BY <3>1, <3>2, <3>3, TwoAndMore
      <4>2. Tail(steps) \in Seq(T)
        BY <3>1, <3>2, <3>3, TwoAndMore
      <4>3. QED
        BY <4>1, <4>2
    <3>5. steps # <<>> /\ Head(steps) = d
      BY <3>1, <3>2, <3>3, TwoAndMore
    <3>6. steps \in Seq(O)
      BY <3>2, <3>3, <3>a, TwoAndMore
    <3>7. QED
      BY <2>2, <3>4, <3>5, <3>6 DEF d, S, T, O
  <2>3. QED
    BY <2>1, <2>2
<1> HIDE DEF steps
<1>3. /\ todo' \in [Tasks -> Seq(Step)] /\ DiscardsFirst'
      /\ \A q \in Sessions : /\ q \in sending => todo'[VideoTask(q)] = <<>>
                             /\ todo'[VideoTask(q)] # <<>> => todo[VideoTask(q)] # <<>>
      /\ \A y : todo[Router] # <<>> /\ Head(todo[Router]) = y /\ x # y =>
                   todo'[Router] # <<>> /\ Head(todo'[Router]) = y
      /\ \A y : todo[Router] = <<y>> /\ x # y => todo'[Router] = <<y>>
      /\ \A u \in Tasks : \A y : EndsWith(u, y) /\ x # y => EndsWith(u, y)'
      /\ \A y : (\E u \in Tasks : todo[u] # <<>> /\ Head(todo[u]) = y) /\ x # y =>
                   \E u \in Tasks : todo'[u] # <<>> /\ Head(todo'[u]) = y
      /\ steps = <<>> \/ Head(steps).op # "discard" => Discarding' = Discarding \ {t}
      /\ steps # <<>> /\ Head(steps).op = "discard" => Discarding' = Discarding \cup {t}
  BY <1>0, <1>2, ProceedFrame
<1>4. /\ \A d \in Clients : x # Release(d)
      /\ x # NoteRegistered
      /\ \A q \in Sessions : x # ClosePeer(q) /\ x # Discard(q)
      /\ \A d \in Clients : x = Remove(d, TRUE) => c = d
  BY <1>0 DEF Release, NoteRegistered, ClosePeer, Discard, Remove
<1>5. \A d \in Clients : /\ d # c => sessions'[d] = sessions[d]
                         /\ sessions'[d] # None => d # c
  BY <1>0, <1>1 DEF TypeOK
<1>6. \A q : q \in Registered' <=> q \in Registered /\ q # s
  BY <1>1, <1>5, RegisteredHas DEF IInv, Owned
<1>a. sessions' \in [Clients -> Sessions \cup {None}]
  BY <1>0 DEF TypeOK
<1> HIDE DEF x, c, s
<1>7. TypeOK'
  BY <1>0, <1>3, <1>a DEF TypeOK
<1>8. Owned'
  BY <1>0, <1>3, <1>5 DEF IInv, Owned
<1>9. Counted'
  <2>1. t \notin Discarding
    BY <1>0 DEF Discarding, NextIs, x
  <2>2. CASE s = None
    <3>1. Discarding' = Discarding
      BY <1>2, <1>3, <2>1, <2>2
    <3>2. sessions' = sessions
      BY <1>0, <1>1, <1>5, <1>a, <2>2 DEF TypeOK, s
    <3>3. QED
      BY <1>0, <3>1, <3>2, CountKept DEF IInv
  <2>3. CASE s # None
    <3>1. Discarding' = Discarding \cup {t}
      BY <1>2, <1>3, <2>3 DEF Discard
    <3>2. Registered' = Registered \ {s} /\ s \in Registered
      BY <1>1, <1>6, <2>3, RegisteredHas DEF s
    <3>3. /\ IsFiniteSet(Registered') /\ IsFiniteSet(Discarding')
          /\ Cardinality(Registered') = Cardinality(Registered) - 1
          /\ Cardinality(Discarding') = Cardinality(Discarding) + 1
      BY <2>1, <3>1, <3>2, FS_AddElement, FS_RemoveElement DEF IInv, Counted
    <3>4. Cardinality(Registered) \in Nat /\ Cardinality(Discarding) \in Nat
      BY FS_CardinalityType DEF IInv, Counted
    <3>5. QED
      BY <1>0, <3>3, <3>4 DEF IInv, Counted
  <2>4. QED
    BY <2>2, <2>3
<1>10. Seated'
  <2>1. Players' = Players /\ Players \subseteq Clients
    BY <1>0 DEF Players, TypeOK
  <2>2. QED
    BY <1>0, <1>3, <1>4, <2>1 DEF IInv, Seated
<1>11. NewSessionsGetRefresh'
  BY <1>0, <1>3, <1>4, <1>6 DEF IInv, NewSessionsGetRefresh
<1>12. Wound'
  <2>1. \A d \in Clients : sessions'[d] # None =>
            d \in asked \/ EndsWith(Router, Remove(d, TRUE))'
    BY <1>3, <1>4, <1>5, TasksDistinct DEF IInv, Wound
  <2>2. ASSUME NEW q \in Sessions, owner[q] # None
        PROVE  \/ q \in Registered'
               \/ q \in queueClosed
               \/ \E u \in Tasks : todo'[u] # <<>> /\ Head(todo'[u]) = Discard(q)
    <3>1. CASE q \in Registered /\ q = s
      <4>1. s # None
        BY <3>1, RegisteredHas
      <4>2. Discard(s) = Head(steps) /\ steps # <<>>
        BY <1>2, <4>1
      <4>3. todo'[t] # <<>> /\ Head(todo'[t]) = Head(steps)
        BY <1>0, <1>2, <4>2, Continues DEF IInv, TypeOK
      <4>4. QED
        BY <3>1, <4>2, <4>3
    <3>2. CASE ~(q \in Registered /\ q = s)
      BY <1>3, <1>4, <1>6, <2>2, <3>2 DEF IInv, Wound
    <3>3. QED
      BY <3>1, <3>2
  <2>3. \A q \in Sessions : owner[q] # None =>
            \/ q \in sending
            \/ peer[q] \in {"closing", "closed"}
            \/ EndsWith(VideoTask(q), ClosePeer(q))'
    BY <1>3, <1>4, TasksDistinct DEF IInv, Wound
  <2>4. QED
    BY <1>0, <2>1, <2>2, <2>3 DEF Wound, Remove, ClosePeer, Discard
<1>13. PeersOwned'
  BY <1>0, <1>2, PeersOwnedKept DEF IInv
<1>14. QED
  BY <1>3, <1>7, <1>8, <1>9, <1>10, <1>11, <1>12, <1>13 DEF IInv

(* What a step other than "remove" keeps by its frame alone.               *)
LEMMA OtherStepsKeep ==
    ASSUME IInv, NEW t \in Tasks, todo[t] # <<>>, Head(todo[t]).op # "remove",
           NEW y \in LaterStep, y.op # "closePeer",
           Continue(t, <<>>) \/ Continue(t, <<y>>),
           UNCHANGED <<sessions, owner, asked, late, sending>>
    PROVE  /\ todo' \in [Tasks -> Seq(Step)] /\ DiscardsFirst'
           /\ (\A s \in Sessions : peer'[s] # "new" => owner[s] # None) => Owned'
           /\ PeersOwned'
           /\ Discarding' = Discarding \ {t}
           /\ slots' = slots /\ Head(todo[t]).op # "release" => Seated'
           /\ /\ covered' = covered /\ (refresh => refresh')
              /\ Head(todo[t]) = NoteRegistered => refresh'
              => NewSessionsGetRefresh'
           /\ /\ queueClosed \subseteq queueClosed'
              /\ \A s \in Sessions : Head(todo[t]) = Discard(s) => s \in queueClosed'
              /\ \A s \in Sessions :
                    /\ peer[s] \in {"closing", "closed"} => peer'[s] \in {"closing", "closed"}
                    /\ Head(todo[t]) = ClosePeer(s) => peer'[s] \in {"closing", "closed"}
              => Wound'
<1> DEFINE x == Head(todo[t])
<1>1. PICK steps : /\ steps \in {<<>>, <<y>>}
                   /\ Continue(t, steps)
  OBVIOUS
<1>2. /\ steps \in Seq(Step) /\ steps \in Seq(OwnedStep)
      /\ steps # <<>> => Tail(steps) \in Seq(LaterStep)
      /\ steps = <<>> \/ Head(steps).op # "discard"
  <2>1. CASE steps = <<>>
    BY <2>1
  <2>2. CASE steps = <<y>>
    <3>1. y \in Step /\ y \in OwnedStep /\ y.op # "discard"
      BY DEF LaterStep, OwnedStep
    <3>2. Tail(<<y>>) = <<>> /\ Head(<<y>>) = y
      OBVIOUS
    <3>3. QED
      BY <2>2, <3>1, <3>2
  <2>3. QED
    BY <1>1, <2>1, <2>2
<1> HIDE DEF x
<1>3. /\ todo' \in [Tasks -> Seq(Step)] /\ DiscardsFirst'
      /\ \A s \in Sessions : /\ s \in sending => todo'[VideoTask(s)] = <<>>
                             /\ todo'[VideoTask(s)] # <<>> => todo[VideoTask(s)] # <<>>
      /\ \A z : todo[Router] # <<>> /\ Head(todo[Router]) = z /\ x # z =>
                   todo'[Router] # <<>> /\ Head(todo'[Router]) = z
      /\ \A z : todo[Router] = <<z>> /\ x # z => todo'[Router] = <<z>>
      /\ \A u \in Tasks : \A z : EndsWith(u, z) /\ x # z => EndsWith(u, z)'
      /\ \A z : (\E u \in Tasks : todo[u] # <<>> /\ Head(todo[u]) = z) /\ x # z =>
                   \E u \in Tasks : todo'[u] # <<>> /\ Head(todo'[u]) = z
      /\ Discarding' = Discarding \ {t}
  BY <1>1, <1>2, ProceedFrame DEF x
<1>4. PeersOwned'
  BY <1>1, <1>2, PeersOwnedKept DEF IInv
<1>5. ASSUME \A s \in Sessions : peer'[s] # "new" => owner[s] # None
      PROVE  Owned'
  BY <1>3, <1>5 DEF IInv, Owned
<1>6. ASSUME slots' = slots, x.op # "release"
      PROVE  Seated'
  <2>1. Players' = Players
    BY <1>6 DEF Players
  <2>2. \A c \in Players : x # Release(c)
    BY <1>6 DEF Release
  <2>3. QED
    BY <1>3, <1>6, <2>1, <2>2 DEF IInv, Seated, Release
<1>7. ASSUME covered' = covered, refresh => refresh', x = NoteRegistered => refresh'
      PROVE  NewSessionsGetRefresh'
  <2>1. Registered' = Registered
    BY DEF Registered
  <2>2. QED
    BY <1>3, <1>7, <2>1 DEF IInv, NewSessionsGetRefresh, NoteRegistered
<1>8. ASSUME queueClosed \subseteq queueClosed',
             \A s \in Sessions : x = Discard(s) => s \in queueClosed',
             \A s \in Sessions :
                /\ peer[s] \in {"closing", "closed"} => peer'[s] \in {"closing", "closed"}
                /\ x = ClosePeer(s) => peer'[s] \in {"closing", "closed"}
      PROVE  Wound'
  <2>1. \A c \in Clients : x # Remove(c, TRUE)
    BY DEF Remove, x
  <2>2. \A c \in Clients :
            sessions'[c] # None => c \in asked' \/ EndsWith(Router, Remove(c, TRUE))'
    BY <1>3, <2>1, TasksDistinct DEF IInv, Wound
  <2>3. Registered' = Registered
    BY DEF Registered
  <2>4. \A s \in Sessions : owner'[s] # None =>
            \/ s \in Registered'
            \/ s \in queueClosed'
            \/ \E u \in Tasks : todo'[u] # <<>> /\ Head(todo'[u]) = Discard(s)
    BY <1>3, <1>8, <2>3 DEF IInv, Wound
  <2>5. \A s \in Sessions : owner'[s] # None =>
            \/ s \in sending'
            \/ peer'[s] \in {"closing", "closed"}
            \/ EndsWith(VideoTask(s), ClosePeer(s))'
    BY <1>3, <1>8, TasksDistinct DEF IInv, Wound
  <2>6. QED
    BY <2>2, <2>4, <2>5 DEF Wound, Remove, Discard, ClosePeer
<1>9. QED
  BY <1>3, <1>4, <1>5, <1>6, <1>7, <1>8 DEF x

(* Counting a removed session down (room.rs:390-394).                      *)
LEMMA DiscardKeeps ==
    ASSUME IInv, NEW t \in Tasks, DoDiscard(t)
    PROVE  IInv'
<1> DEFINE x == Head(todo[t])
<1>0. /\ TypeOK /\ todo[t] # <<>> /\ x.op = "discard" /\ x \in Step
      /\ Continue(t, <<>>)
      /\ sessionCount' = sessionCount - 1
      /\ queueClosed' = queueClosed \cup {x.session}
      /\ UNCHANGED <<asked, sessions, owner, peer, sending, slots, reported,
                     refresh, covered, late>>
  BY DEF IInv, TypeOK, DoDiscard, NextIs, Finish, playerVars, videoVars
<1>1. x.session \in Sessions
  BY <1>0, StepFields
<1>2. ReadCount \in LaterStep /\ ReadCount.op # "closePeer"
  BY StepsBuilt DEF ReadCount
<1>3. /\ todo' \in [Tasks -> Seq(Step)] /\ DiscardsFirst' /\ PeersOwned'
      /\ Discarding' = Discarding \ {t}
  BY <1>0, <1>2, OtherStepsKeep
<1>4. Counted' /\ sessionCount' \in Nat
  <2>1. t \in Discarding
    BY <1>0 DEF Discarding, NextIs
  <2>2. IsFiniteSet(Discarding') /\ Cardinality(Discarding') = Cardinality(Discarding) - 1
    BY <1>3, <2>1, FS_RemoveElement DEF IInv, Counted
  <2>3. /\ Cardinality(Registered) \in Nat
        /\ Cardinality(Discarding) \in Nat /\ Cardinality(Discarding') \in Nat
    BY <2>2, FS_CardinalityType DEF IInv, Counted
  <2>4. Registered' = Registered
    BY <1>0 DEF Registered
  <2>5. QED
    BY <1>0, <2>2, <2>3, <2>4 DEF IInv, Counted
<1>5. TypeOK'
  BY <1>0, <1>1, <1>3, <1>4 DEF TypeOK
<1>6. Owned'
  BY <1>0, <1>2, OtherStepsKeep DEF IInv, Owned
<1>7. Seated'
  BY <1>0, <1>2, OtherStepsKeep
<1>8. NewSessionsGetRefresh'
  <2>1. x # NoteRegistered
    BY <1>0 DEF NoteRegistered
  <2>2. QED
    BY <1>0, <1>2, <2>1, OtherStepsKeep
<1>9. Wound'
  <2>1. \A s \in Sessions : x = Discard(s) => s \in queueClosed'
    BY <1>0 DEF Discard
  <2>2. \A s \in Sessions : x # ClosePeer(s)
    BY <1>0 DEF ClosePeer
  <2>3. QED
    BY <1>0, <1>2, <2>1, <2>2, OtherStepsKeep
<1>10. QED
  BY <1>3, <1>4, <1>5, <1>6, <1>7, <1>8, <1>9 DEF IInv

(* Giving up a slot (room.rs:396-404, 418-428).                            *)
LEMMA ReleaseKeeps ==
    ASSUME IInv, NEW t \in Tasks, DoRelease(t)
    PROVE  IInv'
<1> DEFINE x == Head(todo[t])
           c == x.client
<1>0. /\ TypeOK /\ todo[t] # <<>> /\ x.op = "release" /\ x \in Step
      /\ Continue(t, <<>>) \/ Continue(t, <<ReadCount>>)
      /\ slots' = IF c \in Players THEN [slots EXCEPT ![SlotOf(c)] = None] ELSE slots
      /\ UNCHANGED <<asked, sessions, sessionCount, owner, peer, queueClosed, sending,
                     reported, refresh, covered, late>>
  BY DEF IInv, TypeOK, DoRelease, NextIs, sessionVars, videoVars
<1>1. c \in Clients /\ x = Release(c)
  BY <1>0, StepFields
<1>2. ReadCount \in LaterStep /\ ReadCount.op # "closePeer"
  BY StepsBuilt DEF ReadCount
<1>3. /\ todo' \in [Tasks -> Seq(Step)] /\ DiscardsFirst' /\ PeersOwned'
      /\ Discarding' = Discarding \ {t}
  BY <1>0, <1>2, OtherStepsKeep
<1>4. /\ slots' \in [Slots -> Clients \cup {None}]
      /\ \A i, j \in Slots : slots'[i] # None /\ slots'[i] = slots'[j] => i = j
      /\ \A d \in Players' : d \in Players /\ d # c
  <2>1. CASE c \in Players
    <3>1. {i \in Slots : slots[i] = c} # {}
      BY <2>1 DEF Players
    <3>2. SlotOf(c) \in Slots /\ slots[SlotOf(c)] = c
      BY <3>1, FirstIsIn DEF SlotOf
    <3>3. \A i \in Slots : slots[i] = c => i = SlotOf(c)
      BY <1>1, <3>2, NoneAssumption DEF IInv, Seated
    <3>4. slots' = [slots EXCEPT ![SlotOf(c)] = None]
      BY <1>0, <2>1
    <3>5. QED
      BY <1>0, <3>2, <3>3, <3>4 DEF IInv, Seated, TypeOK, Players
  <2>2. CASE c \notin Players
    BY <1>0, <2>2 DEF IInv, Seated, TypeOK, Players
  <2>3. QED
    BY <2>1, <2>2
<1>5. TypeOK'
  BY <1>0, <1>3, <1>4 DEF TypeOK
<1>6. Owned'
  BY <1>0, <1>2, OtherStepsKeep DEF IInv, Owned
<1>7. Counted'
  <2>1. t \notin Discarding
    BY <1>0 DEF Discarding, NextIs
  <2>2. QED
    BY <1>0, <1>3, <2>1, CountKept DEF IInv
<1>8. Seated'
  <2>1. ASSUME NEW d \in Players'
        PROVE  \/ d \in asked \cup late
               \/ todo'[Router] # <<>> /\ Head(todo'[Router]) = Release(d)
    <3>1. d \in Players /\ x # Release(d)
      BY <1>1, <1>4, <2>1 DEF Release
    <3>2. \/ d \in asked \cup late
          \/ todo[Router] # <<>> /\ Head(todo[Router]) = Release(d)
      BY <3>1 DEF IInv, Seated
    <3>3. CASE t = Router
      BY <3>1, <3>2, <3>3
    <3>4. CASE t # Router
      <4>1. todo'[Router] = todo[Router]
        BY <1>0, <3>4, TasksDistinct DEF Continue, TypeOK
      <4>2. QED
        BY <3>2, <4>1
    <3>5. QED
      BY <3>3, <3>4
  <2>2. QED
    BY <1>0, <1>4, <2>1 DEF Seated, Release
<1>9. NewSessionsGetRefresh'
  BY <1>0, <1>2, OtherStepsKeep DEF NoteRegistered
<1>10. Wound'
  <2>1. \A s \in Sessions : x # ClosePeer(s) /\ x # Discard(s)
    BY <1>0 DEF ClosePeer, Discard
  <2>2. QED
    BY <1>0, <1>2, <2>1, OtherStepsKeep
<1>11. QED
  BY <1>3, <1>5, <1>6, <1>7, <1>8, <1>9, <1>10 DEF IInv

(* Reading the player count (room.rs:406-411, 430-435).                    *)
LEMMA ReadCountKeeps ==
    ASSUME IInv, NEW t \in Tasks, DoReadCount(t)
    PROVE  IInv'
<1> DEFINE x == Head(todo[t])
           y == SendCount(Count)
<1>0. /\ TypeOK /\ todo[t] # <<>> /\ x.op = "readCount" /\ x \in Step
      /\ Continue(t, <<y>>)
      /\ UNCHANGED <<asked, sessions, sessionCount, owner, peer, queueClosed, sending,
                     slots, reported, refresh, covered, late>>
  BY DEF IInv, TypeOK, DoReadCount, NextIs, sessionVars, playerVars, videoVars
<1>1. y \in LaterStep /\ y.op # "closePeer"
  BY <1>0, CountBounds, StepsBuilt DEF SendCount
<1>2. /\ x # NoteRegistered
      /\ \A s \in Sessions : x # Discard(s) /\ x # ClosePeer(s)
  BY <1>0 DEF NoteRegistered, Discard, ClosePeer
<1>3. t \notin Discarding
  BY <1>0 DEF Discarding, NextIs
<1> HIDE DEF y
<1>4. /\ todo' \in [Tasks -> Seq(Step)] /\ DiscardsFirst' /\ PeersOwned'
      /\ Discarding' = Discarding \ {t}
  BY <1>0, <1>1, OtherStepsKeep
<1>5. TypeOK'
  BY <1>0, <1>4 DEF TypeOK
<1>6. Owned'
  BY <1>0, <1>1, OtherStepsKeep DEF IInv, Owned
<1>7. Counted'
  BY <1>0, <1>3, <1>4, CountKept DEF IInv
<1>8. Seated'
  BY <1>0, <1>1, OtherStepsKeep
<1>9. NewSessionsGetRefresh'
  BY <1>0, <1>1, <1>2, OtherStepsKeep
<1>10. Wound'
  BY <1>0, <1>1, <1>2, OtherStepsKeep
<1>11. QED
  BY <1>4, <1>5, <1>6, <1>7, <1>8, <1>9, <1>10 DEF IInv

(* Sending it (room.rs:412, 436, 521-527).                                 *)
LEMMA SendCountKeeps ==
    ASSUME IInv, NEW t \in Tasks, DoSendCount(t)
    PROVE  IInv'
<1> DEFINE x == Head(todo[t])
<1>0. /\ TypeOK /\ todo[t] # <<>> /\ x.op = "sendCount" /\ x \in Step
      /\ Continue(t, <<>>)
      /\ reported' = x.count
      /\ UNCHANGED <<asked, sessions, sessionCount, owner, peer, queueClosed, sending,
                     slots, refresh, covered, late>>
  BY DEF IInv, TypeOK, DoSendCount, NextIs, Finish, sessionVars, videoVars
<1>1. ReadCount \in LaterStep /\ ReadCount.op # "closePeer"
  BY StepsBuilt DEF ReadCount
<1>2. /\ x # NoteRegistered
      /\ \A s \in Sessions : x # Discard(s) /\ x # ClosePeer(s)
  BY <1>0 DEF NoteRegistered, Discard, ClosePeer
<1>3. t \notin Discarding
  BY <1>0 DEF Discarding, NextIs
<1>4. /\ todo' \in [Tasks -> Seq(Step)] /\ DiscardsFirst' /\ PeersOwned'
      /\ Discarding' = Discarding \ {t}
  BY <1>0, <1>1, OtherStepsKeep
<1>5. TypeOK'
  BY <1>0, <1>4, StepFields DEF TypeOK
<1>6. Owned'
  BY <1>0, <1>1, OtherStepsKeep DEF IInv, Owned
<1>7. Counted'
  BY <1>0, <1>3, <1>4, CountKept DEF IInv
<1>8. Seated'
  BY <1>0, <1>1, OtherStepsKeep
<1>9. NewSessionsGetRefresh'
  BY <1>0, <1>1, <1>2, OtherStepsKeep
<1>10. Wound'
  BY <1>0, <1>1, <1>2, OtherStepsKeep
<1>11. QED
  BY <1>4, <1>5, <1>6, <1>7, <1>8, <1>9, <1>10 DEF IInv

(* Closing a peer connection (webrtc_session.rs:194-199, 308-321,           *)
(* signal_router.rs:108-116).                                              *)
LEMMA ClosePeerKeeps ==
    ASSUME IInv, NEW t \in Tasks, DoClosePeer(t)
    PROVE  IInv'
<1> DEFINE x == Head(todo[t])
           s == x.session
<1>0. /\ TypeOK /\ todo[t] # <<>> /\ x.op = "closePeer" /\ x \in Step
      /\ Continue(t, <<>>)
      /\ peer' = [peer EXCEPT ![s] = IF @ = "closed" THEN @ ELSE "closing"]
      /\ UNCHANGED <<asked, sessions, sessionCount, owner, queueClosed, sending,
                     slots, reported, refresh, covered, late>>
  BY DEF IInv, TypeOK, DoClosePeer, NextIs, Finish, playerVars, videoVars
<1>1. ReadCount \in LaterStep /\ ReadCount.op # "closePeer"
  BY StepsBuilt DEF ReadCount
<1>2. /\ x # NoteRegistered
      /\ \A r \in Sessions : x # Discard(r)
  BY <1>0 DEF NoteRegistered, Discard
<1>3. t \notin Discarding
  BY <1>0 DEF Discarding, NextIs
<1>a. s \in Sessions /\ owner[s] # None
  <2>1. x \in OwnedStep
    BY <1>0 DEF IInv, PeersOwned
  <2>2. QED
    BY <1>0, <2>1, StepFields DEF OwnedStep
<1>b. \A r \in Sessions :
         /\ peer[r] \in {"closing", "closed"} => peer'[r] \in {"closing", "closed"}
         /\ x = ClosePeer(r) => peer'[r] \in {"closing", "closed"}
         /\ peer'[r] # "new" => owner[r] # None
  BY <1>0, <1>a DEF IInv, Owned, TypeOK, ClosePeer
<1>4. /\ todo' \in [Tasks -> Seq(Step)] /\ DiscardsFirst' /\ PeersOwned'
      /\ Discarding' = Discarding \ {t}
  BY <1>0, <1>1, OtherStepsKeep
<1>5. TypeOK'
  BY <1>0, <1>4 DEF TypeOK
<1>6. Owned'
  BY <1>0, <1>1, <1>b, OtherStepsKeep
<1>7. Counted'
  BY <1>0, <1>3, <1>4, CountKept DEF IInv
<1>8. Seated'
  BY <1>0, <1>1, OtherStepsKeep
<1>9. NewSessionsGetRefresh'
  BY <1>0, <1>1, <1>2, OtherStepsKeep
<1>10. Wound'
  BY <1>0, <1>1, <1>2, <1>b, OtherStepsKeep
<1>11. QED
  BY <1>4, <1>5, <1>6, <1>7, <1>8, <1>9, <1>10 DEF IInv

(* Asking for a new encoder (room.rs:77-80, 293-295).                      *)
LEMMA NoteRegisteredKeeps ==
    ASSUME IInv, NEW t \in Tasks, DoNoteRegistered(t)
    PROVE  IInv'
<1> DEFINE x == Head(todo[t])
<1>0. /\ TypeOK /\ todo[t] # <<>> /\ x.op = "noteRegistered" /\ x \in Step
      /\ Continue(t, <<>>)
      /\ refresh'
      /\ refresh' = TRUE
      /\ UNCHANGED <<asked, sessions, sessionCount, owner, peer, queueClosed, sending,
                     slots, reported, covered, late>>
  BY DEF IInv, TypeOK, DoNoteRegistered, NextIs, Finish, sessionVars, playerVars
<1>1. ReadCount \in LaterStep /\ ReadCount.op # "closePeer"
  BY StepsBuilt DEF ReadCount
<1>2. \A s \in Sessions : x # Discard(s) /\ x # ClosePeer(s)
  BY <1>0 DEF Discard, ClosePeer
<1>3. t \notin Discarding
  BY <1>0 DEF Discarding, NextIs
<1>4. /\ todo' \in [Tasks -> Seq(Step)] /\ DiscardsFirst' /\ PeersOwned'
      /\ Discarding' = Discarding \ {t}
  BY <1>0, <1>1, OtherStepsKeep
<1>5. TypeOK'
  BY <1>0, <1>4 DEF TypeOK
<1>6. Owned'
  BY <1>0, <1>1, OtherStepsKeep DEF IInv, Owned
<1>7. Counted'
  BY <1>0, <1>3, <1>4, CountKept DEF IInv
<1>8. Seated'
  BY <1>0, <1>1, OtherStepsKeep
<1>9. NewSessionsGetRefresh'
  BY <1>0 DEF NewSessionsGetRefresh
<1>10. Wound'
  BY <1>0, <1>1, <1>2, OtherStepsKeep
<1>11. QED
  BY <1>4, <1>5, <1>6, <1>7, <1>8, <1>9, <1>10 DEF IInv

-----------------------------------------------------------------------------
(* Actions outside the teardowns. What they keep of the tasks: the same    *)
(* tasks are counting down, and closings are still of created sessions.    *)
LEMMA OwnedStepsGrow ==
    ASSUME TypeOK, \A s \in Sessions : owner[s] # None => owner'[s] # None
    PROVE  \A z \in Seq(OwnedStep) : z \in Seq(OwnedStep')
<1> DEFINE S == OwnedStep
           T == OwnedStep'
<1>1. S \subseteq T
  <2>1. \A x \in Step : x.op = "closePeer" => x.session \in Sessions
    BY StepFields
  <2>2. Step' = Step
    BY DEF Step
  <2>3. QED
    BY <2>1, <2>2 DEF OwnedStep
<1> HIDE DEF S, T
<1>2. \A z \in Seq(S) : z \in Seq(T)
  BY <1>1
<1>3. QED
  BY <1>2 DEF S, T

LEMMA TasksKept ==
    ASSUME IInv, UNCHANGED <<todo, owner>>
    PROVE  DiscardsFirst' /\ PeersOwned' /\ Discarding' = Discarding
<1>1. LaterStep' = LaterStep /\ OwnedStep' = OwnedStep /\ Tasks' = Tasks
  BY DEF LaterStep, OwnedStep, Step, Tasks, Router, VideoTask, StateTask
<1>2. Discarding' = Discarding
  BY <1>1 DEF Discarding, NextIs
<1>3. DiscardsFirst' /\ PeersOwned'
  BY <1>1 DEF IInv, DiscardsFirst, PeersOwned
<1>4. QED
  BY <1>2, <1>3

(* A task that had nothing to do starts a sequence of steps, or one that   *)
(* had something to do takes on one step more, and none is a "discard".    *)
LEMMA TasksExtended ==
    ASSUME IInv, NEW t \in Tasks, NEW steps \in Seq(LaterStep), steps # <<>>,
           steps \in Seq(OwnedStep'),
           todo[t] = <<>> \/ Tail(steps) = <<>>,
           \A s \in Sessions : owner[s] # None => owner'[s] # None,
           todo' = [todo EXCEPT ![t] = @ \o steps]
    PROVE  /\ todo' \in [Tasks -> Seq(Step)] /\ DiscardsFirst' /\ PeersOwned'
           /\ Discarding' = Discarding
           /\ \A u \in Tasks \ {t} : todo'[u] = todo[u]
           /\ todo[t] = <<>> => todo'[t] = steps
           /\ todo[t] # <<>> => todo'[t] # <<>> /\ Head(todo'[t]) = Head(todo[t])
           /\ EndsWith(t, steps[Len(steps)])'
<1> DEFINE S == Step
           T == LaterStep
           O == OwnedStep'
           q == todo[t]
           r == q \o steps
<1>1. /\ todo \in [Tasks -> Seq(S)] /\ T \subseteq S
      /\ q \in Seq(S) /\ (q # <<>> => Tail(q) \in Seq(T))
      /\ q \in Seq(O) /\ steps \in Seq(O)
      /\ \A u \in Tasks : todo[u] \in Seq(O)
  BY OwnedStepsGrow DEF IInv, TypeOK, DiscardsFirst, PeersOwned, LaterStep
<1>2. todo' = [todo EXCEPT ![t] = r]
  OBVIOUS
<1>3. T' = T /\ S' = S /\ Tasks' = Tasks
  BY DEF LaterStep, Step, Tasks, Router, VideoTask, StateTask
<1>h. \A x \in T : x.op # "discard"
  BY DEF LaterStep
<1>g. steps \in Seq(T)
  OBVIOUS
<1> HIDE DEF S, T, O, q
<1>4. r \in Seq(S) /\ r \in Seq(O) /\ r # <<>>
  BY <1>1, <1>g
<1>5. q = <<>> => r = steps
  BY <1>1, <1>g
<1>6. q # <<>> => Head(r) = Head(q) /\ Tail(r) = Tail(q) \o steps
  BY <1>1, <1>g
<1>7. Tail(r) \in Seq(T)
  BY <1>1, <1>5, <1>6, <1>g
<1>8. r[Len(r)] = steps[Len(steps)]
  <2>1. Len(r) = Len(q) + Len(steps) /\ Len(steps) \in Nat \ {0} /\ Len(q) \in Nat
    BY <1>1, <1>g
  <2>2. QED
    BY <1>1, <1>g, <2>1
<1>9. Head(steps) \in T
  BY <1>g
<1> HIDE DEF r
<1>10. /\ \A u \in Tasks \ {t} : todo'[u] = todo[u]
       /\ todo'[t] = r
  BY <1>1, <1>2
<1>11. todo' \in [Tasks -> Seq(S)]
  BY <1>1, <1>2, <1>4
<1>12. DiscardsFirst'
  BY <1>3, <1>7, <1>10 DEF IInv, DiscardsFirst, T
<1>13. PeersOwned'
  BY <1>1, <1>3, <1>4, <1>10 DEF PeersOwned, O
<1>14. Discarding' = Discarding
  <2>1. \A u \in Tasks \ {t} : NextIs(u, "discard")' <=> NextIs(u, "discard")
    BY <1>10 DEF NextIs
  <2>2. NextIs(t, "discard")' <=> NextIs(t, "discard")
    BY <1>4, <1>5, <1>6, <1>9, <1>10, <1>h DEF NextIs, q
  <2>3. QED
    BY <1>3, <2>1, <2>2 DEF Discarding
<1>15. EndsWith(t, steps[Len(steps)])'
  <2>1. todo'[t] # <<>> /\ todo'[t][Len(todo'[t])] = steps[Len(steps)]
    BY <1>4, <1>8, <1>10
  <2>2. QED
    BY <2>1 DEF EndsWith
<1>16. QED
  BY <1>3, <1>4, <1>5, <1>6, <1>10, <1>11, <1>12, <1>13, <1>14, <1>15 DEF S, q

(* Joining, by a message of the router or on an input channel              *)
(* (room.rs:344-356, 484-519, webrtc_session.rs:250-265).                  *)
LEMMA JoinKeeps ==
    ASSUME IInv, NEW c \in Clients, Join(c), UNCHANGED <<sessionVars, todo>>,
           asked' \subseteq Clients, late' \subseteq Clients,
           asked \subseteq asked', late \subseteq late', c \in asked' \cup late'
    PROVE  IInv'
<1>0. /\ TypeOK /\ Assign(c) /\ covered' = covered
      /\ refresh' = (refresh \/ c \notin Players)
      /\ UNCHANGED <<sessions, sessionCount, owner, peer, queueClosed, sending, todo>>
  BY DEF IInv, Join, sessionVars
<1>1. DiscardsFirst' /\ PeersOwned' /\ Discarding' = Discarding
  BY <1>0, TasksKept
<1>2. /\ slots' \in [Slots -> Clients \cup {None}]
      /\ reported' \in 0..MaxPlayers
      /\ \A i, j \in Slots : slots'[i] # None /\ slots'[i] = slots'[j] => i = j
      /\ \A d \in Players' : d \in Players \/ d = c
  BY <1>0, AssignSeatsOne DEF IInv, Seated
<1>3. TypeOK'
  BY <1>0, <1>2 DEF TypeOK
<1>4. Owned'
  BY <1>0 DEF IInv, Owned, VideoTask
<1>5. Counted'
  BY <1>0, <1>1, CountKept DEF IInv
<1>6. Seated'
  BY <1>0, <1>2 DEF IInv, Seated, Release, Router
<1>7. NewSessionsGetRefresh'
  <2>1. Registered' = Registered /\ (refresh => refresh')
    BY <1>0 DEF Registered
  <2>2. QED
    BY <1>0, <2>1 DEF IInv, NewSessionsGetRefresh, Router, NoteRegistered
<1>8. Wound'
  <2>1. Registered' = Registered
    BY <1>0 DEF Registered
  <2>2. \A t : \A x : EndsWith(t, x)' <=> EndsWith(t, x)
    BY <1>0 DEF EndsWith
  <2>3. Wound
    BY DEF IInv
  <2>4. Tasks' = Tasks
    BY DEF Tasks, Router, VideoTask, StateTask
  <2>5. QED
    BY <1>0, <2>1, <2>2, <2>3, <2>4
       DEF Wound, Router, VideoTask, StateTask, Remove, Discard, ClosePeer
<1>9. QED
  BY <1>1, <1>3, <1>4, <1>5, <1>6, <1>7, <1>8 DEF IInv

(* A task that had nothing to do: what it starts is all it has.            *)
LEMMA TaskStarted ==
    ASSUME IInv, NEW t \in Tasks, todo[t] = <<>>,
           NEW steps \in Seq(LaterStep), steps # <<>>, steps \in Seq(OwnedStep'),
           \A s \in Sessions : owner[s] # None => owner'[s] # None,
           todo' = [todo EXCEPT ![t] = steps]
    PROVE  /\ todo' \in [Tasks -> Seq(Step)] /\ DiscardsFirst' /\ PeersOwned'
           /\ Discarding' = Discarding
           /\ \A u \in Tasks \ {t} : todo'[u] = todo[u]
           /\ todo'[t] = steps
           /\ EndsWith(t, steps[Len(steps)])'
<1> DEFINE S == LaterStep
<1>1. steps \in Seq(S)
  OBVIOUS
<1> HIDE DEF S
<1>2. todo[t] \o steps = steps
  BY <1>1
<1>3. todo' = [todo EXCEPT ![t] = @ \o steps]
  BY <1>2 DEF IInv, TypeOK
<1>4. todo' \in [Tasks -> Seq(Step)] /\ DiscardsFirst' /\ PeersOwned'
  BY <1>3, TasksExtended
<1>5. Discarding' = Discarding
  BY <1>3, TasksExtended
<1>6. \A u \in Tasks \ {t} : todo'[u] = todo[u]
  BY <1>3, TasksExtended
<1>7. todo'[t] = steps
  BY <1>3, TasksExtended
<1>8. EndsWith(t, steps[Len(steps)])'
  BY <1>3, TasksExtended
<1>9. QED
  BY <1>4, <1>5, <1>6, <1>7, <1>8

(* A new session (webrtc_session.rs:77-337, room.rs:330-342).              *)
LEMMA InitWebrtcKeeps ==
    ASSUME IInv, NEW c \in Viewers, NEW s \in Sessions, InitWebrtc(c, s)
    PROVE  IInv'
<1> DEFINE steps == <<NoteRegistered>>
<1>1. TypeOK /\ Owned /\ Wound /\ c \in Clients
  BY DEF IInv, Clients
<1>2. sessions[c] = None
  BY <1>1 DEF InitWebrtc, RouterIdle, EndsWith, Wound
<1>3. /\ todo[Router] = <<>> /\ owner[s] = None /\ c \notin asked
      /\ asked' = asked \cup {c}
      /\ owner' = [owner EXCEPT ![s] = c]
      /\ sending' = sending \cup {s}
      /\ sessions' = [sessions EXCEPT ![c] = s]
      /\ sessionCount' = sessionCount + 1
      /\ todo' = [todo EXCEPT ![Router] = steps]
      /\ late' = late \ {c}
      /\ UNCHANGED <<peer, queueClosed, slots, reported, refresh, covered>>
  BY <1>2 DEF InitWebrtc, RouterIdle, RouterRuns, playerVars, videoVars
<1>4. c # None /\ s # None
  BY <1>1, NoneAssumption
<1>5. \A q \in Sessions : owner[q] # None => owner'[q] # None /\ q # s
  BY <1>1, <1>3, <1>4 DEF TypeOK
<1>6. steps \in Seq(LaterStep) /\ steps # <<>> /\ steps \in Seq(OwnedStep')
  <2>1. NoteRegistered \in LaterStep
    BY StepsBuilt
  <2>2. NoteRegistered \in OwnedStep'
    BY <2>1 DEF OwnedStep, LaterStep, NoteRegistered, Step
  <2>3. QED
    BY <2>1, <2>2
<1> HIDE DEF steps
<1>7. /\ todo' \in [Tasks -> Seq(Step)] /\ DiscardsFirst' /\ PeersOwned'
      /\ Discarding' = Discarding
      /\ \A u \in Tasks \ {Router} : todo'[u] = todo[u]
      /\ todo'[Router] = steps
  BY <1>3, <1>5, <1>6, TaskStarted, TasksDistinct
<1>8. /\ s \notin sending /\ peer[s] = "new" /\ todo[VideoTask(s)] = <<>>
      /\ \A d \in Clients : sessions[d] # s
  <2>1. s \notin sending /\ peer[s] = "new" /\ todo[VideoTask(s)] = <<>>
    BY <1>1, <1>3 DEF Owned
  <2>2. \A d \in Clients : sessions[d] # s
    BY <1>1, <1>3, <1>4, NoneAssumption DEF Owned
  <2>3. QED
    BY <2>1, <2>2
<1>9. TypeOK'
  BY <1>1, <1>3, <1>7 DEF TypeOK
<1>10. Owned'
  <2>1. \A d \in Clients : sessions'[d] # None => owner'[sessions'[d]] = d
    BY <1>1, <1>3, <1>4, <1>8 DEF Owned, TypeOK
  <2>2. \A q \in Sessions : todo'[VideoTask(q)] = todo[VideoTask(q)]
    BY <1>7, TasksDistinct
  <2>3. owner'[s] # None
    BY <1>1, <1>3, <1>4 DEF TypeOK
  <2>4. \A q \in Sessions : q \in sending' => todo'[VideoTask(q)] = <<>> /\ owner'[q] # None
    BY <1>1, <1>3, <1>5, <1>8, <2>2, <2>3 DEF Owned
  <2>5. \A q \in Sessions : /\ peer'[q] # "new" => owner'[q] # None
                            /\ todo'[VideoTask(q)] # <<>> => owner'[q] # None
    BY <1>1, <1>3, <1>5, <2>2 DEF Owned
  <2>6. QED
    BY <2>1, <2>4, <2>5 DEF Owned, VideoTask
<1>11. \A q : q \in Registered' <=> q \in Registered \/ q = s
  <2>1. \A d \in Clients : d # c => sessions'[d] = sessions[d]
    BY <1>1, <1>3 DEF TypeOK
  <2>2. sessions'[c] = s
    BY <1>1, <1>3 DEF TypeOK
  <2>3. QED
    BY <1>1, <1>2, <1>4, <2>1, <2>2, RegisteredHas
<1>12. Counted'
  <2>1. s \notin Registered
    BY <1>8, RegisteredHas
  <2>2. Registered' = Registered \cup {s}
    BY <1>11
  <2>3. IsFiniteSet(Registered') /\ Cardinality(Registered') = Cardinality(Registered) + 1
    BY <2>1, <2>2, FS_AddElement DEF IInv, Counted
  <2>4. Cardinality(Registered) \in Nat /\ Cardinality(Discarding) \in Nat
    BY FS_CardinalityType DEF IInv, Counted
  <2>5. QED
    BY <1>3, <1>7, <2>3, <2>4 DEF IInv, Counted
<1>13. Seated'
  <2>1. \A d \in Players : d \in asked \cup late
    BY <1>3 DEF IInv, Seated
  <2>2. Players' = Players
    BY <1>3 DEF Players
  <2>3. QED
    BY <1>3, <2>1, <2>2 DEF IInv, Seated
<1>14. NewSessionsGetRefresh'
  <2>1. todo'[Router] = <<NoteRegistered>>
    BY <1>7 DEF steps
  <2>2. QED
    BY <2>1 DEF NewSessionsGetRefresh, NoteRegistered, Router
<1>15. Wound'
  <2>1. \A d \in Clients : sessions'[d] # None => d \in asked'
    BY <1>1, <1>3 DEF Wound, TypeOK, EndsWith
  <2>2. \A q \in Sessions : owner'[q] # None =>
            \/ q \in Registered'
            \/ q \in queueClosed'
            \/ \E u \in Tasks : todo'[u] # <<>> /\ Head(todo'[u]) = Discard(q)
    <3>1. ASSUME NEW q \in Sessions, owner'[q] # None, q # s
          PROVE  \/ q \in Registered'
                 \/ q \in queueClosed'
                 \/ \E u \in Tasks : todo'[u] # <<>> /\ Head(todo'[u]) = Discard(q)
      <4>1. owner[q] # None
        BY <1>1, <1>3, <3>1 DEF TypeOK
      <4>2. \A u \in Tasks : todo[u] # <<>> => todo'[u] = todo[u]
        BY <1>3, <1>7
      <4>3. QED
        BY <1>1, <1>3, <1>11, <4>1, <4>2 DEF Wound
    <3>2. QED
      BY <1>11, <3>1
  <2>3. \A q \in Sessions : owner'[q] # None =>
            \/ q \in sending'
            \/ peer'[q] \in {"closing", "closed"}
            \/ EndsWith(VideoTask(q), ClosePeer(q))'
    <3>1. \A q \in Sessions : EndsWith(VideoTask(q), ClosePeer(q)) =>
                                EndsWith(VideoTask(q), ClosePeer(q))'
      BY <1>7, TasksDistinct DEF EndsWith, VideoTask, ClosePeer
    <3>2. \A q \in Sessions : q # s /\ owner'[q] # None => owner[q] # None
      BY <1>1, <1>3 DEF TypeOK
    <3>3. QED
      BY <1>1, <1>3, <3>1, <3>2 DEF Wound
  <2>4. QED
    BY <2>1, <2>2, <2>3 DEF Wound, Discard, ClosePeer
<1>16. QED
  BY <1>7, <1>9, <1>10, <1>12, <1>13, <1>14, <1>15 DEF IInv

(* The page ends its session (signal_router.rs:101-117, room.rs:418-439).  *)
LEMMA TerminateSessionKeeps ==
    ASSUME IInv, NEW c \in Clients, TerminateSession(c)
    PROVE  IInv'
<1> DEFINE steps == <<Release(c), Remove(c, TRUE)>>
<1>1. TypeOK /\ Owned /\ Wound /\ Seated
  BY DEF IInv
<1>2. /\ todo[Router] = <<>>
      /\ asked' = asked \ {c}
      /\ todo' = [todo EXCEPT ![Router] = steps]
      /\ UNCHANGED <<sessions, sessionCount, owner, peer, queueClosed, sending,
                     slots, reported, refresh, covered, late>>
  BY DEF TerminateSession, RouterIdle, RouterRuns, sessionVars, playerVars, videoVars
<1>3. /\ steps \in Seq(LaterStep) /\ steps # <<>> /\ steps \in Seq(OwnedStep')
      /\ Head(steps) = Release(c) /\ steps[Len(steps)] = Remove(c, TRUE)
  <2> DEFINE a == Release(c)
             b == Remove(c, TRUE)
             S == LaterStep
             O == OwnedStep'
  <2>1. a \in S /\ b \in S
    BY StepsBuilt
  <2>2. a \in O /\ b \in O
    BY <2>1 DEF OwnedStep, LaterStep, Release, Remove, Step
  <2> HIDE DEF a, b, S, O
  <2>3. /\ <<a, b>> \in Seq(S) /\ <<a, b>> \in Seq(O) /\ <<a, b>> # <<>>
        /\ Head(<<a, b>>) = a /\ <<a, b>>[Len(<<a, b>>)] = b
    BY <2>1, <2>2
  <2>4. QED
    BY <2>3 DEF a, b, S, O
<1> HIDE DEF steps
<1>4. /\ todo' \in [Tasks -> Seq(Step)] /\ DiscardsFirst' /\ PeersOwned'
      /\ Discarding' = Discarding
      /\ \A u \in Tasks \ {Router} : todo'[u] = todo[u]
      /\ todo'[Router] = steps
      /\ EndsWith(Router, steps[Len(steps)])'
  BY <1>2, <1>3, TaskStarted, TasksDistinct
<1>5. \A q \in Sessions : todo'[VideoTask(q)] = todo[VideoTask(q)]
  BY <1>4, TasksDistinct
<1>6. TypeOK'
  BY <1>1, <1>2, <1>4 DEF TypeOK
<1>7. Owned'
  BY <1>1, <1>2, <1>5 DEF Owned, VideoTask
<1>8. Counted'
  BY <1>2, <1>4, CountKept DEF IInv
<1>9. Seated'
  <2>1. Players' = Players
    BY <1>2 DEF Players
  <2>2. \A d \in Players : d \in asked \cup late
    BY <1>1, <1>2 DEF Seated
  <2>3. todo'[Router] # <<>> /\ Head(todo'[Router]) = Release(c)
    BY <1>3, <1>4
  <2>4. QED
    BY <1>1, <1>2, <2>1, <2>2, <2>3 DEF Seated, Release, Router
<1>a. Registered' = Registered
  BY <1>2 DEF Registered
<1>10. NewSessionsGetRefresh'
  <2>1. Registered \subseteq covered \/ refresh
    BY <1>2 DEF IInv, NewSessionsGetRefresh
  <2>2. QED
    BY <1>2, <1>a, <2>1 DEF NewSessionsGetRefresh
<1>11. Wound'
  <2>1. \A d \in Clients : sessions'[d] # None =>
            d \in asked' \/ EndsWith(Router, Remove(d, TRUE))'
    BY <1>1, <1>2, <1>3, <1>4 DEF Wound, EndsWith
  <2>2. \A u \in Tasks : todo[u] # <<>> => todo'[u] = todo[u]
    BY <1>2, <1>4
  <2>3. \A q \in Sessions : owner'[q] # None =>
            \/ q \in Registered'
            \/ q \in queueClosed'
            \/ \E u \in Tasks : todo'[u] # <<>> /\ Head(todo'[u]) = Discard(q)
    BY <1>1, <1>2, <1>a, <2>2 DEF Wound
  <2>4. \A q \in Sessions : owner'[q] # None =>
            \/ q \in sending'
            \/ peer'[q] \in {"closing", "closed"}
            \/ EndsWith(VideoTask(q), ClosePeer(q))'
    <3>1. \A q \in Sessions : EndsWith(VideoTask(q), ClosePeer(q)) =>
                                EndsWith(VideoTask(q), ClosePeer(q))'
      BY <1>5 DEF EndsWith, VideoTask, ClosePeer
    <3>2. QED
      BY <1>1, <1>2, <3>1 DEF Wound
  <2>5. QED
    BY <2>1, <2>3, <2>4 DEF Wound, Discard, ClosePeer, Remove, Router
<1>12. QED
  BY <1>4, <1>6, <1>7, <1>8, <1>9, <1>10, <1>11 DEF IInv

(* The page's answer connects the peer (signal_router.rs:146-164).         *)
LEMMA AnswerKeeps ==
    ASSUME IInv, NEW c \in Viewers, Answer(c)
    PROVE  IInv'
<1> DEFINE s == sessions[c]
<1>1. TypeOK /\ Owned /\ Wound /\ c \in Clients
  BY DEF IInv, Clients
<1>2. /\ s # None /\ peer[s] = "new"
      /\ peer' = [peer EXCEPT ![s] = "connected"]
      /\ UNCHANGED <<asked, sessions, sessionCount, owner, queueClosed, sending,
                     slots, reported, refresh, covered, late, todo>>
  BY DEF Answer, playerVars, videoVars
<1>3. s \in Sessions /\ owner[s] = c /\ c # None
  BY <1>1, <1>2, NoneAssumption DEF TypeOK, Owned
<1>4. DiscardsFirst' /\ PeersOwned' /\ Discarding' = Discarding
  BY <1>2, TasksKept
<1> HIDE DEF s
<1>5. TypeOK'
  BY <1>1, <1>2 DEF TypeOK
<1>6. Owned'
  BY <1>1, <1>2, <1>3 DEF Owned, TypeOK, VideoTask
<1>7. Counted'
  BY <1>2, <1>4, CountKept DEF IInv
<1>8. Seated'
  <2>1. Players' = Players
    BY <1>2 DEF Players
  <2>2. QED
    BY <1>2, <2>1 DEF IInv, Seated, Release, Router
<1>9. Registered' = Registered
  BY <1>2 DEF Registered
<1>10. NewSessionsGetRefresh'
  BY <1>2, <1>9 DEF IInv, NewSessionsGetRefresh, Router, NoteRegistered
<1>11. Wound'
  <2>1. \A t : \A x : EndsWith(t, x)' <=> EndsWith(t, x)
    BY <1>2 DEF EndsWith
  <2>2. Tasks' = Tasks
    BY DEF Tasks, Router, VideoTask, StateTask
  <2>3. \A q \in Sessions : peer[q] \in {"closing", "closed"} => peer'[q] = peer[q]
    BY <1>1, <1>2, <1>3 DEF TypeOK
  <2>4. QED
    BY <1>1, <1>2, <1>9, <2>1, <2>2, <2>3
       DEF Wound, Router, VideoTask, StateTask, Remove, Discard, ClosePeer
<1>12. QED
  BY <1>4, <1>5, <1>6, <1>7, <1>8, <1>10, <1>11 DEF IInv

(* The state of a peer connection changes for the worse                    *)
(* (webrtc_session.rs:183-203).                                            *)
LEMMA StateChangesKeep ==
    ASSUME IInv, NEW s \in Sessions, PeerFails(s) \/ PeerCloses(s)
    PROVE  IInv'
<1> DEFINE x == Remove(owner[s], TRUE)
           t == StateTask(s)
<1>1. TypeOK /\ Owned /\ Wound /\ Seated
  BY DEF IInv
<1>2. /\ peer[s] # "new"
      /\ todo' = [todo EXCEPT ![t] = Append(@, x)]
      /\ UNCHANGED <<asked, sessions, sessionCount, owner, queueClosed, sending,
                     slots, reported, refresh, covered, late>>
  BY DEF PeerFails, PeerCloses, StateChanges, playerVars, videoVars
<1>3. /\ peer' \in [Sessions -> {"new", "connected", "failed", "closing", "closed"}]
      /\ \A q \in Sessions : /\ peer[q] \in {"closing", "closed"} =>
                                    peer'[q] \in {"closing", "closed"}
                             /\ peer'[q] # "new" => peer[q] # "new"
  BY <1>1 DEF PeerFails, PeerCloses, StateChanges, TypeOK
<1>4. owner[s] \in Clients /\ t \in Tasks
  BY <1>1, <1>2, TasksDistinct DEF Owned, TypeOK, Clients
<1>5. /\ <<x>> \in Seq(LaterStep) /\ <<x>> # <<>> /\ <<x>> \in Seq(OwnedStep')
      /\ Tail(<<x>>) = <<>> /\ <<x>>[Len(<<x>>)] = x /\ Head(<<x>>) = x
  <2>1. x \in LaterStep
    BY <1>4, StepsBuilt
  <2>2. x \in OwnedStep'
    BY <2>1 DEF OwnedStep, LaterStep, Remove, Step
  <2> HIDE DEF x
  <2>3. QED
    BY <2>1, <2>2
<1> HIDE DEF x
<1>6. todo' = [todo EXCEPT ![t] = @ \o <<x>>]
  <2>1. todo[t] \in Seq(Step)
    BY <1>1, <1>4 DEF TypeOK
  <2>2. Append(todo[t], x) = todo[t] \o <<x>>
    BY <2>1
  <2>3. QED
    BY <1>2, <2>2
<1>7. /\ todo' \in [Tasks -> Seq(Step)] /\ DiscardsFirst' /\ PeersOwned'
      /\ Discarding' = Discarding
      /\ \A u \in Tasks \ {t} : todo'[u] = todo[u]
      /\ todo[t] # <<>> => todo'[t] # <<>> /\ Head(todo'[t]) = Head(todo[t])
  <2> DEFINE steps == <<x>>
  <2>1. /\ steps \in Seq(LaterStep) /\ steps # <<>> /\ steps \in Seq(OwnedStep')
        /\ Tail(steps) = <<>>
        /\ todo' = [todo EXCEPT ![t] = @ \o steps]
        /\ \A q \in Sessions : owner[q] # None => owner'[q] # None
    BY <1>2, <1>5, <1>6
  <2> HIDE DEF steps, t
  <2>2. todo' \in [Tasks -> Seq(Step)] /\ DiscardsFirst' /\ PeersOwned'
    BY <1>4, <2>1, TasksExtended
  <2>3. Discarding' = Discarding
    BY <1>4, <2>1, TasksExtended
  <2>4. \A u \in Tasks \ {t} : todo'[u] = todo[u]
    BY <1>4, <2>1, TasksExtended
  <2>5. todo[t] # <<>> => todo'[t] # <<>> /\ Head(todo'[t]) = Head(todo[t])
    BY <1>4, <2>1, TasksExtended
  <2>6. QED
    BY <2>2, <2>3, <2>4, <2>5
<1>8. /\ todo'[Router] = todo[Router]
      /\ \A q \in Sessions : todo'[VideoTask(q)] = todo[VideoTask(q)]
      /\ \A u \in Tasks : todo[u] # <<>> => todo'[u] # <<>> /\ Head(todo'[u]) = Head(todo[u])
  BY <1>4, <1>7, TasksDistinct
<1>9. TypeOK'
  BY <1>1, <1>2, <1>3, <1>7 DEF TypeOK
<1>10. Owned'
  BY <1>1, <1>2, <1>3, <1>8 DEF Owned, VideoTask
<1>11. Counted'
  BY <1>2, <1>7, CountKept DEF IInv
<1>12. Seated'
  <2>1. Players' = Players
    BY <1>2 DEF Players
  <2>2. QED
    BY <1>1, <1>2, <1>8, <2>1 DEF Seated, Release, Router
<1>13. Registered' = Registered
  BY <1>2 DEF Registered
<1>14. NewSessionsGetRefresh'
  BY <1>2, <1>8, <1>13 DEF IInv, NewSessionsGetRefresh, Router, NoteRegistered
<1>15. Wound'
  <2>1. \A q \in Sessions : /\ \A y : EndsWith(VideoTask(q), y)' <=> EndsWith(VideoTask(q), y)
                            /\ \A y : EndsWith(Router, y)' <=> EndsWith(Router, y)
    BY <1>8 DEF EndsWith, Router, VideoTask
  <2>a. \A y : EndsWith(Router, y)' <=> EndsWith(Router, y)
    BY <1>8 DEF EndsWith, Router
  <2>2. \A d \in Clients : sessions'[d] # None =>
            d \in asked' \/ EndsWith(Router, Remove(d, TRUE))'
    BY <1>1, <1>2, <2>a DEF Wound
  <2>3. \A q \in Sessions : owner'[q] # None =>
            \/ q \in Registered'
            \/ q \in queueClosed'
            \/ \E u \in Tasks : todo'[u] # <<>> /\ Head(todo'[u]) = Discard(q)
    BY <1>1, <1>2, <1>8, <1>13 DEF Wound
  <2>4. \A q \in Sessions : owner'[q] # None =>
            \/ q \in sending'
            \/ peer'[q] \in {"closing", "closed"}
            \/ EndsWith(VideoTask(q), ClosePeer(q))'
    BY <1>1, <1>2, <1>3, <2>1 DEF Wound
  <2>5. QED
    BY <2>2, <2>3, <2>4 DEF Wound, Discard, ClosePeer, Remove, Router
<1>16. QED
  BY <1>7, <1>9, <1>10, <1>11, <1>12, <1>14, <1>15 DEF IInv

(* The sender task of a session ends (webrtc_session.rs:289-312).          *)
LEMMA VideoEndsKeeps ==
    ASSUME IInv, NEW s \in Sessions, VideoEnds(s)
    PROVE  IInv'
<1> DEFINE a == Remove(owner[s], FALSE)
           b == ClosePeer(s)
           steps == <<a, b>>
           t == VideoTask(s)
<1>1. TypeOK /\ Owned /\ Wound /\ Seated
  BY DEF IInv
<1>2. /\ s \in sending
      /\ sending' = sending \ {s}
      /\ queueClosed' = queueClosed \cup {s}
      /\ todo' = [todo EXCEPT ![t] = steps]
      /\ UNCHANGED <<asked, sessions, sessionCount, owner, peer, slots, reported,
                     refresh, covered, late>>
  BY DEF VideoEnds, playerVars, videoVars
<1>3. owner[s] \in Clients /\ owner[s] # None /\ t \in Tasks /\ todo[t] = <<>>
  BY <1>1, <1>2, TasksDistinct DEF Owned, TypeOK, Clients
<1>4. /\ steps \in Seq(LaterStep) /\ steps # <<>> /\ steps \in Seq(OwnedStep')
      /\ steps[Len(steps)] = b
  <2> DEFINE S == LaterStep
             O == OwnedStep'
  <2>1. a \in S /\ b \in S
    BY <1>3, StepsBuilt
  <2>2. a \in O /\ b \in O
    BY <1>2, <1>3, <2>1 DEF OwnedStep, LaterStep, Remove, ClosePeer, Step
  <2> HIDE DEF a, b, S, O
  <2>3. <<a, b>> \in Seq(S) /\ <<a, b>> \in Seq(O) /\ <<a, b>> # <<>>
        /\ <<a, b>>[Len(<<a, b>>)] = b
    BY <2>1, <2>2
  <2>4. QED
    BY <2>3 DEF S, O
<1> HIDE DEF a, b, steps
<1>5. /\ todo' \in [Tasks -> Seq(Step)] /\ DiscardsFirst' /\ PeersOwned'
      /\ Discarding' = Discarding
      /\ \A u \in Tasks \ {t} : todo'[u] = todo[u]
      /\ todo'[t] = steps
  <2> HIDE DEF t
  <2>1. \A q \in Sessions : owner[q] # None => owner'[q] # None
    BY <1>2
  <2>2. todo' \in [Tasks -> Seq(Step)] /\ DiscardsFirst' /\ PeersOwned'
    BY <1>2, <1>3, <1>4, <2>1, TaskStarted
  <2>3. Discarding' = Discarding
    BY <1>2, <1>3, <1>4, <2>1, TaskStarted
  <2>4. \A u \in Tasks \ {t} : todo'[u] = todo[u]
    BY <1>2, <1>3, <1>4, <2>1, TaskStarted
  <2>5. todo'[t] = steps
    BY <1>2, <1>3, <1>4, <2>1, TaskStarted
  <2>6. QED
    BY <2>2, <2>3, <2>4, <2>5
<1>6. /\ todo'[Router] = todo[Router]
      /\ \A q \in Sessions \ {s} : todo'[VideoTask(q)] = todo[VideoTask(q)]
      /\ \A u \in Tasks : todo[u] # <<>> => todo'[u] = todo[u]
  BY <1>3, <1>5, TasksDistinct
<1>7. TypeOK'
  BY <1>1, <1>2, <1>5 DEF TypeOK
<1>8. Owned'
  BY <1>1, <1>2, <1>3, <1>6 DEF Owned, VideoTask
<1>9. Counted'
  BY <1>2, <1>5, CountKept DEF IInv
<1>10. Seated'
  <2>1. Players' = Players
    BY <1>2 DEF Players
  <2>2. QED
    BY <1>1, <1>2, <1>6, <2>1 DEF Seated, Release, Router
<1>11. Registered' = Registered
  BY <1>2 DEF Registered
<1>12. NewSessionsGetRefresh'
  BY <1>2, <1>6, <1>11 DEF IInv, NewSessionsGetRefresh, Router, NoteRegistered
<1>13. Wound'
  <2>1. \A y : EndsWith(Router, y)' <=> EndsWith(Router, y)
    BY <1>6 DEF EndsWith, Router
  <2>2. \A d \in Clients : sessions'[d] # None =>
            d \in asked' \/ EndsWith(Router, Remove(d, TRUE))'
    BY <1>1, <1>2, <2>1 DEF Wound
  <2>3. \A q \in Sessions : owner'[q] # None =>
            \/ q \in Registered'
            \/ q \in queueClosed'
            \/ \E u \in Tasks : todo'[u] # <<>> /\ Head(todo'[u]) = Discard(q)
    BY <1>1, <1>2, <1>6, <1>11 DEF Wound
  <2>4. \A q \in Sessions \ {s} :
            EndsWith(VideoTask(q), ClosePeer(q)) => EndsWith(VideoTask(q), ClosePeer(q))'
    BY <1>6 DEF EndsWith, VideoTask, ClosePeer
  <2>5. EndsWith(VideoTask(s), ClosePeer(s))'
    BY <1>4, <1>5 DEF EndsWith, VideoTask, ClosePeer, b, t
  <2>6. \A q \in Sessions : owner'[q] # None =>
            \/ q \in sending'
            \/ peer'[q] \in {"closing", "closed"}
            \/ EndsWith(VideoTask(q), ClosePeer(q))'
    BY <1>1, <1>2, <2>4, <2>5 DEF Wound
  <2>7. QED
    BY <2>2, <2>3, <2>6 DEF Wound, Discard, ClosePeer, Remove, Router
<1>14. QED
  BY <1>5, <1>7, <1>8, <1>9, <1>10, <1>12, <1>13 DEF IInv

(* The frame sender takes the request (room.rs:107-117, 301-303).          *)
LEMMA TakeUpdateKeeps ==
    ASSUME IInv, TakeUpdate
    PROVE  IInv'
<1>1. TypeOK /\ Owned /\ Wound /\ Seated
  BY DEF IInv
<1>2. /\ refresh' = FALSE /\ covered' = Registered
      /\ UNCHANGED <<asked, sessions, sessionCount, owner, peer, queueClosed, sending,
                     slots, reported, late, todo>>
  BY DEF TakeUpdate, sessionVars, playerVars, Registered
<1>3. DiscardsFirst' /\ PeersOwned' /\ Discarding' = Discarding
  BY <1>2, TasksKept
<1>4. Registered' = Registered
  BY <1>2 DEF Registered
<1>5. TypeOK'
  BY <1>1, <1>2 DEF TypeOK, Registered
<1>6. Owned'
  BY <1>1, <1>2 DEF Owned, VideoTask
<1>7. Counted'
  BY <1>2, <1>3, CountKept DEF IInv
<1>8. Seated'
  <2>1. Players' = Players
    BY <1>2 DEF Players
  <2>2. QED
    BY <1>1, <1>2, <2>1 DEF Seated, Release, Router
<1>9. NewSessionsGetRefresh'
  BY <1>2, <1>4 DEF NewSessionsGetRefresh
<1>10. Wound'
  <2>1. \A t : \A x : EndsWith(t, x)' <=> EndsWith(t, x)
    BY <1>2 DEF EndsWith
  <2>2. Tasks' = Tasks
    BY DEF Tasks, Router, VideoTask, StateTask
  <2>3. QED
    BY <1>1, <1>2, <1>4, <2>1, <2>2
       DEF Wound, Router, VideoTask, StateTask, Remove, Discard, ClosePeer
<1>11. QED
  BY <1>3, <1>5, <1>6, <1>7, <1>8, <1>9, <1>10 DEF IInv

-----------------------------------------------------------------------------
LEMMA IInvInit == Init => IInv
<1> SUFFICES ASSUME Init PROVE IInv
  OBVIOUS
<1>1. /\ sessions = [c \in Clients |-> None] /\ sessionCount = 0
      /\ \A s \in Sessions : owner[s] = None /\ peer[s] = "new"
      /\ sending = {} /\ queueClosed = {}
      /\ \A i \in Slots : slots[i] = None
      /\ \A t \in Tasks : todo[t] = <<>>
  BY DEF Init
<1>2. Registered = {} /\ Players = {} /\ Discarding = {}
  BY <1>1 DEF Registered, Players, Discarding, NextIs
<1>3. TypeOK
  <2>1. todo \in [Tasks -> Seq(Step)]
    BY DEF Init
  <2>2. reported \in 0..MaxPlayers
    BY PlayersAssumption DEF Init
  <2>3. QED
    BY <2>1, <2>2 DEF Init, TypeOK
<1>4. DiscardsFirst
  BY <1>1 DEF DiscardsFirst
<1>5. Owned
  BY <1>1, TasksDistinct DEF Owned
<1>6. PeersOwned
  <2> DEFINE S == OwnedStep
  <2> HIDE DEF S
  <2>1. ASSUME NEW z, z = <<>>
        PROVE  z \in Seq(S)
    BY <2>1
  <2>2. \A t \in Tasks : todo[t] \in Seq(S)
    BY <1>1, <2>1
  <2>3. QED
    BY <2>2 DEF PeersOwned, S
<1>7. Counted
  BY <1>1, <1>2, FS_EmptySet DEF Counted
<1>8. Seated
  BY <1>1, <1>2 DEF Seated
<1>9. NewSessionsGetRefresh
  BY <1>2 DEF NewSessionsGetRefresh
<1>10. Wound
  BY <1>1 DEF Wound
<1>11. QED
  BY <1>3, <1>4, <1>5, <1>6, <1>7, <1>8, <1>9, <1>10 DEF IInv

LEMMA IInvKept == IInv /\ [Next]_vars => IInv'
<1> SUFFICES ASSUME IInv, [Next]_vars PROVE IInv'
  OBVIOUS
<1>1. ASSUME NEW t \in Tasks, Proceed(t) PROVE IInv'
  BY <1>1, RemoveKeeps, DiscardKeeps, ReleaseKeeps, ReadCountKeeps, SendCountKeeps,
     ClosePeerKeeps, NoteRegisteredKeeps DEF Proceed
<1>2. ASSUME NEW c \in Viewers, NEW s \in Sessions, InitWebrtc(c, s) PROVE IInv'
  BY <1>2, InitWebrtcKeeps
<1>3. ASSUME NEW c \in Viewers, Answer(c) PROVE IInv'
  BY <1>3, AnswerKeeps
<1>4. ASSUME NEW c \in Clients, TerminateSession(c) PROVE IInv'
  BY <1>4, TerminateSessionKeeps
<1>5. ASSUME NEW c \in Clients, Input(c) PROVE IInv'
  BY <1>5, JoinKeeps DEF Input, IInv, TypeOK
<1>6. ASSUME NEW p \in Phones, JoinRoom(p) PROVE IInv'
  <2>1. p \in Clients /\ asked \subseteq Clients /\ late \subseteq Clients
    BY DEF Clients, IInv, TypeOK
  <2>2. /\ Join(p) /\ UNCHANGED <<sessionVars, todo>>
        /\ asked' = asked \cup {p} /\ late' = late
    BY <1>6 DEF JoinRoom
  <2>3. QED
    BY <2>1, <2>2, JoinKeeps
<1>7. ASSUME NEW s \in Sessions, ChannelInput(s) PROVE IInv'
  <2>1. owner[s] \in Clients /\ asked \subseteq Clients /\ late \subseteq Clients
    BY <1>7 DEF ChannelInput, IInv, TypeOK, Clients
  <2>2. /\ Join(owner[s]) /\ UNCHANGED <<sessionVars, todo>>
        /\ asked' = asked /\ late' = late \cup ({owner[s]} \ asked)
    BY <1>7 DEF ChannelInput
  <2>3. QED
    BY <2>1, <2>2, JoinKeeps
<1>8. ASSUME NEW s \in Sessions, PeerFails(s) \/ PeerCloses(s) PROVE IInv'
  BY <1>8, StateChangesKeep
<1>9. ASSUME NEW s \in Sessions, VideoEnds(s) PROVE IInv'
  BY <1>9, VideoEndsKeeps
<1>10. ASSUME TakeUpdate PROVE IInv'
  BY <1>10, TakeUpdateKeeps
<1>11. ASSUME UNCHANGED vars PROVE IInv'
  <2>1. UNCHANGED <<asked, sessions, sessionCount, owner, peer, queueClosed, sending,
                    slots, reported, refresh, covered, late, todo>>
    BY <1>11 DEF vars
  <2>2. DiscardsFirst' /\ PeersOwned' /\ Discarding' = Discarding
    BY <2>1, TasksKept
  <2>3. Registered' = Registered /\ Players' = Players
    BY <2>1 DEF Registered, Players
  <2>4. TypeOK' /\ Owned'
    BY <2>1 DEF IInv, TypeOK, Owned, VideoTask
  <2>5. Counted'
    BY <2>1, <2>2, CountKept DEF IInv
  <2>6. Seated'
    BY <2>1, <2>3 DEF IInv, Seated, Release, Router
  <2>7. NewSessionsGetRefresh'
    BY <2>1, <2>3 DEF IInv, NewSessionsGetRefresh, Router, NoteRegistered
  <2>8. Wound'
    <3>1. \A t : \A x : EndsWith(t, x)' <=> EndsWith(t, x)
      BY <2>1 DEF EndsWith
    <3>2. Tasks' = Tasks
      BY DEF Tasks, Router, VideoTask, StateTask
    <3>3. Wound
      BY DEF IInv
    <3>4. QED
      BY <2>1, <2>3, <3>1, <3>2, <3>3
         DEF Wound, Router, VideoTask, StateTask, Remove, Discard, ClosePeer
  <2>9. QED
    BY <2>2, <2>4, <2>5, <2>6, <2>7, <2>8 DEF IInv
<1>12. QED
  BY <1>1, <1>2, <1>3, <1>4, <1>5, <1>6, <1>7, <1>8, <1>9, <1>10, <1>11 DEF Next

LEMMA IInvHolds == Spec => []IInv
  BY IInvInit, IInvKept, PTL DEF Spec

(* Every variable of the room keeps its type: no count is out of range and *)
(* no slot or session belongs to somebody unknown (room.rs:264-287).       *)
THEOREM TypeCorrect == Spec => []TypeOK
<1>1. IInv => TypeOK
  BY DEF IInv
<1>2. QED
  BY <1>1, IInvHolds, PTL

(* The session counter is the number of sessions plus that of teardowns    *)
(* under way, and does not underflow (room.rs:339, 382-390).               *)
THEOREM CountIsRight == Spec => []SessionCountIsRight
<1>1. ASSUME IInv PROVE SessionCountIsRight
  <2>1. ASSUME NEW t \in Tasks
        PROVE  t \in Pending("discard") <=> t \in Discarding
    <3>1. todo[t] \in Seq(Step)
      BY <1>1 DEF IInv, TypeOK
    <3>2. CASE todo[t] = <<>>
      BY <3>2 DEF Pending, Discarding, NextIs
    <3>3. CASE todo[t] # <<>>
      <4>1. Tail(todo[t]) \in Seq(LaterStep)
        BY <1>1, <3>3 DEF IInv, DiscardsFirst
      <4>2. ASSUME NEW i \in DOMAIN todo[t], i # 1
            PROVE  todo[t][i].op # "discard"
        <5>1. /\ i - 1 \in 1..Len(Tail(todo[t]))
              /\ Tail(todo[t])[i - 1] = todo[t][i]
          BY <3>1, <3>3, <4>2
        <5>2. Tail(todo[t])[i - 1] \in LaterStep
          BY <4>1, <5>1
        <5>3. QED
          BY <5>1, <5>2 DEF LaterStep
      <4>3. 1 \in DOMAIN todo[t] /\ Head(todo[t]) = todo[t][1]
        BY <3>1, <3>3
      <4>4. QED
        BY <3>3, <4>2, <4>3 DEF Pending, Discarding, NextIs
    <3>4. QED
      BY <3>2, <3>3
  <2>2. Pending("discard") = Discarding
    BY <2>1 DEF Pending, Discarding
  <2>3. QED
    BY <1>1, <2>2 DEF IInv, Counted, SessionCountIsRight
<1>2. QED
  BY <1>1, IInvHolds, PTL

(* No client plays twice, and between teardowns a slot is held by a client *)
(* that asked for it, or whose input channel spoke after its session ended *)
(* (room.rs:358-440, signal_router.rs:101-117).                            *)
THEOREM SlotsAreOfPlayers == Spec => []SlotsBelongToPlayers
<1>1. ASSUME IInv PROVE SlotsBelongToPlayers
  BY <1>1, TasksDistinct DEF IInv, Seated, SlotsBelongToPlayers, Quiet
<1>2. QED
  BY <1>1, IInvHolds, PTL

(* A new viewer is never left without a keyframe: a request made after its *)
(* session was registered stands until the frame sender takes it           *)
(* (room.rs:77-117, webrtc_session.rs:315-337).                            *)
THEOREM ViewersGetRefresh == Spec => []NewSessionsGetRefresh
<1>1. IInv => NewSessionsGetRefresh
  BY DEF IInv
<1>2. QED
  BY <1>1, IInvHolds, PTL

(* A session that was taken from the table has its queue closed and its    *)
(* peer closed or closing between teardowns, however many of them overlap, *)
(* but for a peer whose own sender task, told by the closed queue, is the  *)
(* one to close it (room.rs:382-416, webrtc_session.rs:183-202, 308-311).  *)
THEOREM SessionsAreClosed == Spec => []RemovedSessionsAreClosed
<1>1. ASSUME IInv, Quiet, NEW s \in Sessions, Removed(s)
      PROVE  s \in queueClosed /\ (PeerIsClosed(s) \/ s \in sending)
  <2>1. owner[s] # None /\ s \notin Registered /\ Wound
    BY <1>1 DEF Removed, IInv
  <2>2. s \in queueClosed
    BY <1>1, <2>1 DEF Wound, Quiet
  <2>3. s \in sending \/ peer[s] \in {"closing", "closed"}
    BY <1>1, <2>1, TasksDistinct DEF Wound, Quiet, EndsWith
  <2>4. QED
    BY <2>2, <2>3 DEF PeerIsClosed
<1>2. IInv => RemovedSessionsAreClosed
  BY <1>1 DEF RemovedSessionsAreClosed
<1>3. QED
  BY <1>2, IInvHolds, PTL
=============================================================================
