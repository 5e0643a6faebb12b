---------------------------- MODULE SignalsProofs ----------------------------
(***************************************************************************)
(* Signals: type correctness, and that the attempts of a page do not mix.  *)
(*                                                                         *)
(* A signal names no attempt, so the router can only go by the order in    *)
(* which messages reach it. The invariant states that order (InOrder), and *)
(* what it makes of the router's state (RouterInOrder): the session and    *)
(* the signals that are kept belong to the attempt the router has been     *)
(* asked for and not been told the end of, and there is none of them       *)
(* between two attempts.                                                   *)
(***************************************************************************)
EXTENDS Signals, SequenceTheorems, TLAPS

(* After the end of an attempt comes the request of the next one, after    *)
(* anything else more of the same attempt.                                 *)
Follows(m, n) ==
    IF m.id = "terminateSession"
    THEN n.id = "initwebrtc"
    ELSE n.id # "initwebrtc" /\ n.attempt = m.attempt

Last(messages) == messages[Len(messages)]

InOrder ==
    /\ \A i \in 1..(Len(toWorker) - 1) : Follows(toWorker[i], toWorker[i + 1])
    /\ toWorker # <<>> =>
           /\ Last(toWorker).attempt = attempt
           /\ Last(toWorker).id = "terminateSession" <=> ~shown
    /\ shown => attempt # None

(* The attempt the router serves when it has read what it has read.        *)
Served ==
    IF toWorker = <<>> THEN IF shown THEN attempt ELSE None
    ELSE IF Head(toWorker).id = "initwebrtc" THEN None
    ELSE Head(toWorker).attempt

RouterInOrder ==
    /\ session \in {None, Served}
    /\ \A i \in DOMAIN pending : pending[i].attempt = Served

SInv == TypeOK /\ InOrder /\ RouterInOrder /\ AttemptsDoNotMix
-----------------------------------------------------------------------------
(* A peer to which nothing is applied stays as it is.                      *)
LEMMA AfterNoSignals == ASSUME NEW p PROVE AfterSignals(p, <<>>) = p
<1> DEFINE Def(f) == [n \in 0..0 |-> IF n = 0 THEN p ELSE Applied(f[n - 1], <<>>[n])]
           after == CHOOSE f : f = Def(f)
<1>1. after = Def(after)
  <2>1. [n \in 0..0 |-> p] = Def([n \in 0..0 |-> p])
    OBVIOUS
  <2> HIDE DEF Def
  <2>2. QED
    BY <2>1
<1>2. after[0] = p
  BY <1>1
<1> HIDE DEF Def
<1>3. AfterSignals(p, <<>>) = after[0]
  BY DEF AfterSignals, Def
<1>4. QED
  BY <1>2, <1>3

(* To apply one signal is what Applied says.                               *)
LEMMA AfterOneSignal == ASSUME NEW p, NEW m PROVE AfterSignals(p, <<m>>) = Applied(p, m)
<1> DEFINE Def(f) == [n \in 0..1 |-> IF n = 0 THEN p ELSE Applied(f[n - 1], <<m>>[n])]
           after == CHOOSE f : f = Def(f)
           two == [n \in 0..1 |-> IF n = 0 THEN p ELSE Applied(p, m)]
<1>1. after = Def(after)
  <2>1. two = Def(two)
    <3>1. \A n \in 0..1 : two[n] = Def(two)[n]
      <4>1. two[0] = Def(two)[0]
        OBVIOUS
      <4>2. two[1] = Def(two)[1]
        OBVIOUS
      <4>3. QED
        BY <4>1, <4>2
    <3>2. QED
      BY <3>1
  <2> HIDE DEF Def
  <2>2. QED
    BY <2>1
<1>2. after[0] = p /\ after[1] = Applied(after[0], m)
  <2> HIDE DEF after
  <2>1. after[1] = Applied(after[1 - 1], <<m>>[1])
    BY <1>1
  <2>2. 1 - 1 = 0 /\ <<m>>[1] = m
    OBVIOUS
  <2>3. QED
    BY <1>1, <2>1, <2>2
<1> HIDE DEF Def
<1>3. AfterSignals(p, <<m>>) = after[1]
  BY DEF AfterSignals, Def
<1>4. QED
  BY <1>2, <1>3

(* A peer's description is a signal or none, and stays what it is once it  *)
(* is there; its candidates are signals (webrtc_session.rs:49-75).         *)
LEMMA AppliedFits ==
    ASSUME NEW p \in [answer : {<<>>} \cup SignalMessage, ice : SUBSET SignalMessage],
           NEW m \in SignalMessage
    PROVE  /\ Applied(p, m).answer \in {p.answer, m}
           /\ Applied(p, m).ice \in SUBSET (p.ice \cup {m})
  BY DEF Applied

(* Handling a signal gives it to the session's peer, to no other.          *)
LEMMA ApplyOneFits ==
    ASSUME TypeOK, NEW k \in Attempts, NEW m \in SignalMessage, Apply(k, <<m>>)
    PROVE  /\ answer' \in [Attempts -> {<<>>} \cup SignalMessage]
           /\ ice' \in [Attempts -> SUBSET SignalMessage]
           /\ \A j \in Attempts :
                /\ answer'[j] = answer[j] \/ (j = k /\ answer'[j] = m)
                /\ ice'[j] = ice[j] \/ (j = k /\ ice'[j] \subseteq ice[j] \cup {m})
<1> DEFINE p == [answer |-> answer[k], ice |-> ice[k]]
           q == Applied(p, m)
<1>1. p \in [answer : {<<>>} \cup SignalMessage, ice : SUBSET SignalMessage]
  BY DEF TypeOK
<1>2. q.answer \in {answer[k], m} /\ q.ice \in SUBSET (ice[k] \cup {m})
  BY <1>1, AppliedFits
<1>3. /\ answer' = [answer EXCEPT ![k] = q.answer]
      /\ ice' = [ice EXCEPT ![k] = q.ice]
  <2> HIDE DEF q
  <2>1. AfterSignals(p, <<m>>) = q
    BY AfterOneSignal DEF q
  <2>2. QED
    BY <2>1 DEF Apply
<1> HIDE DEF p, q
<1>4. QED
  BY <1>2, <1>3 DEF TypeOK

(* A replay of nothing changes no peer (signal_router.rs:119-134).         *)
LEMMA ApplyNothing ==
    ASSUME TypeOK, NEW k \in Attempts, Apply(k, <<>>)
    PROVE  UNCHANGED <<answer, ice>>
  BY AfterNoSignals DEF Apply, TypeOK

(* A message that follows the last one continues the order.                *)
LEMMA Sent ==
    ASSUME TypeOK, InOrder, NEW m, toWorker' = Append(toWorker, m),
           toWorker # <<>> => Follows(Last(toWorker), m)
    PROVE  /\ \A i \in 1..(Len(toWorker') - 1) : Follows(toWorker'[i], toWorker'[i + 1])
           /\ toWorker' # <<>> /\ Last(toWorker)' = m
           /\ toWorker # <<>> => Head(toWorker') = Head(toWorker)
           /\ toWorker = <<>> => Head(toWorker') = m
<1>1. toWorker \in Seq(SignalMessage \cup RequestMessage)
  BY DEF TypeOK
<1> DEFINE old == toWorker
           new == toWorker'
<1>2. /\ Len(new) = Len(old) + 1 /\ Len(old) \in Nat
      /\ new[Len(old) + 1] = m /\ \A i \in 1..Len(old) : new[i] = old[i]
  BY <1>1
<1>3. old = <<>> <=> Len(old) = 0
  BY <1>1
<1>4. /\ new # <<>> /\ Head(new) = new[1]
      /\ old # <<>> => Head(old) = old[1]
  BY <1>1, <1>2
<1>5. \A i \in 1..(Len(new) - 1) : Follows(new[i], new[i + 1])
  <2> SUFFICES ASSUME NEW i \in 1..(Len(new) - 1) PROVE Follows(new[i], new[i + 1])
    OBVIOUS
  <2>1. CASE i = Len(old)
    BY <1>2, <1>3, <2>1 DEF Last
  <2>2. CASE i # Len(old)
    <3>1. i \in 1..(Len(old) - 1) /\ i + 1 \in 1..Len(old)
      BY <1>2, <2>2
    <3>2. QED
      BY <1>2, <3>1 DEF InOrder
  <2>3. QED
    BY <2>1, <2>2
<1> HIDE DEF old, new
<1>6. QED
  BY <1>2, <1>3, <1>4, <1>5 DEF old, new, Last

(* What is left when a message is taken from the front is still in order.  *)
LEMMA Read ==
    ASSUME TypeOK, InOrder, toWorker # <<>>, toWorker' = Tail(toWorker),
           UNCHANGED <<attempt, shown>>
    PROVE  /\ InOrder'
           /\ toWorker' \in Seq(SignalMessage \cup RequestMessage)
           /\ toWorker' # <<>> => Follows(Head(toWorker), Head(toWorker'))
           /\ toWorker' = <<>> =>
                /\ Head(toWorker).attempt = attempt
                /\ Head(toWorker).id = "terminateSession" <=> ~shown
<1>1. toWorker \in Seq(SignalMessage \cup RequestMessage)
  BY DEF TypeOK
<1> DEFINE old == toWorker
           new == toWorker'
<1>2. /\ new \in Seq(SignalMessage \cup RequestMessage)
      /\ Len(old) = Len(new) + 1 /\ Len(new) \in Nat
      /\ \A i \in 1..Len(new) : new[i] = old[i + 1]
      /\ Head(old) = old[1]
      /\ new = <<>> <=> Len(new) = 0
      /\ new # <<>> => Head(new) = new[1]
  <2>1. /\ Len(old) \in Nat \ {0} /\ new = Tail(old) /\ Head(old) = old[1]
        /\ new \in Seq(SignalMessage \cup RequestMessage)
    BY <1>1
  <2>2. Len(new) = Len(old) - 1 /\ \A i \in 1..Len(new) : new[i] = old[i + 1]
    BY <1>1, <2>1
  <2> HIDE DEF new
  <2>3. new = <<>> <=> Len(new) = 0
    BY <2>1, EmptySeq
  <2>4. QED
    BY <2>1, <2>2, <2>3
<1>3. \A i \in 1..(Len(new) - 1) : Follows(new[i], new[i + 1])
  <2> SUFFICES ASSUME NEW i \in 1..(Len(new) - 1) PROVE Follows(new[i], new[i + 1])
    OBVIOUS
  <2>1. /\ i + 1 \in 1..(Len(old) - 1) /\ i \in 1..Len(new) /\ i + 1 \in 1..Len(new)
    BY <1>2
  <2>2. QED
    BY <1>2, <2>1 DEF InOrder
<1>4. new # <<>> => Last(new) = Last(old)
  BY <1>2 DEF Last
<1>5. new = <<>> => Last(old) = Head(old)
  BY <1>2 DEF Last
<1>6. new # <<>> => Follows(Head(old), Head(new))
  BY <1>2 DEF InOrder
<1> HIDE DEF old, new
<1>7. InOrder'
  BY <1>3, <1>4 DEF InOrder, old, new
<1>8. QED
  BY <1>2, <1>5, <1>6, <1>7 DEF InOrder, old, new

-----------------------------------------------------------------------------
(* What the page sends continues the order, and does not change which      *)
(* attempt the router serves.                                              *)
LEMMA SendingKeepsOrder ==
    ASSUME TypeOK, InOrder, RouterInOrder, NEW m, toWorker' = Append(toWorker, m),
           m.attempt = attempt', attempt' # None,
           IF shown THEN attempt' = attempt /\ m.id # "initwebrtc"
                    ELSE m.id = "initwebrtc",
           m.id = "terminateSession" <=> ~shown',
           UNCHANGED <<session, pending>>
    PROVE  InOrder' /\ RouterInOrder'
<1>1. toWorker # <<>> => Follows(Last(toWorker), m)
  BY DEF InOrder, Follows
<1>2. /\ \A i \in 1..(Len(toWorker') - 1) : Follows(toWorker'[i], toWorker'[i + 1])
      /\ toWorker' # <<>> /\ Last(toWorker)' = m
      /\ toWorker # <<>> => Head(toWorker') = Head(toWorker)
      /\ toWorker = <<>> => Head(toWorker') = m
  BY <1>1, Sent
<1>3. InOrder'
  BY <1>2 DEF InOrder
<1>4. Served' = Served
  BY <1>2 DEF Served
<1>5. QED
  BY <1>3, <1>4 DEF RouterInOrder

(* The request of an attempt and its signals tell the router that it       *)
(* serves that attempt, the end of one that it serves none.                *)
LEMMA ReadingTellsAttempt ==
    ASSUME TypeOK, InOrder, toWorker # <<>>, toWorker' = Tail(toWorker),
           UNCHANGED <<attempt, shown>>
    PROVE  /\ Head(toWorker).id = "terminateSession" => Served' = None
           /\ Head(toWorker).id # "terminateSession" => Served' = Head(toWorker).attempt
           /\ Head(toWorker).id = "initwebrtc" => Served = None
           /\ Head(toWorker).id # "initwebrtc" => Served = Head(toWorker).attempt
<1>1. /\ toWorker' # <<>> => Follows(Head(toWorker), Head(toWorker'))
      /\ toWorker' = <<>> =>
           /\ Head(toWorker).attempt = attempt
           /\ Head(toWorker).id = "terminateSession" <=> ~shown
  BY Read
<1>2. QED
  BY <1>1 DEF Served, Follows

(* The router's next message is a request or a signal, by its id.          *)
LEMMA HeadFits ==
    ASSUME TypeOK, toWorker # <<>>
    PROVE  /\ Head(toWorker) \in SignalMessage \cup RequestMessage
           /\ NextIs("answer") \/ NextIs("candidate") => Head(toWorker) \in SignalMessage
           /\ Head(toWorker).attempt \in Attempts
           /\ Tail(toWorker) \in Seq(SignalMessage \cup RequestMessage)
  BY DEF TypeOK, NextIs, SignalMessage, RequestMessage

(* No request finds a session or a kept signal of an earlier attempt.      *)
LEMMA RequestFindsNothing ==
    ASSUME TypeOK, InOrder, RouterInOrder, NextIs("initwebrtc")
    PROVE  session = None /\ pending = <<>>
<1>1. Served = None
  BY DEF NextIs, Served
<1>2. pending \in Seq(SignalMessage) /\ DOMAIN pending = 1..Len(pending) /\ Len(pending) \in Nat
  BY DEF TypeOK
<1>3. Len(pending) = 0
  <2> SUFFICES ASSUME Len(pending) # 0 PROVE FALSE
    OBVIOUS
  <2>1. 1 \in DOMAIN pending /\ pending[1] \in SignalMessage
    BY <1>2
  <2>2. pending[1].attempt \in Attempts
    BY <2>1 DEF SignalMessage
  <2>3. pending[1].attempt # None
    BY <2>2, BoundsAssumption DEF Attempts, None
  <2>4. QED
    BY <1>1, <2>1, <2>3 DEF RouterInOrder
<1>4. QED
  BY <1>1, <1>3, EmptySeq DEF RouterInOrder, TypeOK

(* A signal that is kept is one of the attempt that is served.             *)
LEMMA EnqueuedFits ==
    ASSUME TypeOK, RouterInOrder, NEW m \in SignalMessage, m.attempt = Served
    PROVE  /\ Enqueued(m) \in Seq(SignalMessage) /\ Len(Enqueued(m)) <= MaxPending
           /\ \A i \in DOMAIN Enqueued(m) : Enqueued(m)[i].attempt = Served
<1>1. /\ pending \in Seq(SignalMessage) /\ Len(pending) \in Nat
      /\ Len(pending) <= MaxPending /\ MaxPending \in Nat \ {0}
      /\ \A i \in 1..Len(pending) : pending[i].attempt = Served
  BY BoundsAssumption DEF TypeOK, RouterInOrder
<1> DEFINE kept == IF Len(pending) >= MaxPending THEN Tail(pending) ELSE pending
<1>2. /\ kept \in Seq(SignalMessage) /\ Len(kept) + 1 <= MaxPending
      /\ \A i \in 1..Len(kept) : kept[i].attempt = Served
  <2>1. CASE Len(pending) >= MaxPending
    <3>1. pending # <<>> /\ Len(pending) # 0
      BY <1>1, <2>1
    <3>2. /\ Tail(pending) \in Seq(SignalMessage) /\ Len(Tail(pending)) = Len(pending) - 1
          /\ \A i \in 1..Len(Tail(pending)) : Tail(pending)[i] = pending[i + 1]
      BY <1>1, <3>1
    <3>3. QED
      BY <1>1, <2>1, <3>2
  <2>2. CASE Len(pending) < MaxPending
    BY <1>1, <2>2
  <2>3. QED
    BY <1>1, <2>1, <2>2
<1> HIDE DEF kept
<1>3. /\ Append(kept, m) \in Seq(SignalMessage) /\ Len(Append(kept, m)) = Len(kept) + 1
      /\ \A i \in 1..(Len(kept) + 1) : Append(kept, m)[i] = IF i = Len(kept) + 1 THEN m ELSE kept[i]
  BY <1>2
<1>4. Enqueued(m) = Append(kept, m)
  BY DEF Enqueued, kept
<1>5. QED
  BY <1>2, <1>3, <1>4

-----------------------------------------------------------------------------
(* What the page is sent.                                                  *)
LEMMA PeerMessagesFit ==
    ASSUME NEW k \in Attempts, NEW n \in 0..PeerCandidates
    PROVE  /\ Offer(k) \in PeerMessage
           /\ Candidates(k, n) \in Seq(PeerMessage)
           /\ \A i \in 1..PeerCandidates : Candidate(k, i) \in PeerMessage
<1>1. Offer(k) \in PeerMessage /\ \A i \in 1..PeerCandidates : Candidate(k, i) \in PeerMessage
  BY BoundsAssumption DEF Offer, Candidate, PeerMessage
<1>2. \A i \in 1..n : Candidate(k, i) \in PeerMessage
  BY <1>1, BoundsAssumption
<1>3. Candidates(k, n) \in [1..n -> PeerMessage]
  BY <1>2 DEF Candidates
<1>4. QED
  BY <1>1, <1>3, BoundsAssumption

(* What the page sends, in the attempt it is in.                           *)
LEMMA PageMessagesFit ==
    ASSUME TypeOK, InOrder, shown
    PROVE  /\ attempt \in Attempts
           /\ Request("terminateSession") \in RequestMessage
           /\ \A id \in {"answer", "candidate"}, n \in 1..(MaxAttempts + PageCandidates) :
                Signal(id, n) \in SignalMessage
<1>1. attempt \in Attempts
  BY BoundsAssumption DEF TypeOK, InOrder, Attempts, None
<1>2. \A id : Canonical(id, form) \in Payload
  BY FormsAssumption DEF TypeOK, Canonical, Payload
<1>3. QED
  BY <1>1, <1>2 DEF Request, RequestMessage, Signal, SignalMessage

(* Page steps keep the invariant (gameSessionRuntime.js:340-425, 496-526). *)
LEMMA PageKeepsSInv ==
    ASSUME SInv, Show \/ Leave \/ PageGathers \/ PageStep
    PROVE  SInv'
<1>0. /\ TypeOK /\ InOrder /\ RouterInOrder /\ AttemptsDoNotMix
      /\ attempt \in 0..MaxAttempts /\ MaxAttempts \in Nat
      /\ PageCandidates \in Nat
      /\ toWorker \in Seq(SignalMessage \cup RequestMessage)
      /\ toPage \in Seq(PeerMessage)
  BY BoundsAssumption DEF SInv, TypeOK
<1>1. AttemptsDoNotMix'
  BY <1>0 DEF Show, Leave, PageGathers, PageStep, TakeOffer, TakeCandidate, peerVars,
     AttemptsDoNotMix
<1>2. CASE Show
  <2> DEFINE m == [id |-> "initwebrtc", attempt |-> attempt + 1]
  <2>1. attempt + 1 \in Attempts /\ m \in RequestMessage
    BY <1>0, <1>2 DEF Show, Attempts, RequestMessage
  <2>2. toPage' \in Seq(PeerMessage)
    <3>1. PICK d \in 0..Len(toPage) : toPage' = SubSeq(toPage, d + 1, Len(toPage))
      BY <1>2 DEF Show
    <3>2. QED
      BY <1>0, <3>1, SubSeqProperties
  <2>3. /\ m.attempt = attempt' /\ attempt' # None
        /\ m.id = "initwebrtc" /\ m.id # "terminateSession"
        /\ toWorker' = Append(toWorker, m) /\ ~shown /\ shown'
        /\ attempt' \in 0..MaxAttempts
        /\ UNCHANGED <<session, pending>>
    BY <1>0, <1>2 DEF Show, peerVars, None
  <2> HIDE DEF m
  <2>4. toWorker' \in Seq(SignalMessage \cup RequestMessage)
    BY <1>0, <2>1, <2>3
  <2>6. TypeOK'
    BY <1>0, <1>2, <2>2, <2>3, <2>4 DEF TypeOK, Show, peerVars
  <2>7. InOrder' /\ RouterInOrder'
    BY <1>0, <2>3, SendingKeepsOrder
  <2>8. QED
    BY <1>1, <2>6, <2>7 DEF SInv
<1>3. CASE Leave
  <2> DEFINE m == Request("terminateSession")
  <2>1. attempt \in Attempts /\ m \in RequestMessage
    BY <1>0, <1>3, PageMessagesFit DEF Leave
  <2>2. TypeOK'
    <3> HIDE DEF m
    <3>1. toWorker' = Append(toWorker, m)
      BY <1>3 DEF Leave, m
    <3>2. toWorker' \in Seq(SignalMessage \cup RequestMessage)
      BY <1>0, <2>1, <3>1
    <3>3. /\ shown' = FALSE /\ first' = None /\ gathered' = 0
          /\ waiting' = {} /\ added' = {}
          /\ UNCHANGED <<attempt, form, toPage, session, answer, ice, emitted, ends, pending>>
      BY <1>3 DEF Leave, peerVars
    <3>4. 0 \in 0..PageCandidates
      BY <1>0
    <3>5. QED
      BY <1>0, <3>2, <3>3, <3>4 DEF TypeOK
  <2>3. m.attempt = attempt /\ m.id = "terminateSession" /\ m.id # "initwebrtc"
    BY DEF Request
  <2>4. attempt # None /\ toWorker' = Append(toWorker, m) /\ shown /\ ~shown'
    BY <1>0, <1>3 DEF Leave, InOrder
  <2>5. UNCHANGED <<attempt, session, pending>>
    BY <1>3 DEF Leave, peerVars
  <2> HIDE DEF m
  <2>6. InOrder' /\ RouterInOrder'
    BY <1>0, <2>3, <2>4, <2>5, SendingKeepsOrder
  <2>7. QED
    BY <1>1, <2>2, <2>6 DEF SInv
<1>4. ASSUME NEW id \in {"answer", "candidate"}, NEW n \in 1..(MaxAttempts + PageCandidates),
             shown, toWorker' \in {toWorker, Append(toWorker, Signal(id, n))},
             UNCHANGED <<attempt, shown, session, pending>>
      PROVE  /\ toWorker' \in Seq(SignalMessage \cup RequestMessage)
             /\ InOrder' /\ RouterInOrder'
  <2> DEFINE m == Signal(id, n)
  <2>1. m \in SignalMessage /\ attempt # None
    BY <1>0, <1>4, PageMessagesFit DEF InOrder
  <2>2. m.attempt = attempt /\ m.id # "initwebrtc" /\ m.id # "terminateSession"
    BY <1>4 DEF Signal
  <2> HIDE DEF m
  <2>3. CASE toWorker' = Append(toWorker, m)
    BY <1>0, <1>4, <2>1, <2>2, <2>3, SendingKeepsOrder
  <2>4. CASE toWorker' = toWorker
    BY <1>0, <1>4, <2>4 DEF InOrder, RouterInOrder, Served, Last
  <2>5. QED
    BY <1>4, <2>3, <2>4 DEF m
<1>5. CASE PageGathers
  <2>1. /\ gathered + 1 \in 0..PageCandidates /\ gathered + 1 \in 1..(MaxAttempts + PageCandidates)
        /\ toWorker' \in {toWorker, Append(toWorker, Signal("candidate", gathered + 1))}
        /\ shown
        /\ UNCHANGED <<attempt, shown, session, pending>>
    BY <1>0, <1>5 DEF TypeOK, PageGathers, Relayed, peerVars
  <2>2. /\ toWorker' \in Seq(SignalMessage \cup RequestMessage)
        /\ InOrder' /\ RouterInOrder'
    BY <1>4, <2>1
  <2>3. TypeOK'
    BY <1>0, <1>5, <2>1, <2>2 DEF TypeOK, PageGathers, peerVars
  <2>4. QED
    BY <1>1, <2>2, <2>3 DEF SInv
<1>6. CASE TakeOffer
  <2>1. /\ toPage # <<>> /\ Head(toPage) \in PeerMessage /\ Tail(toPage) \in Seq(PeerMessage)
        /\ shown
        /\ UNCHANGED <<attempt, shown, session, pending>>
    BY <1>0, <1>6 DEF TakeOffer, peerVars
  <2> DEFINE k == Head(toPage).peer
  <2>2. k \in Attempts /\ k \in 1..(MaxAttempts + PageCandidates)
    BY <1>0, <2>1 DEF PeerMessage, Attempts
  <2>3. toWorker' \in {toWorker, Append(toWorker, Signal("answer", k))}
    BY <1>6 DEF TakeOffer, Relayed
  <2>4. /\ toWorker' \in Seq(SignalMessage \cup RequestMessage)
        /\ InOrder' /\ RouterInOrder'
    BY <1>4, <2>1, <2>2, <2>3
  <2>5. TypeOK'
    BY <1>0, <1>6, <2>1, <2>2, <2>4 DEF TypeOK, TakeOffer, peerVars
  <2>6. QED
    BY <1>1, <2>4, <2>5 DEF SInv
<1>7. CASE TakeCandidate
  <2>1. /\ toPage # <<>> /\ Head(toPage) \in PeerMessage /\ Tail(toPage) \in Seq(PeerMessage)
        /\ UNCHANGED <<attempt, shown, toWorker, session, pending>>
    BY <1>0, <1>7 DEF TakeCandidate, peerVars
  <2>2. TypeOK'
    BY <1>0, <1>7, <2>1 DEF TypeOK, TakeCandidate, peerVars
  <2>3. InOrder' /\ RouterInOrder'
    BY <1>0, <2>1 DEF InOrder, RouterInOrder, Served, Last
  <2>4. QED
    BY <1>1, <2>2, <2>3 DEF SInv
<1>8. QED
  BY <1>2, <1>3, <1>5, <1>6, <1>7 DEF PageStep

(* Router steps keep the invariant (signal_router.rs:72-184).              *)
LEMMA RouterKeepsSInv ==
    ASSUME SInv, RouterStep
    PROVE  SInv'
<1>0. /\ TypeOK /\ InOrder /\ RouterInOrder /\ AttemptsDoNotMix
      /\ toPage \in Seq(PeerMessage)
      /\ session \in {None} \cup Attempts
      /\ emitted \in [Attempts -> 0..PeerCandidates]
  BY DEF SInv, TypeOK
<1>1. /\ toWorker # <<>> /\ toWorker' = Tail(toWorker)
      /\ UNCHANGED <<attempt, shown>> /\ UNCHANGED pageVars /\ UNCHANGED ends
  BY DEF RouterStep, InitWebrtc, TerminateSession, HandleSignal, NextIs, pageVars
<1> DEFINE m == Head(toWorker)
<1>2. /\ m.attempt \in Attempts
      /\ NextIs("answer") \/ NextIs("candidate") => m \in SignalMessage
  BY <1>0, <1>1, HeadFits
<1>3. /\ m.id = "terminateSession" => Served' = None
      /\ m.id # "terminateSession" => Served' = m.attempt
      /\ m.id # "initwebrtc" => Served = m.attempt
  BY <1>0, <1>1, ReadingTellsAttempt
<1>4. InOrder' /\ toWorker' \in Seq(SignalMessage \cup RequestMessage)
  BY <1>0, <1>1, Read
<1>5. CASE InitWebrtc
  <2>1. session = None /\ pending = <<>> /\ m.id = "initwebrtc"
    BY <1>0, <1>5, RequestFindsNothing DEF InitWebrtc, NextIs
  <2> DEFINE k == m.attempt
  <2>2. PICK early \in 0..PeerCandidates :
           /\ emitted' = [emitted EXCEPT ![k] = early]
           /\ session' = k
           /\ toPage' = toPage \o Candidates(k, early) \o <<Offer(k)>>
           /\ Apply(k, <<>>)
           /\ pending' = <<>>
    BY <1>5, <2>1 DEF InitWebrtc
  <2>3. UNCHANGED <<answer, ice>>
    BY <1>0, <1>2, <2>2, ApplyNothing
  <2>4. toPage' \in Seq(PeerMessage)
    <3>1. Candidates(k, early) \in Seq(PeerMessage) /\ Offer(k) \in PeerMessage
      BY <1>2, PeerMessagesFit
    <3>2. QED
      BY <1>0, <2>2, <3>1
  <2>5. pending' \in Seq(SignalMessage) /\ Len(pending') <= MaxPending /\ DOMAIN pending' = {}
    BY <2>2, BoundsAssumption
  <2>6. TypeOK'
    BY <1>0, <1>1, <1>2, <1>4, <2>2, <2>3, <2>4, <2>5 DEF TypeOK, pageVars
  <2>7. RouterInOrder'
    BY <1>3, <2>1, <2>2, <2>5 DEF RouterInOrder
  <2>8. AttemptsDoNotMix'
    BY <1>0, <2>3 DEF AttemptsDoNotMix
  <2>9. QED
    BY <1>4, <2>6, <2>7, <2>8 DEF SInv
<1>6. CASE TerminateSession
  <2>1. /\ m.id = "terminateSession" /\ pending' = <<>> /\ session' = None
        /\ UNCHANGED <<toPage, answer, ice, emitted, ends>>
    BY <1>6 DEF TerminateSession, NextIs
  <2>2. pending' \in Seq(SignalMessage) /\ Len(pending') <= MaxPending /\ DOMAIN pending' = {}
    BY <2>1, BoundsAssumption
  <2>3. TypeOK'
    BY <1>0, <1>1, <1>4, <2>1, <2>2 DEF TypeOK, pageVars
  <2>4. RouterInOrder'
    BY <1>3, <2>1, <2>2 DEF RouterInOrder
  <2>5. AttemptsDoNotMix'
    BY <1>0, <2>1 DEF AttemptsDoNotMix
  <2>6. QED
    BY <1>4, <2>3, <2>4, <2>5 DEF SInv
<1>7. CASE HandleSignal
  <2>1. /\ m \in SignalMessage /\ m.id # "initwebrtc" /\ m.id # "terminateSession"
        /\ UNCHANGED <<toPage, session, emitted, ends>>
    BY <1>2, <1>7 DEF HandleSignal, NextIs, SignalMessage
  <2>2. Served = m.attempt /\ Served' = Served
    BY <1>3, <2>1
  <2>3. CASE session # None
    <3>1. /\ session \in Attempts /\ m.attempt = session
          /\ Apply(session, <<m>>) /\ UNCHANGED pending
      BY <1>0, <1>7, <2>2, <2>3 DEF HandleSignal, RouterInOrder
    <3>2. /\ answer' \in [Attempts -> {<<>>} \cup SignalMessage]
          /\ ice' \in [Attempts -> SUBSET SignalMessage]
          /\ \A j \in Attempts :
               /\ answer'[j] = answer[j] \/ (j = session /\ answer'[j] = m)
               /\ ice'[j] = ice[j] \/ (j = session /\ ice'[j] \subseteq ice[j] \cup {m})
      BY <1>0, <2>1, <3>1, ApplyOneFits
    <3>3. TypeOK'
      BY <1>0, <1>1, <1>4, <2>1, <3>1, <3>2 DEF TypeOK, pageVars
    <3>4. AttemptsDoNotMix'
      BY <1>0, <3>1, <3>2 DEF AttemptsDoNotMix
    <3>5. RouterInOrder'
      BY <1>0, <2>1, <2>2, <3>1 DEF RouterInOrder
    <3>6. QED
      BY <1>4, <3>3, <3>4, <3>5 DEF SInv
  <2>4. CASE session = None
    <3>1. pending' = Enqueued(m) /\ UNCHANGED <<answer, ice>>
      BY <1>7, <2>4 DEF HandleSignal
    <3>2. /\ Enqueued(m) \in Seq(SignalMessage) /\ Len(Enqueued(m)) <= MaxPending
          /\ \A i \in DOMAIN Enqueued(m) : Enqueued(m)[i].attempt = Served
      BY <1>0, <2>1, <2>2, EnqueuedFits
    <3>3. TypeOK'
      BY <1>0, <1>1, <1>4, <2>1, <3>1, <3>2 DEF TypeOK, pageVars
    <3>4. AttemptsDoNotMix'
      BY <1>0, <3>1 DEF AttemptsDoNotMix
    <3>5. RouterInOrder'
      BY <1>0, <2>1, <2>2, <3>1, <3>2 DEF RouterInOrder
    <3>6. QED
      BY <1>4, <3>3, <3>4, <3>5 DEF SInv
  <2>5. QED
    BY <2>3, <2>4
<1>8. QED
  BY <1>5, <1>6, <1>7 DEF RouterStep

(* What a peer's tasks do keeps the invariant: they may end a session, not *)
(* make one (webrtc_session.rs:183-230).                                   *)
LEMMA PeersKeepSInv ==
    ASSUME SInv, NEW k \in Attempts, PeerGathers(k) \/ PeerEnding(k)
    PROVE  SInv'
<1>0. /\ TypeOK /\ InOrder /\ RouterInOrder /\ AttemptsDoNotMix
      /\ toPage \in Seq(PeerMessage)
      /\ emitted \in [Attempts -> 0..PeerCandidates] /\ PeerCandidates \in Nat
      /\ ends \in [Attempts -> 0..PeerEnds] /\ PeerEnds \in Nat
  BY BoundsAssumption DEF SInv, TypeOK
<1>1. /\ UNCHANGED <<attempt, shown, toWorker, answer, ice, pending>> /\ UNCHANGED pageVars
      /\ session' \in {session, None}
  BY DEF PeerGathers, PeerEnding, pageVars
<1>2. InOrder' /\ RouterInOrder'
  BY <1>0, <1>1 DEF InOrder, RouterInOrder, Served, Last
<1>3. AttemptsDoNotMix'
  BY <1>0, <1>1 DEF AttemptsDoNotMix
<1>4. /\ toPage' \in Seq(PeerMessage)
      /\ emitted' \in [Attempts -> 0..PeerCandidates]
      /\ ends' \in [Attempts -> 0..PeerEnds]
  <2>1. CASE PeerGathers(k)
    <3>1. emitted[k] + 1 \in 1..PeerCandidates /\ emitted[k] + 1 \in 0..PeerCandidates
      BY <1>0, <2>1 DEF PeerGathers
    <3>2. Candidate(k, emitted[k] + 1) \in PeerMessage
      BY <1>0, <3>1, PeerMessagesFit
    <3>3. QED
      BY <1>0, <2>1, <3>1, <3>2 DEF PeerGathers
  <2>2. CASE PeerEnding(k)
    BY <1>0, <2>2 DEF PeerEnding
  <2>3. QED
    BY <2>1, <2>2
<1>5. TypeOK'
  BY <1>0, <1>1, <1>4 DEF TypeOK, pageVars
<1>6. QED
  BY <1>2, <1>3, <1>5 DEF SInv

(* The invariant is inductive.                                             *)
LEMMA SInvStep == SInv /\ [Next]_vars => SInv'
<1> SUFFICES ASSUME SInv, [Next]_vars PROVE SInv'
  OBVIOUS
<1>1. CASE UNCHANGED vars
  BY <1>1 DEF SInv, TypeOK, InOrder, RouterInOrder, AttemptsDoNotMix, Served, Last,
     vars, pageVars, peerVars
<1>2. QED
  BY <1>1, PageKeepsSInv, RouterKeepsSInv, PeersKeepSInv DEF Next

LEMMA SInvInit == Init => SInv
<1> SUFFICES ASSUME Init PROVE SInv
  OBVIOUS
<1>1. TypeOK
  <2>1. /\ 0 \in 0..MaxAttempts /\ 0 \in 0..PageCandidates /\ 0 \in 0..PeerCandidates
        /\ 0 \in 0..PeerEnds /\ 0 <= MaxPending
    BY BoundsAssumption
  <2>2. Len(pending) = 0 /\ pending \in Seq(SignalMessage)
    BY DEF Init
  <2>3. toWorker \in Seq(SignalMessage \cup RequestMessage) /\ toPage \in Seq(PeerMessage)
    BY DEF Init
  <2>4. QED
    BY <2>1, <2>2, <2>3 DEF Init, TypeOK
<1>2. InOrder /\ RouterInOrder /\ AttemptsDoNotMix
  BY DEF Init, InOrder, RouterInOrder, AttemptsDoNotMix, None
<1>3. QED
  BY <1>1, <1>2 DEF SInv

LEMMA SInvHolds == Spec => []SInv
  BY SInvInit, SInvStep, PTL DEF Spec

-----------------------------------------------------------------------------
(* The router's buffer keeps to its limit, and every variable its range    *)
(* (signal_router.rs:14-49).                                               *)
THEOREM TypeCorrect == Spec => []TypeOK
  BY SInvHolds, PTL DEF SInv

(* However often the page is shown and left, and whenever sessions end, a  *)
(* peer is given only answers and candidates of the attempt it was made    *)
(* for (signal_router.rs:20-49, 81-148).                                   *)
THEOREM AttemptsStayApart == Spec => []AttemptsDoNotMix
  BY SInvHolds, PTL DEF SInv

(* No request of the page finds a session still registered or a signal     *)
(* kept: terminateSession reaches the router before it and clears both, so *)
(* that the page is made an offer (signal_router.rs:93-117,                *)
(* webrtc_session.rs:309-321).                                             *)
THEOREM RequestsAreFresh == Spec => []RequestsStartAfresh
<1>1. SInv => RequestsStartAfresh
  BY RequestFindsNothing DEF SInv, RequestsStartAfresh
<1>2. QED
  BY <1>1, SInvHolds, PTL

-----------------------------------------------------------------------------
(* Answers and candidates. *)

Ours(m, a) == m.id = "answer" /\ m.attempt = a

(* Of the answers of attempt a in q the first is to the offer of peer n;   *)
(* there is none when n is None.                                           *)
Line(q, a, n) ==
    IF n = None THEN \A i \in 1..Len(q) : ~Ours(q[i], a)
    ELSE \E i \in 1..Len(q) : /\ Ours(q[i], a) /\ q[i].n = n
                              /\ \A j \in 1..(i - 1) : ~Ours(q[j], a)

(* The request of the page's attempt is still on its way.                  *)
Requested ==
    \E i \in 1..Len(toWorker) : toWorker[i].id = "initwebrtc" /\ toWorker[i].attempt = attempt

(* Attempts rise along the queue, with each request, and the worker can    *)
(* decode the answers.                                                     *)
QueueRises ==
    \A i \in 1..Len(toWorker) :
        /\ toWorker[i].attempt <= attempt
        /\ toWorker[i].id = "answer" => Decodes("answer", toWorker[i].payload)
        /\ \A j \in 1..Len(toWorker) : i < j =>
               /\ toWorker[i].attempt <= toWorker[j].attempt
               /\ toWorker[j].id = "initwebrtc" => toWorker[i].attempt < toWorker[j].attempt

(* Nothing was done for an attempt that has yet to come or to be asked for.*)
NotYet ==
    /\ ~shown => first = None
    /\ \A k \in Attempts : k > attempt => answer[k] = <<>> /\ emitted[k] = 0
    /\ shown /\ Requested => answer[attempt] = <<>>

AnswersInLine ==
    shown /\ Accepted(form) /\ (session = attempt \/ Requested) =>
        IF answer[attempt] # <<>> THEN first # None /\ answer[attempt].n = first
        ELSE Line(toWorker, attempt, first)

(* No candidate of the session's peer is lost on its way to a page that is *)
(* shown: it is in the queue, waits for an offer while there was none, or  *)
(* was added.                                                              *)
CandidatesAreKept ==
    shown => \A n \in 1..emitted[attempt] :
        \/ \E i \in DOMAIN toPage : toPage[i] = Candidate(attempt, n)
        \/ Candidate(attempt, n) \in (IF first = None THEN waiting ELSE added)

AInv == SInv /\ QueueRises /\ NotYet /\ AnswersInLine /\ CandidatesAreKept

(* The line of answers goes on behind its first, or begins with m.         *)
LEMMA LineGrows ==
    ASSUME NEW S, NEW q \in Seq(S), NEW m \in S, NEW a, NEW n, NEW o,
           Line(q, a, o),
           IF Ours(m, a) THEN n # None /\ n = (IF o = None THEN m.n ELSE o) ELSE n = o
    PROVE  Line(Append(q, m), a, n)
<1> DEFINE r == Append(q, m)
<1>1. /\ Len(q) \in Nat /\ Len(r) = Len(q) + 1 /\ r[Len(q) + 1] = m
      /\ \A i \in 1..Len(q) : r[i] = q[i]
  OBVIOUS
<1> HIDE DEF r
<1>2. CASE o = None /\ Ours(m, a)
  <2>1. /\ Len(r) \in 1..Len(r) /\ r[Len(r)] = m
        /\ \A j \in 1..(Len(r) - 1) : ~Ours(r[j], a)
    BY <1>1, <1>2 DEF Line
  <2>2. QED
    BY <1>2, <2>1 DEF Line, r
<1>3. CASE o = None /\ ~Ours(m, a)
  <2>1. \A i \in 1..Len(r) : i \in 1..Len(q) \/ r[i] = m
    BY <1>1
  <2>2. QED
    BY <1>1, <1>3, <2>1 DEF Line, r
<1>4. CASE o # None
  <2>1. PICK i \in 1..Len(q) : /\ Ours(q[i], a) /\ q[i].n = o
                               /\ \A j \in 1..(i - 1) : ~Ours(q[j], a)
    BY <1>4 DEF Line
  <2>2. i \in 1..Len(r) /\ r[i] = q[i] /\ \A j \in 1..(i - 1) : r[j] = q[j]
    BY <1>1
  <2>3. n = o
    BY <1>4
  <2>4. QED
    BY <1>4, <2>1, <2>2, <2>3 DEF Line, r
<1>5. QED
  BY <1>2, <1>3, <1>4

(* A message that is no answer of the attempt leaves the line as it is.    *)
LEMMA LineMovesUp ==
    ASSUME NEW S, NEW q \in Seq(S), q # <<>>, NEW a, NEW n, Line(q, a, n),
           ~Ours(Head(q), a)
    PROVE  Line(Tail(q), a, n)
<1> DEFINE r == Tail(q)
<1>1. /\ Len(q) \in Nat \ {0} /\ Len(r) = Len(q) - 1 /\ Head(q) = q[1]
      /\ \A i \in 1..Len(r) : r[i] = q[i + 1]
  OBVIOUS
<1> HIDE DEF r
<1>2. CASE n = None
  <2>1. \A i \in 1..Len(r) : i + 1 \in 1..Len(q)
    BY <1>1
  <2>2. QED
    BY <1>1, <1>2, <2>1 DEF Line, r
<1>3. CASE n # None
  <2>1. PICK i \in 1..Len(q) : /\ Ours(q[i], a) /\ q[i].n = n
                               /\ \A j \in 1..(i - 1) : ~Ours(q[j], a)
    BY <1>3 DEF Line
  <2>2. i # 1
    BY <1>1, <2>1
  <2>3. /\ i - 1 \in 1..Len(r) /\ (i - 1) + 1 = i
        /\ \A j \in 1..((i - 1) - 1) : j \in 1..Len(r) /\ j + 1 \in 1..(i - 1)
    BY <1>1, <2>2
  <2>4. r[i - 1] = q[i] /\ \A j \in 1..((i - 1) - 1) : r[j] = q[j + 1]
    BY <1>1, <2>3
  <2>5. QED
    BY <1>3, <2>1, <2>3, <2>4 DEF Line, r
<1>4. QED
  BY <1>2, <1>3

(* An answer of the attempt at the front is the first of the line.         *)
LEMMA LineFront ==
    ASSUME NEW S, NEW q \in Seq(S), q # <<>>, NEW a, NEW n, Line(q, a, n),
           Ours(Head(q), a)
    PROVE  n # None /\ Head(q).n = n
<1>1. Len(q) \in Nat \ {0} /\ Head(q) = q[1] /\ 1 \in 1..Len(q)
  OBVIOUS
<1>2. n # None
  BY <1>1 DEF Line
<1>3. PICK i \in 1..Len(q) : /\ Ours(q[i], a) /\ q[i].n = n
                             /\ \A j \in 1..(i - 1) : ~Ours(q[j], a)
  BY <1>2 DEF Line
<1>4. i = 1
  BY <1>1, <1>3
<1>5. QED
  BY <1>1, <1>2, <1>3, <1>4

(* The attempts of messages are numbers.                                   *)
LEMMA QueueFits ==
    ASSUME TypeOK
    PROVE  /\ toWorker \in Seq(SignalMessage \cup RequestMessage)
           /\ Len(toWorker) \in Nat /\ DOMAIN toWorker = 1..Len(toWorker)
           /\ attempt \in Nat
           /\ \A i \in 1..Len(toWorker) : toWorker[i].attempt \in Nat
<1>1. toWorker \in Seq(SignalMessage \cup RequestMessage) /\ attempt \in Nat
  BY BoundsAssumption DEF TypeOK
<1>2. \A i \in 1..Len(toWorker) : toWorker[i] \in SignalMessage \cup RequestMessage
  BY <1>1
<1>3. \A i \in 1..Len(toWorker) : toWorker[i].attempt \in Attempts
  BY <1>2 DEF SignalMessage, RequestMessage
<1>4. QED
  BY <1>1, <1>3 DEF Attempts

(* What the page sends is of its attempt, and a request begins a new one.  *)
LEMMA SendingKeepsRising ==
    ASSUME TypeOK, QueueRises, NEW m, toWorker' = Append(toWorker, m),
           m.attempt = attempt', attempt' \in Nat,
           IF m.id = "initwebrtc" THEN attempt < attempt' ELSE attempt' = attempt,
           m.id = "answer" => Decodes("answer", m.payload)
    PROVE  QueueRises'
<1> DEFINE q == toWorker
           r == toWorker'
<1>1. /\ Len(q) \in Nat /\ Len(r) = Len(q) + 1 /\ r[Len(q) + 1] = m
      /\ \A i \in 1..Len(q) : r[i] = q[i] /\ q[i].attempt \in Nat
      /\ attempt \in Nat
  BY QueueFits
<1>2. \A i \in 1..Len(r) : (i \in 1..Len(q) /\ r[i] = q[i]) \/ (i = Len(q) + 1 /\ r[i] = m)
  BY <1>1
<1> HIDE DEF r
<1>3. \A i \in 1..Len(r) : /\ r[i].attempt <= attempt'
                           /\ r[i].id = "answer" => Decodes("answer", r[i].payload)
  BY <1>1, <1>2 DEF QueueRises
<1>4. ASSUME NEW i \in 1..Len(r), NEW j \in 1..Len(r), i < j
      PROVE  /\ r[i].attempt <= r[j].attempt
             /\ r[j].id = "initwebrtc" => r[i].attempt < r[j].attempt
  <2>1. i \in 1..Len(q) /\ r[i] = q[i]
    BY <1>1, <1>2, <1>4
  <2>2. CASE j \in 1..Len(q) /\ r[j] = q[j]
    BY <1>4, <2>1, <2>2 DEF QueueRises
  <2>3. CASE j = Len(q) + 1 /\ r[j] = m
    BY <1>1, <2>1, <2>3 DEF QueueRises
  <2>4. QED
    BY <1>2, <2>2, <2>3
<1>5. QED
  BY <1>3, <1>4 DEF QueueRises, r

(* What is left behind the front of the queue.                             *)
LEMMA ReadingKeepsRising ==
    ASSUME TypeOK, QueueRises, toWorker # <<>>, toWorker' = Tail(toWorker),
           UNCHANGED attempt
    PROVE  /\ QueueRises'
           /\ Requested' => Requested /\ Head(toWorker).attempt < attempt
           /\ Requested => Requested' \/ (Head(toWorker).id = "initwebrtc"
                                          /\ Head(toWorker).attempt = attempt)
           /\ Head(toWorker).attempt <= attempt
           /\ Head(toWorker).id = "answer" => Decodes("answer", Head(toWorker).payload)
<1> DEFINE q == toWorker
           r == toWorker'
<1>1. /\ Len(q) \in Nat \ {0} /\ Len(r) = Len(q) - 1 /\ Head(q) = q[1]
      /\ \A i \in 1..Len(r) : r[i] = q[i + 1]
      /\ \A i \in 1..Len(q) : q[i].attempt \in Nat
      /\ attempt \in Nat
  BY QueueFits
<1> HIDE DEF r
<1>2. \A i \in 1..Len(r) : i + 1 \in 1..Len(q) /\ 1 < i + 1
  BY <1>1
<1>3. QueueRises'
  <2>1. \A i \in 1..Len(r) : /\ r[i].attempt <= attempt
                             /\ r[i].id = "answer" => Decodes("answer", r[i].payload)
    BY <1>1, <1>2 DEF QueueRises
  <2>2. ASSUME NEW i \in 1..Len(r), NEW j \in 1..Len(r), i < j
        PROVE  /\ r[i].attempt <= r[j].attempt
               /\ r[j].id = "initwebrtc" => r[i].attempt < r[j].attempt
    <3>1. i + 1 < j + 1
      BY <2>2
    <3>2. QED
      BY <1>1, <1>2, <3>1 DEF QueueRises
  <2>3. QED
    BY <2>1, <2>2 DEF QueueRises, r
<1>4. Requested' => Requested /\ Head(q).attempt < attempt
  <2> SUFFICES ASSUME Requested' PROVE Requested /\ Head(q).attempt < attempt
    OBVIOUS
  <2>1. PICK i \in 1..Len(r) : r[i].id = "initwebrtc" /\ r[i].attempt = attempt
    BY DEF Requested, r
  <2>2. /\ 1 \in 1..Len(q) /\ i + 1 \in 1..Len(q) /\ 1 < i + 1
        /\ q[i + 1].id = "initwebrtc" /\ q[i + 1].attempt = attempt
    BY <1>1, <1>2, <2>1
  <2>3. q[1].attempt < attempt
    BY <2>2 DEF QueueRises
  <2>4. QED
    BY <1>1, <2>2, <2>3 DEF Requested
<1>5. ASSUME Requested
      PROVE  Requested' \/ (Head(q).id = "initwebrtc" /\ Head(q).attempt = attempt)
  <2>1. PICK i \in 1..Len(q) : q[i].id = "initwebrtc" /\ q[i].attempt = attempt
    BY <1>5 DEF Requested
  <2>2. CASE i = 1
    BY <1>1, <2>1, <2>2
  <2>3. CASE i # 1
    <3>1. i - 1 \in 1..Len(r) /\ (i - 1) + 1 = i
      BY <1>1, <2>3
    <3>2. r[i - 1] = q[i]
      BY <1>1, <3>1
    <3>3. QED
      BY <2>1, <3>1, <3>2 DEF Requested, r
  <2>4. QED
    BY <2>2, <2>3
<1>6. /\ Head(q).attempt <= attempt
      /\ Head(q).id = "answer" => Decodes("answer", Head(q).payload)
  BY <1>1 DEF QueueRises
<1>7. QED
  BY <1>3, <1>4, <1>5, <1>6

(* A message of the attempt the page is in, other than a request, changes  *)
(* neither what is asked for nor, unless it is an answer, the line.        *)
LEMMA SendingKeepsRequests ==
    ASSUME TypeOK, NEW m, toWorker' = Append(toWorker, m), UNCHANGED attempt,
           m.id # "initwebrtc"
    PROVE  Requested' <=> Requested
<1> DEFINE r == toWorker'
<1>1. /\ Len(toWorker) \in Nat /\ Len(r) = Len(toWorker) + 1 /\ r[Len(toWorker) + 1] = m
      /\ \A i \in 1..Len(toWorker) : r[i] = toWorker[i]
  BY QueueFits
<1> HIDE DEF r
<1>2. \A i \in 1..Len(r) : i \in 1..Len(toWorker) \/ r[i] = m
  BY <1>1
<1>3. \A i \in 1..Len(toWorker) : i \in 1..Len(r)
  BY <1>1
<1>4. QED
  BY <1>1, <1>2, <1>3 DEF Requested, r

(* An offer names a peer.                                                  *)
LEMMA PeersAreNamed ==
    ASSUME TypeOK, toPage # <<>>
    PROVE  Head(toPage).peer \in Attempts /\ Head(toPage).peer # None
<1>1. toPage \in Seq(PeerMessage) /\ toPage # <<>>
  BY DEF TypeOK
<1>2. Head(toPage) \in PeerMessage
  BY <1>1
<1>3. QED
  BY <1>2, BoundsAssumption DEF PeerMessage, Attempts, None

(* What the page has taken from its queue it keeps with its connection.    *)
LEMMA TakingKeepsCandidates ==
    ASSUME TypeOK, CandidatesAreKept, PageStep
    PROVE  CandidatesAreKept'
<1>1. /\ shown /\ toPage # <<>> /\ toPage' = Tail(toPage)
      /\ UNCHANGED <<attempt, shown, emitted>>
  BY DEF PageStep, TakeOffer, TakeCandidate, peerVars
<1> DEFINE q == toPage
           r == toPage'
           Kept == IF first = None THEN waiting ELSE added
<1>2. /\ Len(q) \in Nat \ {0} /\ Len(r) = Len(q) - 1 /\ Head(q) = q[1]
      /\ \A i \in 1..Len(r) : r[i] = q[i + 1]
      /\ DOMAIN q = 1..Len(q) /\ DOMAIN r = 1..Len(r)
  <2>1. q \in Seq(PeerMessage) /\ q # <<>> /\ r = Tail(q)
    BY <1>1 DEF TypeOK
  <2> HIDE DEF q, r
  <2>2. QED
    BY <2>1
<1>3. Kept \subseteq Kept'
  <2>1. Head(toPage).peer # None
    BY <1>1, PeersAreNamed
  <2>2. CASE TakeOffer
    <3>1. CASE UNCHANGED <<first, toWorker, added, waiting>>
      BY <3>1
    <3>2. CASE /\ first' = (IF first = None THEN Head(toPage).peer ELSE first)
               /\ added' = added \cup waiting
      BY <2>1, <3>2
    <3>3. QED
      BY <2>2, <3>1, <3>2 DEF TakeOffer
  <2>3. CASE TakeCandidate
    BY <2>3 DEF TakeCandidate
  <2>4. QED
    BY <2>2, <2>3 DEF PageStep
<1>4. ASSUME NEW n \in 1..emitted[attempt]
      PROVE  Head(q) = Candidate(attempt, n) => Candidate(attempt, n) \in Kept'
  <2>1. Head(q).id = "offer" => Head(q) # Candidate(attempt, n)
    BY DEF Candidate
  <2>2. TakeCandidate => Head(q) \in Kept'
    BY DEF TakeCandidate
  <2>3. QED
    BY <2>1, <2>2 DEF PageStep, TakeOffer
<1> HIDE DEF Kept
<1>5. ASSUME NEW n \in 1..emitted[attempt]
      PROVE  \/ \E i \in DOMAIN r : r[i] = Candidate(attempt, n)
             \/ Candidate(attempt, n) \in Kept'
  <2>1. CASE Candidate(attempt, n) \in Kept
    BY <1>3, <2>1
  <2>2. CASE \E i \in DOMAIN q : q[i] = Candidate(attempt, n)
    <3>1. PICK i \in 1..Len(q) : q[i] = Candidate(attempt, n)
      BY <1>2, <2>2
    <3>2. CASE i = 1
      BY <1>2, <1>4, <3>1, <3>2
    <3>3. CASE i # 1
      <4>1. i - 1 \in 1..Len(r) /\ (i - 1) + 1 = i
        BY <1>2, <3>3
      <4> HIDE DEF r
      <4>2. r[i - 1] = Candidate(attempt, n)
        BY <1>2, <3>1, <4>1
      <4>3. QED
        BY <1>2, <4>1, <4>2
    <3>4. QED
      BY <3>2, <3>3
  <2>3. QED
    BY <1>1, <2>1, <2>2 DEF CandidatesAreKept, Kept
<1>6. QED
  BY <1>1, <1>5 DEF CandidatesAreKept, Kept

(* The steps of the page keep the line of its answers.                     *)
LEMMA PageKeepsAInv ==
    ASSUME AInv, Show \/ Leave \/ PageGathers \/ PageStep
    PROVE  QueueRises' /\ NotYet' /\ AnswersInLine' /\ CandidatesAreKept'
<1>0. /\ TypeOK /\ InOrder /\ QueueRises /\ NotYet /\ AnswersInLine /\ CandidatesAreKept
      /\ toWorker \in Seq(SignalMessage \cup RequestMessage)
      /\ attempt \in Nat /\ attempt \in 0..MaxAttempts
      /\ emitted \in [Attempts -> 0..PeerCandidates]
  BY QueueFits DEF AInv, SInv, TypeOK
<1>1. UNCHANGED <<session, answer, emitted, form>>
  BY DEF Show, Leave, PageGathers, PageStep, TakeOffer, TakeCandidate, peerVars
<1>2. CASE Show
  <2> DEFINE m == [id |-> "initwebrtc", attempt |-> attempt + 1]
             r == toWorker'
  <2>1. /\ ~shown /\ shown' /\ attempt' = attempt + 1 /\ toWorker' = Append(toWorker, m)
        /\ first' = None /\ attempt + 1 \in Attempts
    <3>1. /\ ~shown /\ shown' /\ attempt' = attempt + 1 /\ attempt < MaxAttempts
          /\ first' = first /\ toWorker' = Append(toWorker, m)
      BY <1>2 DEF Show
    <3>2. first = None
      BY <1>0, <3>1 DEF NotYet
    <3> HIDE DEF m
    <3>3. attempt + 1 \in Attempts
      BY <1>0, <3>1, BoundsAssumption DEF Attempts
    <3>4. QED
      BY <3>1, <3>2, <3>3
  <2>2. m.attempt = attempt + 1 /\ m.id = "initwebrtc"
    OBVIOUS
  <2> HIDE DEF m
  <2>3. QueueRises'
    BY <1>0, <2>1, <2>2, SendingKeepsRising
  <2>4. answer[attempt + 1] = <<>> /\ emitted[attempt + 1] = 0
    BY <1>0, <2>1 DEF NotYet
  <2>5. NotYet'
    BY <1>0, <1>1, <2>1, <2>4 DEF NotYet, Attempts
  <2>6. \A i \in 1..Len(r) : ~Ours(r[i], attempt + 1)
    <3>1. \A i \in 1..Len(r) : (i \in 1..Len(toWorker) /\ r[i] = toWorker[i]) \/ r[i] = m
      BY <1>0, <2>1
    <3>2. \A i \in 1..Len(toWorker) : toWorker[i].attempt # attempt + 1
      BY <1>0, QueueFits DEF QueueRises
    <3>3. QED
      BY <2>2, <3>1, <3>2 DEF Ours
  <2>7. AnswersInLine'
    BY <1>1, <2>1, <2>4, <2>6 DEF AnswersInLine, Line
  <2>8. CandidatesAreKept'
    BY <1>1, <2>1, <2>4 DEF CandidatesAreKept
  <2>9. QED
    BY <2>3, <2>5, <2>7, <2>8
<1>3. CASE Leave
  <2> DEFINE m == Request("terminateSession")
  <2>1. /\ ~shown' /\ first' = None /\ UNCHANGED attempt /\ toWorker' = Append(toWorker, m)
    BY <1>3 DEF Leave
  <2>2. m.attempt = attempt /\ m.id = "terminateSession"
    BY DEF Request
  <2> HIDE DEF m
  <2>3. QueueRises'
    BY <1>0, <2>1, <2>2, SendingKeepsRising
  <2>4. NotYet' /\ AnswersInLine' /\ CandidatesAreKept'
    BY <1>0, <1>1, <2>1 DEF NotYet, AnswersInLine, CandidatesAreKept
  <2>5. QED
    BY <2>3, <2>4
<1>4. ASSUME NEW m \in SignalMessage, shown, UNCHANGED <<attempt, shown>>,
             Accepted(form) => toWorker' = Append(toWorker, m),
             ~Accepted(form) => UNCHANGED toWorker,
             m.attempt = attempt, m.id = "answer" => Decodes("answer", m.payload),
             first' = (IF m.id = "answer" /\ first = None THEN m.n ELSE first),
             m.id = "answer" => m.n # None
      PROVE  QueueRises' /\ NotYet' /\ AnswersInLine'
  <2>1. m.id # "initwebrtc"
    BY DEF SignalMessage
  <2>2. CASE ~Accepted(form)
    <3>1. UNCHANGED toWorker
      BY <1>4, <2>2
    <3>2. QED
      BY <1>0, <1>1, <1>4, <2>2, <3>1 DEF QueueRises, NotYet, Requested, AnswersInLine
  <2>3. CASE Accepted(form)
    <3>1. toWorker' = Append(toWorker, m)
      BY <1>4, <2>3
    <3>2. QueueRises'
      BY <1>0, <1>4, <2>1, <3>1, SendingKeepsRising
    <3>3. Requested' <=> Requested
      BY <1>0, <1>4, <2>1, <3>1, SendingKeepsRequests
    <3>4. NotYet'
      BY <1>0, <1>1, <1>4, <3>3 DEF NotYet
    <3>5. Line(toWorker, attempt, first) => Line(toWorker', attempt, first')
      BY <1>0, <1>4, <3>1, LineGrows DEF Ours
    <3>6. AnswersInLine'
      BY <1>0, <1>1, <1>4, <2>3, <3>3, <3>5 DEF AnswersInLine
    <3>7. QED
      BY <3>2, <3>4, <3>6
  <2>4. QED
    BY <2>2, <2>3
<1>5. CASE PageGathers
  <2> DEFINE m == Signal("candidate", gathered + 1)
  <2>1. m \in SignalMessage
    <3>1. gathered + 1 \in 1..(MaxAttempts + PageCandidates)
      BY <1>0, <1>5, BoundsAssumption DEF PageGathers, TypeOK
    <3>2. QED
      BY <1>0, <1>5, <3>1, PageMessagesFit DEF PageGathers
  <2>2. /\ shown /\ UNCHANGED <<attempt, shown, first, waiting, added, toPage>>
        /\ Accepted(form) => toWorker' = Append(toWorker, m)
        /\ ~Accepted(form) => UNCHANGED toWorker
    BY <1>5 DEF PageGathers, Relayed
  <2>3. m.attempt = attempt /\ m.id = "candidate"
    BY DEF Signal
  <2> HIDE DEF m
  <2>4. QueueRises' /\ NotYet' /\ AnswersInLine'
    BY <1>4, <2>1, <2>2, <2>3
  <2>5. CandidatesAreKept'
    BY <1>0, <1>1, <2>2 DEF CandidatesAreKept
  <2>6. QED
    BY <2>4, <2>5
<1>6. ASSUME PageStep, UNCHANGED <<attempt, shown, first, toWorker>>
      PROVE  QueueRises' /\ NotYet' /\ AnswersInLine'
  BY <1>0, <1>1, <1>6 DEF QueueRises, NotYet, Requested, AnswersInLine
<1>7. CASE PageStep
  <2>1. CandidatesAreKept'
    BY <1>0, <1>7, TakingKeepsCandidates
  <2>2. CASE UNCHANGED <<first, toWorker>>
    BY <1>6, <1>7, <2>1, <2>2 DEF PageStep, TakeOffer, TakeCandidate
  <2>3. CASE ~UNCHANGED <<first, toWorker>>
    <3> DEFINE k == Head(toPage).peer
               m == Signal("answer", k)
    <3>1. /\ TakeOffer /\ shown /\ UNCHANGED <<attempt, shown>>
          /\ first' = IF first = None THEN k ELSE first
          /\ Accepted(form) => toWorker' = Append(toWorker, m)
          /\ ~Accepted(form) => UNCHANGED toWorker
      BY <1>7, <2>3 DEF PageStep, TakeOffer, TakeCandidate, Relayed
    <3>2. k \in 1..(MaxAttempts + PageCandidates) /\ k # None
      BY <1>0, <3>1, PeersAreNamed, BoundsAssumption DEF TakeOffer, Attempts
    <3>3. m \in SignalMessage
      BY <1>0, <3>1, <3>2, PageMessagesFit
    <3>4. m.attempt = attempt /\ m.id = "answer" /\ m.n = k /\ Decodes("answer", m.payload)
      BY DEF Signal, Decodes, Canonical
    <3> HIDE DEF m, k
    <3>5. QueueRises' /\ NotYet' /\ AnswersInLine'
      BY <1>4, <3>1, <3>2, <3>3, <3>4
    <3>6. QED
      BY <2>1, <3>5
  <2>4. QED
    BY <2>2, <2>3
<1>8. QED
  BY <1>2, <1>3, <1>5, <1>7

(* A queue of candidates and an offer follows what the page is sent.       *)
LEMMA SentCandidates ==
    ASSUME TypeOK, NEW k \in Attempts, NEW e \in 0..PeerCandidates,
           NEW more \in Seq(PeerMessage),
           toPage' = toPage \o Candidates(k, e) \o more
    PROVE  /\ \A i \in DOMAIN toPage : i \in DOMAIN toPage' /\ toPage'[i] = toPage[i]
           /\ \A n \in 1..e : \E i \in DOMAIN toPage' : toPage'[i] = Candidate(k, n)
<1> DEFINE c == Candidates(k, e)
           a == toPage \o c
           r == toPage'
<1>1. /\ c \in Seq(PeerMessage) /\ toPage \in Seq(PeerMessage) /\ e \in Nat
      /\ Len(c) = e /\ \A n \in 1..e : c[n] = Candidate(k, n)
  <2>1. toPage \in Seq(PeerMessage)
    BY DEF TypeOK
  <2>2. e \in Nat
    BY BoundsAssumption
  <2>3. c \in Seq(PeerMessage)
    BY PeerMessagesFit
  <2>4. DOMAIN c = 1..e /\ \A n \in 1..e : c[n] = Candidate(k, n)
    BY DEF Candidates
  <2> HIDE DEF c
  <2>5. Len(c) = e
    BY <2>2, <2>3, <2>4
  <2>6. QED
    BY <2>1, <2>2, <2>3, <2>4, <2>5
<1> HIDE DEF c
<1>2. /\ a \in Seq(PeerMessage) /\ Len(a) = Len(toPage) + e /\ Len(toPage) \in Nat
      /\ \A i \in 1..Len(a) : a[i] = IF i <= Len(toPage) THEN toPage[i] ELSE c[i - Len(toPage)]
  <2>1. /\ a \in Seq(PeerMessage) /\ Len(a) = Len(toPage) + Len(c)
        /\ \A i \in 1..(Len(toPage) + Len(c)) :
              a[i] = IF i <= Len(toPage) THEN toPage[i] ELSE c[i - Len(toPage)]
    <3> HIDE DEF a
    <3>1. a = toPage \o c
      BY DEF a
    <3>2. QED
      BY <1>1, <3>1, ConcatProperties
  <2>2. Len(toPage) \in Nat
    BY <1>1
  <2> HIDE DEF a
  <2>3. QED
    BY <1>1, <2>1, <2>2
<1>3. r = a \o more
  BY DEF c
<1> HIDE DEF a, r
<1>4. /\ r \in Seq(PeerMessage) /\ Len(r) = Len(a) + Len(more) /\ Len(more) \in Nat
      /\ \A i \in 1..Len(a) : r[i] = a[i]
  <2>1. /\ r \in Seq(PeerMessage) /\ Len(r) = Len(a) + Len(more)
        /\ \A i \in 1..(Len(a) + Len(more)) : r[i] = IF i <= Len(a) THEN a[i] ELSE more[i - Len(a)]
    <3>1. a \in Seq(PeerMessage) /\ more \in Seq(PeerMessage)
      BY <1>2
    <3>2. QED
      BY <1>3, <3>1, ConcatProperties
  <2>2. Len(a) \in Nat /\ Len(more) \in Nat
    BY <1>2
  <2>3. QED
    BY <2>1, <2>2
<1>5. DOMAIN r = 1..Len(r) /\ DOMAIN toPage = 1..Len(toPage)
  BY <1>1, <1>4
<1>6. \A i \in 1..Len(toPage) : i \in 1..Len(a) /\ i \in 1..Len(r) /\ r[i] = toPage[i]
  BY <1>2, <1>4
<1>7. ASSUME NEW n \in 1..e
      PROVE  \E i \in DOMAIN r : r[i] = Candidate(k, n)
  <2>1. /\ Len(toPage) + n \in 1..Len(a) /\ Len(toPage) + n \in 1..Len(r)
        /\ ~(Len(toPage) + n <= Len(toPage)) /\ (Len(toPage) + n) - Len(toPage) = n
    BY <1>1, <1>2, <1>4
  <2>2. r[Len(toPage) + n] = Candidate(k, n)
    BY <1>1, <1>2, <1>4, <2>1
  <2>3. QED
    BY <1>5, <2>1, <2>2
<1>8. QED
  BY <1>5, <1>6, <1>7 DEF r

(* The steps of the router keep the line of the page's answers: a request  *)
(* finds nothing to replay, and the session takes the front of the line.   *)
LEMMA RouterKeepsAInv ==
    ASSUME AInv, RouterStep
    PROVE  QueueRises' /\ NotYet' /\ AnswersInLine' /\ CandidatesAreKept'
<1> DEFINE m == Head(toWorker)
<1>0. /\ TypeOK /\ InOrder /\ RouterInOrder
      /\ QueueRises /\ NotYet /\ AnswersInLine /\ CandidatesAreKept
      /\ toWorker \in Seq(SignalMessage \cup RequestMessage)
      /\ attempt \in Nat
      /\ session \in {None} \cup Attempts
      /\ emitted \in [Attempts -> 0..PeerCandidates]
  BY QueueFits DEF AInv, SInv, TypeOK
<1>1. /\ toWorker # <<>> /\ toWorker' = Tail(toWorker)
      /\ UNCHANGED <<attempt, shown, form, first, waiting, added>>
  BY DEF RouterStep, InitWebrtc, TerminateSession, HandleSignal, NextIs, pageVars
<1>2. /\ QueueRises'
      /\ Requested' => Requested /\ m.attempt < attempt
      /\ Requested => Requested' \/ (m.id = "initwebrtc" /\ m.attempt = attempt)
      /\ m.attempt <= attempt
      /\ m.id = "answer" => Decodes("answer", m.payload)
  BY <1>0, <1>1, ReadingKeepsRising
<1>3. /\ m.attempt \in Attempts
      /\ NextIs("answer") \/ NextIs("candidate") => m \in SignalMessage
  BY <1>0, <1>1, HeadFits
<1>4. ASSUME Line(toWorker, attempt, first), ~Ours(m, attempt)
      PROVE  Line(toWorker', attempt, first)
  BY <1>0, <1>1, <1>4, LineMovesUp
<1>5. shown => attempt \in Attempts
  BY <1>0, PageMessagesFit
<1> HIDE DEF m
<1>6. CASE InitWebrtc
  <2>1. session = None /\ pending = <<>> /\ m.id = "initwebrtc"
    BY <1>0, <1>6, RequestFindsNothing DEF InitWebrtc, NextIs, m
  <2> DEFINE k == m.attempt
  <2>2. PICK early \in 0..PeerCandidates :
           /\ emitted' = [emitted EXCEPT ![k] = early]
           /\ session' = k
           /\ toPage' = toPage \o Candidates(k, early) \o <<Offer(k)>>
           /\ Apply(k, <<>>)
    BY <1>6, <2>1 DEF InitWebrtc, m
  <2>3. UNCHANGED <<answer, ice>>
    BY <1>0, <1>3, <2>2, ApplyNothing
  <2>4. NotYet'
    <3>1. \A j \in Attempts : j > attempt => emitted'[j] = emitted[j]
      BY <1>0, <1>2, <1>3, <2>2 DEF Attempts
    <3>2. QED
      BY <1>0, <1>1, <1>2, <2>3, <3>1 DEF NotYet
  <2>5. AnswersInLine'
    <3>1. ~Ours(m, attempt)
      BY <2>1 DEF Ours
    <3>2. session' = attempt \/ Requested' => Requested \/ (k = attempt /\ m.id = "initwebrtc")
      BY <1>2, <2>1, <2>2
    <3>3. k = attempt => Requested
      <4>1. 1 \in 1..Len(toWorker) /\ toWorker[1] = m
        BY <1>0, <1>1 DEF m
      <4>2. QED
        BY <2>1, <4>1 DEF Requested
    <3>4. QED
      BY <1>0, <1>1, <1>4, <2>3, <3>1, <3>2, <3>3 DEF AnswersInLine
  <2>6. CandidatesAreKept'
    <3>1. /\ \A i \in DOMAIN toPage : i \in DOMAIN toPage' /\ toPage'[i] = toPage[i]
          /\ \A n \in 1..early : \E i \in DOMAIN toPage' : toPage'[i] = Candidate(k, n)
      <4>1. <<Offer(k)>> \in Seq(PeerMessage)
        BY <1>3, PeerMessagesFit
      <4>2. QED
        BY <1>0, <1>3, <2>2, <4>1, SentCandidates
    <3>2. CASE k = attempt
      <4>1. emitted'[attempt] = early
        BY <1>0, <1>3, <2>2, <3>2
      <4>2. QED
        BY <1>1, <3>1, <3>2, <4>1 DEF CandidatesAreKept
    <3>3. CASE k # attempt
      <4>1. emitted'[attempt] = emitted[attempt]
        BY <1>0, <2>2, <3>3
      <4>2. QED
        BY <1>0, <1>1, <3>1, <4>1 DEF CandidatesAreKept
    <3>4. QED
      BY <3>2, <3>3
  <2>7. QED
    BY <1>2, <2>4, <2>5, <2>6
<1>7. CASE TerminateSession
  <2>1. /\ m.id = "terminateSession" /\ session' = None
        /\ UNCHANGED <<answer, emitted, toPage>>
    BY <1>7 DEF TerminateSession, NextIs, m
  <2>2. NotYet' /\ CandidatesAreKept'
    BY <1>0, <1>1, <1>2, <2>1 DEF NotYet, CandidatesAreKept
  <2>3. AnswersInLine'
    <3>1. ~Ours(m, attempt)
      BY <2>1 DEF Ours
    <3>2. shown /\ (session' = attempt \/ Requested') => Requested
      BY <1>2, <1>0, <2>1 DEF InOrder
    <3>3. QED
      BY <1>0, <1>1, <1>4, <2>1, <3>1, <3>2 DEF AnswersInLine
  <2>4. QED
    BY <1>2, <2>2, <2>3
<1>8. CASE HandleSignal
  <2>1. /\ m \in SignalMessage /\ m.id # "initwebrtc" /\ m.id # "terminateSession"
        /\ UNCHANGED <<session, emitted, toPage>>
    BY <1>3, <1>8 DEF HandleSignal, NextIs, SignalMessage, m
  <2>2. Served = m.attempt
    BY <1>0, <1>1, <2>1, ReadingTellsAttempt DEF m
  <2>3. CandidatesAreKept'
    BY <1>0, <1>1, <2>1 DEF CandidatesAreKept
  <2>4. \A k \in Attempts : k # m.attempt => answer'[k] = answer[k]
    <3>1. CASE session = None
      BY <1>8, <3>1 DEF HandleSignal
    <3>2. CASE session # None
      <4>1. Apply(session, <<m>>) /\ session \in Attempts /\ session = m.attempt
        BY <1>0, <1>8, <2>2, <3>2 DEF HandleSignal, RouterInOrder, m
      <4>2. QED
        BY <1>0, <2>1, <4>1, ApplyOneFits
    <3>3. QED
      BY <3>1, <3>2
  <2>5. NotYet'
    <3>1. \A k \in Attempts : k > attempt => answer'[k] = <<>>
      BY <1>0, <1>2, <2>4 DEF NotYet, Attempts
    <3>2. shown /\ Requested' => answer'[attempt] = <<>>
      BY <1>0, <1>1, <1>2, <1>3, <1>5, <2>4 DEF NotYet, Attempts
    <3>3. QED
      BY <1>0, <1>1, <2>1, <3>1, <3>2 DEF NotYet
  <2>6. CASE m.attempt # attempt
    <3>1. ~Ours(m, attempt) /\ (Requested' <=> Requested)
      BY <1>2, <2>1, <2>6 DEF Ours
    <3>2. shown => answer'[attempt] = answer[attempt]
      BY <1>5, <2>4, <2>6
    <3>3. AnswersInLine'
      BY <1>0, <1>1, <1>4, <2>1, <3>1, <3>2 DEF AnswersInLine
    <3>4. QED
      BY <1>2, <2>3, <2>5, <3>3
  <2>7. CASE m.attempt = attempt
    <3>1. ~Requested'
      BY <1>0, <1>2, <2>7
    <3> SUFFICES ASSUME shown, Accepted(form), session = attempt
                 PROVE  AnswersInLine'
      BY <1>1, <1>2, <2>1, <2>3, <2>5, <3>1 DEF AnswersInLine
    <3>2. IF answer[attempt] # <<>> THEN first # None /\ answer[attempt].n = first
          ELSE Line(toWorker, attempt, first)
      BY <1>0 DEF AnswersInLine
    <3>3. attempt \in Attempts /\ attempt # None
      BY <1>5, <1>0 DEF InOrder
    <3> DEFINE p == [answer |-> answer[attempt], ice |-> ice[attempt]]
    <3>4. answer' = [answer EXCEPT ![attempt] = Applied(p, m).answer]
      <4>1. Apply(attempt, <<m>>)
        BY <1>8, <3>3 DEF HandleSignal, m
      <4>2. AfterSignals(p, <<m>>) = Applied(p, m)
        BY AfterOneSignal
      <4>3. QED
        BY <4>1, <4>2 DEF Apply
    <3>5. answer'[attempt] = Applied(p, m).answer
      BY <1>0, <3>3, <3>4 DEF TypeOK
    <3>6. CASE m.id = "answer" /\ answer[attempt] = <<>>
      <4>1. Ours(m, attempt) /\ m = Head(toWorker)
        BY <2>7, <3>6 DEF Ours, m
      <4>2. first # None /\ m.n = first
        BY <1>0, <1>1, <3>2, <3>6, <4>1, LineFront
      <4>3. answer'[attempt] = m
        BY <1>2, <3>5, <3>6 DEF Applied
      <4>4. m # <<>>
        <5>1. "id" \in DOMAIN m
          BY <2>1 DEF SignalMessage
        <5>2. DOMAIN <<>> = {}
          OBVIOUS
        <5>3. QED
          BY <5>1, <5>2
      <4>5. QED
        BY <1>1, <4>2, <4>3, <4>4 DEF AnswersInLine
    <3>7. CASE m.id # "answer" \/ answer[attempt] # <<>>
      <4>1. answer'[attempt] = answer[attempt]
        BY <3>5, <3>7 DEF Applied
      <4>2. answer[attempt] = <<>> => Line(toWorker', attempt, first)
        BY <1>4, <3>2, <3>7 DEF Ours
      <4>3. QED
        BY <1>1, <3>2, <4>1, <4>2 DEF AnswersInLine
    <3>8. QED
      BY <3>6, <3>7
  <2>8. QED
    BY <1>2, <2>3, <2>5, <2>6, <2>7
<1>9. QED
  BY <1>6, <1>7, <1>8 DEF RouterStep

(* A peer adds candidates behind what the page is sent, or ends a session. *)
LEMMA PeersKeepAInv ==
    ASSUME AInv, NEW k \in Attempts, PeerGathers(k) \/ PeerEnding(k)
    PROVE  QueueRises' /\ NotYet' /\ AnswersInLine' /\ CandidatesAreKept'
<1>0. /\ TypeOK /\ InOrder /\ QueueRises /\ NotYet /\ AnswersInLine /\ CandidatesAreKept
      /\ toPage \in Seq(PeerMessage)
      /\ attempt \in Nat
      /\ emitted \in [Attempts -> 0..PeerCandidates] /\ PeerCandidates \in Nat
  BY QueueFits, BoundsAssumption DEF AInv, SInv, TypeOK
<1>1. /\ UNCHANGED <<attempt, shown, form, first, waiting, added, toWorker, answer>>
      /\ session' \in {session, None}
  BY DEF PeerGathers, PeerEnding, pageVars
<1>2. QueueRises'
  BY <1>0, <1>1 DEF QueueRises
<1>3. AnswersInLine'
  BY <1>0, <1>1 DEF AnswersInLine, Requested, InOrder
<1>4. CASE PeerGathers(k)
  <2> DEFINE c == Candidate(k, emitted[k] + 1)
  <2>1. /\ k <= attempt /\ emitted' = [emitted EXCEPT ![k] = @ + 1] /\ toPage' = Append(toPage, c)
        /\ emitted[k] < PeerCandidates
    BY <1>4 DEF PeerGathers, Created
  <2>2. NotYet'
    <3>1. \A j \in Attempts : j > attempt => emitted'[j] = emitted[j]
      BY <1>0, <2>1 DEF Attempts
    <3>2. QED
      BY <1>0, <1>1, <3>1 DEF NotYet, Requested
  <2> DEFINE r == toPage'
  <2>3. /\ Len(toPage) \in Nat /\ Len(r) = Len(toPage) + 1 /\ r[Len(toPage) + 1] = c
        /\ \A i \in 1..Len(toPage) : r[i] = toPage[i]
        /\ DOMAIN toPage = 1..Len(toPage) /\ DOMAIN r = 1..Len(r)
    <3> HIDE DEF c
    <3>1. QED
      BY <1>0, <2>1
  <2> HIDE DEF r
  <2>4. \A i \in DOMAIN toPage : i \in DOMAIN r /\ r[i] = toPage[i]
    BY <2>3
  <2>5. Len(toPage) + 1 \in DOMAIN r
    BY <2>3
  <2>6. ASSUME NEW n \in 1..emitted'[attempt], shown
        PROVE  n \in 1..emitted[attempt] \/ c = Candidate(attempt, n)
    <3>1. attempt \in Attempts
      BY <1>0, <2>6, PageMessagesFit
    <3>2. CASE k = attempt
      <4>1. emitted'[attempt] = emitted[attempt] + 1 /\ emitted[attempt] \in Nat
        BY <1>0, <2>1, <3>1, <3>2
      <4>2. n \in 1..emitted[attempt] \/ n = emitted[attempt] + 1
        BY <4>1
      <4>3. QED
        BY <3>2, <4>2
    <3>3. CASE k # attempt
      BY <1>0, <2>1, <3>1, <3>3
    <3>4. QED
      BY <3>2, <3>3
  <2> HIDE DEF c
  <2>7. CandidatesAreKept'
    <3> SUFFICES ASSUME shown, NEW n \in 1..emitted'[attempt]
                 PROVE  \/ \E i \in DOMAIN r : r[i] = Candidate(attempt, n)
                        \/ Candidate(attempt, n) \in (IF first = None THEN waiting ELSE added)
      BY <1>1 DEF CandidatesAreKept, r
    <3>1. CASE n \in 1..emitted[attempt]
      BY <1>0, <2>4, <3>1 DEF CandidatesAreKept
    <3>2. CASE c = Candidate(attempt, n)
      BY <2>3, <2>5, <3>2
    <3>3. QED
      BY <2>6, <3>1, <3>2
  <2>8. QED
    BY <1>2, <1>3, <2>2, <2>7
<1>5. CASE PeerEnding(k)
  <2>1. UNCHANGED <<toPage, emitted>>
    BY <1>5 DEF PeerEnding
  <2>2. NotYet' /\ CandidatesAreKept'
    BY <1>0, <1>1, <2>1 DEF NotYet, Requested, CandidatesAreKept
  <2>3. QED
    BY <1>2, <1>3, <2>2
<1>6. QED
  BY <1>4, <1>5

LEMMA AInvStep == AInv /\ [Next]_vars => AInv'
<1> SUFFICES ASSUME AInv, [Next]_vars PROVE AInv'
  OBVIOUS
<1>1. SInv'
  BY SInvStep DEF AInv
<1>2. CASE UNCHANGED vars
  <2>1. QueueRises' /\ NotYet' /\ AnswersInLine' /\ CandidatesAreKept'
    BY <1>2 DEF AInv, QueueRises, NotYet, AnswersInLine, Requested, CandidatesAreKept,
       vars, pageVars, peerVars
  <2>2. QED
    BY <1>1, <2>1 DEF AInv
<1>3. QED
  BY <1>1, <1>2, PageKeepsAInv, RouterKeepsAInv, PeersKeepAInv DEF AInv, Next

LEMMA AInvHolds == Spec => []AInv
<1>1. Init => AInv
  <2> SUFFICES ASSUME Init PROVE AInv
    OBVIOUS
  <2>1. SInv
    BY SInvInit
  <2>2. QueueRises /\ NotYet /\ AnswersInLine /\ CandidatesAreKept
    BY DEF Init, QueueRises, NotYet, Requested, AnswersInLine, CandidatesAreKept
  <2>3. QED
    BY <2>1, <2>2 DEF AInv
<1>2. QED
  BY <1>1, AInvStep, PTL DEF Spec

(* While the session of the page's attempt is registered, the messages on  *)
(* their way to it are all of that attempt.                                *)
LEMMA OnlyOurs ==
    ASSUME TypeOK, RouterInOrder, QueueRises, InOrder, Lasts
    PROVE  \A i \in 1..Len(toWorker) : toWorker[i].attempt = attempt
<1> SUFFICES ASSUME NEW i \in 1..Len(toWorker) PROVE toWorker[i].attempt = attempt
  OBVIOUS
<1>1. /\ Len(toWorker) \in Nat /\ toWorker # <<>> /\ Head(toWorker) = toWorker[1]
      /\ 1 \in 1..Len(toWorker) /\ attempt \in Nat
      /\ \A j \in 1..Len(toWorker) : toWorker[j].attempt \in Nat
  BY QueueFits
<1>2. toWorker[1].attempt = attempt
  BY <1>1 DEF RouterInOrder, Served, Lasts, InOrder
<1>3. toWorker[i].attempt <= attempt /\ (1 < i => toWorker[1].attempt <= toWorker[i].attempt)
  BY <1>1 DEF QueueRises
<1>4. i = 1 \/ 1 < i
  BY <1>1
<1>5. QED
  BY <1>1, <1>2, <1>3, <1>4

(* The remote description of the session's peer is, or becomes with the    *)
(* first answer that is on its way, the page's answer to the first offer   *)
(* it took in the attempt: whatever the page writes, the server makes of   *)
(* it what the worker decodes, later answers are ignored, and no earlier   *)
(* attempt's are left (gameSessionRuntime.js:377-402, protocol.rs:398-445, *)
(* webrtc_session.rs:37-66, signal_router.rs:146-164).                     *)
THEOREM FirstAnswersCount == Spec => []FirstAnswerCounts
<1>1. AInv => FirstAnswerCounts
  <2> SUFFICES ASSUME AInv, Lasts, first # None, Accepted(form), answer[attempt] = <<>>
               PROVE  \E i \in DOMAIN toWorker :
                         /\ toWorker[i].id = "answer" /\ toWorker[i].n = first
                         /\ \A j \in 1..(i - 1) : toWorker[j].id # "answer"
    BY DEF FirstAnswerCounts, AInv, AnswersInLine, Lasts
  <2>1. \A i \in 1..Len(toWorker) : toWorker[i].attempt = attempt
    BY OnlyOurs DEF AInv, SInv
  <2>2. PICK i \in 1..Len(toWorker) : /\ Ours(toWorker[i], attempt) /\ toWorker[i].n = first
                                      /\ \A j \in 1..(i - 1) : ~Ours(toWorker[j], attempt)
    BY DEF AInv, AnswersInLine, Lasts, Line
  <2>3. Len(toWorker) \in Nat /\ DOMAIN toWorker = 1..Len(toWorker)
    BY QueueFits DEF AInv, SInv
  <2>4. \A j \in 1..(i - 1) : j \in 1..Len(toWorker)
    BY <2>3
  <2>5. QED
    BY <2>1, <2>2, <2>3, <2>4 DEF Ours
<1>2. QED
  BY <1>1, AInvHolds, PTL

(* No candidate of the worker is lost on its way to a page that is shown,  *)
(* whether it came before the offer or after it                            *)
(* (gameSessionRuntime.js:350-366, 404-415, webrtc_session.rs:204-229,     *)
(* 257-264).                                                               *)
THEOREM NoCandidateIsLost == Spec => []CandidatesAreKept
  BY AInvHolds, PTL DEF AInv
=============================================================================
