-------------------------- MODULE FrameSenderProofs --------------------------
(***************************************************************************)
(* The properties of FrameSender, for any sessions, pictures, profiles and *)
(* limits.  Types come first, operator by operator.  Then: a stream that   *)
(* was sent something has an active sender, so that the timestamps are not *)
(* reset under it; and whatever owes a keyframe (Owes) still owes it after *)
(* each part of the handling of a frame, or the frame is the keyframe.     *)
(***************************************************************************)
EXTENDS FrameSender, TLAPS

Limits == {p \in Profile : InLimits(p)}

(* The limits one by one. *)
LEMMA LimitsArePositive ==
    /\ RefreshFrames \in Nat \ {0} /\ StableFrames \in Nat \ {0} /\ EmptyRetries \in Nat \ {0}
    /\ ScaleFailures \in Nat \ {0} /\ Wrap \in Nat \ {0} /\ StartupRetries \in Nat
BY LimitAssumption

LEMMA ZeroInLimits ==
    /\ 0 \in 0..StableFrames /\ 0 \in 0..EmptyRetries /\ 0 \in 0..ScaleFailures
    /\ 0 \in 0..(Wrap - 1) /\ 0 \in 0..StartupRetries /\ 0 \in Nat
BY LimitsArePositive

-----------------------------------------------------------------------------
(* Profiles stay within the limits, and pressure never raises the frame    *)
(* rate (video_sender.rs: degrade_video_profile, restore_video_profile).   *)
LEMMA ProfileSteps ==
    ASSUME NEW p \in Limits
    PROVE  /\ Degraded(p) \in Limits /\ Degraded(p).interval >= p.interval
           /\ p.interval < Floor.interval => Degraded(p).interval > p.interval
           /\ Slower(p) \in Limits /\ Slower(p).interval >= p.interval
           /\ Faster(p) \in Limits
           /\ Restored(p) \in Limits
<1> USE ProfileAssumption DEF Limits, InLimits, Profile, AtLeast, AtMost, Minus
<1>1. Degraded(p) \in Limits /\ Degraded(p).interval >= p.interval
  BY DEF Degraded
<1>2. p.interval < Floor.interval => Degraded(p).interval > p.interval
  BY DEF Degraded
<1>3. Slower(p) = [width |-> p.width, height |-> p.height,
                   interval |-> AtMost(p.interval + Stride.interval, Floor.interval)]
  BY DEF Slower
<1>4. Slower(p) \in Limits /\ Slower(p).interval >= p.interval
  BY <1>3
<1>5. Faster(p) = [width |-> p.width, height |-> p.height,
                   interval |-> AtLeast(Minus(p.interval, Stride.interval), Best.interval)]
  BY DEF Faster
<1>6. Faster(p) \in Limits
  BY <1>5
<1>7. Restored(p) \in Limits
  BY DEF Restored
<1>8. QED
  BY <1>1, <1>2, <1>4, <1>6, <1>7

(* A scaled picture is a picture (video_sender.rs: scale_dimensions).      *)
LEMMA BlocksType == ASSUME NEW n \in Nat PROVE Blocks(n) \in Nat
BY DEF Blocks, CeilDiv, AtLeast

LEMMA RoundedType ==
    ASSUME NEW n \in Nat, NEW d \in Nat \ {0}
    PROVE  Rounded(n, d) \in Nat
<1>1. 2 * n + d \in Nat /\ 2 * d \in Nat \ {0}
  OBVIOUS
<1>2. \A a \in Nat, b \in Nat \ {0} : a \div b \in Nat
  OBVIOUS
<1>3. QED
  BY <1>1, <1>2 DEF Rounded

LEMMA FittedType ==
    ASSUME NEW size \in Size, NEW n \in Nat, NEW d \in Nat \ {0}
    PROVE  Fitted(size, n, d) \in Size
<1>1. size.width * n \in Nat /\ size.height * n \in Nat
  BY DEF Size
<1>2. QED
  BY <1>1, RoundedType, BlocksType DEF Fitted, Size

LEMMA ScaledType ==
    ASSUME NEW size \in Size, NEW p \in Limits
    PROVE  Scaled(size, p) \in Size
<1> DEFINE byWidth == p.width * size.height <= p.height * size.width
           n == IF byWidth THEN p.width ELSE p.height
           d == IF byWidth THEN size.width ELSE size.height
<1>1. n \in Nat /\ d \in Nat
  BY DEF Limits, Profile, Size
<1>2. Scaled(size, p) = CASE n >= d -> Fitted(size, 1, 1)
                          [] 10 * n < d -> Fitted(size, 1, 10)
                          [] OTHER -> Fitted(size, n, d)
  BY DEF Scaled
<1> HIDE DEF n, d
<1>3. CASE n >= d
  BY <1>1, <1>2, <1>3, FittedType
<1>4. CASE ~(n >= d) /\ 10 * n < d
  <2>1. Scaled(size, p) = Fitted(size, 1, 10)
    BY <1>2, <1>4
  <2>2. 1 \in Nat /\ 10 \in Nat \ {0}
    OBVIOUS
  <2>3. QED
    BY <2>1, <2>2, FittedType
<1>5. CASE ~(n >= d) /\ ~(10 * n < d)
  <2>1. Scaled(size, p) = Fitted(size, n, d)
    BY <1>2, <1>5
  <2>2. d \in Nat \ {0}
    BY <1>1, <1>5
  <2>3. QED
    BY <1>1, <2>1, <2>2, FittedType
<1>6. QED
  BY <1>3, <1>4, <1>5

-----------------------------------------------------------------------------
(* The encoder. *)

(* It starts over or was asked for an intra frame, or the next frame needs *)
(* another encoder because its interval is longer.                         *)
OwesAt(e, interval) ==
    \/ e.fresh \/ e.intra
    \/ e.settings = None
    \/ e.settings # None /\ interval > e.settings.interval

Owes(st) == OwesAt(st.encoder, st.profile.interval)

(* What each operation makes of an encoder (video_sender.rs:475-676).      *)
LEMMA EncoderSteps ==
    ASSUME NEW e \in Encoder
    PROVE  /\ Used(e) \in Encoder /\ Used(e).settings = e.settings
           /\ Emptied(e) \in Encoder /\ Emptied(e).settings = e.settings
           /\ Emptied(e).fresh = e.fresh /\ Emptied(e).intra = e.intra
           /\ WithIntra(e) \in Encoder /\ WithIntra(e).intra = TRUE
           /\ [e EXCEPT !.streak = 0] \in Encoder
           /\ [e EXCEPT !.streak = 0].settings = e.settings
           /\ [e EXCEPT !.streak = 0].fresh = e.fresh
           /\ [e EXCEPT !.streak = 0].intra = e.intra
<1> USE DEF Encoder
<1>1. 0 \in 0..EmptyRetries /\ AtMost(e.streak + 1, EmptyRetries) \in 0..EmptyRetries
  BY LimitsArePositive DEF AtMost
<1>2. Used(e) \in Encoder /\ Used(e).settings = e.settings
  BY <1>1 DEF Used
<1>3. /\ Emptied(e) \in Encoder /\ Emptied(e).settings = e.settings
      /\ Emptied(e).fresh = e.fresh /\ Emptied(e).intra = e.intra
  BY <1>1 DEF Emptied
<1>4. WithIntra(e) \in Encoder /\ WithIntra(e).intra = TRUE
  BY DEF WithIntra
<1>5. /\ [e EXCEPT !.streak = 0] \in Encoder
      /\ [e EXCEPT !.streak = 0].settings = e.settings
      /\ [e EXCEPT !.streak = 0].fresh = e.fresh
      /\ [e EXCEPT !.streak = 0].intra = e.intra
  BY <1>1
<1>6. QED
  BY <1>2, <1>3, <1>4, <1>5

LEMMA NewEncoderType ==
    ASSUME NEW s \in Profile \cup {None}
    PROVE  /\ NewEncoder(s) \in Encoder
           /\ NewEncoder(s).settings = s /\ NewEncoder(s).fresh = TRUE
           /\ [NewEncoder(s) EXCEPT !.streak = 1] \in Encoder
           /\ [NewEncoder(s) EXCEPT !.streak = 1].fresh = TRUE
<1>1. 0 \in 0..EmptyRetries /\ 1 \in 0..EmptyRetries
  BY LimitsArePositive
<1>2. NewEncoder(s) \in Encoder /\ NewEncoder(s).settings = s /\ NewEncoder(s).fresh = TRUE
  BY <1>1 DEF NewEncoder, Encoder
<1>3. /\ [NewEncoder(s) EXCEPT !.streak = 1] \in Encoder
      /\ [NewEncoder(s) EXCEPT !.streak = 1].fresh = TRUE
  BY <1>1, <1>2 DEF Encoder
<1>4. QED
  BY <1>2, <1>3

(* What comes of one use of an encoder is of two kinds.                    *)
LEMMA EncodeKinds ==
    ASSUME NEW e \in Encoder, NEW want \in Profile, NEW o \in Encode(e, want)
    PROVE  \/ \E r \in {e, NewEncoder(want)}, f \in Payload :
                /\ r.settings = want
                /\ Produces(r, f)
                /\ o = [encoder |-> Used(r), payload |-> f]
           \/ /\ o.payload = None
              /\ o.encoder \in {e, Emptied(e), Emptied(NewEncoder(want)),
                                [NewEncoder(want) EXCEPT !.streak = 1]}
<1> DEFINE new == NewEncoder(want)
           ready == IF e.settings = want THEN e ELSE new
           given(enc) == {[encoder |-> Used(enc), payload |-> f] : f \in {g \in Payload : Produces(enc, g)}}
<1>1. new.settings = want /\ new \in Encoder /\ new.fresh
  BY NewEncoderType
<1>2. \/ o \in given(ready)
      \/ o = [encoder |-> e, payload |-> None]
      \/ o = [encoder |-> Emptied(ready), payload |-> None]
      \/ o \in given(new)
      \/ o = [encoder |-> [new EXCEPT !.streak = 1], payload |-> None]
  BY DEF Encode
<1>3. ready \in {e, new} /\ ready.settings = want
  BY <1>1
<1> HIDE DEF new
<1>4. CASE o \in given(ready)
  BY <1>3, <1>4 DEF new
<1>5. CASE o = [encoder |-> e, payload |-> None]
  <2>1. o.payload = None /\ o.encoder = e
    BY <1>5
  <2>2. QED
    BY <2>1
<1>6. CASE o = [encoder |-> Emptied(ready), payload |-> None]
  <2>1. o.payload = None /\ o.encoder = Emptied(ready)
    BY <1>6
  <2>2. CASE ready = e
    BY <1>3, <2>1, <2>2
  <2>3. CASE ready = new
    BY <2>1, <2>3 DEF new
  <2>4. QED
    BY <1>3, <2>2, <2>3
<1>7. CASE o \in given(new)
  BY <1>1, <1>7 DEF new
<1>8. CASE o = [encoder |-> [new EXCEPT !.streak = 1], payload |-> None]
  BY <1>8, NewEncoderType DEF new
<1>9. QED
  BY <1>2, <1>4, <1>5, <1>6, <1>7, <1>8

(* What an encoder is after a use has its type, and it still owes the      *)
(* keyframe it owed unless that is what it produced.                       *)
Outcome(o, want, e) ==
    /\ o.encoder \in Encoder
    /\ o.payload \in Payload \cup {None}
    /\ o.payload # None => o.encoder.settings = want
    /\ OwesAt(e, want.interval) =>
          IF o.payload = None THEN OwesAt(o.encoder, want.interval) ELSE o.payload.key

LEMMA EncodeOutcome ==
    ASSUME NEW e \in Encoder, NEW want \in Profile, NEW o \in Encode(e, want)
    PROVE  Outcome(o, want, e)
<1> DEFINE new == NewEncoder(want)
<1>1. new \in Encoder /\ new.settings = want /\ new.fresh = TRUE
  BY NewEncoderType
<1>2. want # None /\ want.interval \in Nat
  BY NoneAssumption DEF Profile
<1>3. ASSUME NEW r \in {e, new}, NEW f \in Payload, r.settings = want, Produces(r, f),
             o = [encoder |-> Used(r), payload |-> f]
      PROVE  Outcome(o, want, e)
  <2>1. o.encoder = Used(r) /\ o.payload = f
    BY <1>3
  <2>2. f # None
    BY NoneAssumption
  <2>3. r \in Encoder
    BY <1>1
  <2>4. Used(r) \in Encoder /\ Used(r).settings = want
    BY <1>3, <2>3, EncoderSteps
  <2>5. ASSUME OwesAt(e, want.interval)
        PROVE  f.key
    <3>1. CASE r = e
      <4>1. e.settings = want
        BY <1>3, <3>1
      <4>2. e.fresh \/ e.intra
        BY <1>2, <2>5, <4>1 DEF OwesAt
      <4>3. QED
        BY <1>3, <3>1, <4>2 DEF Produces
    <3>2. CASE r = new
      BY <1>1, <1>3, <3>2 DEF Produces
    <3>3. QED
      BY <3>1, <3>2
  <2>6. QED
    BY <2>1, <2>2, <2>4, <2>5 DEF Outcome
<1>4. ASSUME o.payload = None,
             o.encoder \in {e, Emptied(e), Emptied(new), [new EXCEPT !.streak = 1]}
      PROVE  Outcome(o, want, e)
  <2> HIDE DEF new
  <2>1. Emptied(e) \in Encoder /\ Emptied(e).settings = e.settings
        /\ Emptied(e).fresh = e.fresh /\ Emptied(e).intra = e.intra
    BY EncoderSteps
  <2>2. Emptied(new) \in Encoder /\ Emptied(new).fresh = TRUE
    BY <1>1, EncoderSteps
  <2>3. [new EXCEPT !.streak = 1] \in Encoder /\ [new EXCEPT !.streak = 1].fresh = TRUE
    BY NewEncoderType DEF new
  <2>4. o.encoder \in Encoder
    BY <1>4, <2>1, <2>2, <2>3
  <2>5. ASSUME OwesAt(e, want.interval)
        PROVE  OwesAt(o.encoder, want.interval)
    BY <1>4, <2>1, <2>2, <2>3, <2>5 DEF OwesAt
  <2>6. QED
    BY <1>4, <2>4, <2>5 DEF Outcome
<1>5. QED
  BY <1>3, <1>4, EncodeKinds

(* The same of a scaled picture, with or without the full one after it.    *)
LEMMA BuildOutcome ==
    ASSUME NEW st \in Sender, NEW size \in Size, NEW b \in Build(st, size)
    PROVE  /\ b.encoder \in Encoder
           /\ b.payload \in Payload \cup {None}
           /\ b.payload # None => b.encoder.settings # None /\ b.encoder.settings.interval = st.profile.interval
           /\ Owes(st) =>
                IF b.payload = None THEN OwesAt(b.encoder, st.profile.interval) ELSE b.payload.key
<1> DEFINE whole == Settings(size, st.profile)
           part == Settings(Scaled(size, st.profile), st.profile)
           interval == st.profile.interval
           full(e) == {[encoder |-> o.encoder, payload |-> o.payload, scaled |-> FALSE] : o \in Encode(e, whole)}
           tried == Encode(st.encoder, part)
           Fine(c, e) == /\ c.encoder \in Encoder
                         /\ c.payload \in Payload \cup {None}
                         /\ c.payload # None => c.encoder.settings # None /\ c.encoder.settings.interval = interval
                         /\ OwesAt(e, interval) =>
                              IF c.payload = None THEN OwesAt(c.encoder, interval) ELSE c.payload.key
<1>1. st.profile \in Limits /\ st.encoder \in Encoder
  BY DEF Sender, Limits
<1>2. /\ whole \in Profile /\ whole.interval = interval
      /\ part \in Profile /\ part.interval = interval
  BY <1>1, ScaledType DEF Settings, Size, Profile, Limits
<1>3. \A s \in Profile : s # None
  BY NoneAssumption
<1> HIDE DEF whole, part, interval
<1>4. ASSUME NEW e \in Encoder, NEW c \in full(e)
      PROVE  Fine(c, e)
  <2>1. PICK o \in Encode(e, whole) : c = [encoder |-> o.encoder, payload |-> o.payload, scaled |-> FALSE]
    BY <1>4
  <2>2. c.encoder = o.encoder /\ c.payload = o.payload
    BY <2>1
  <2>3. Outcome(o, whole, e)
    BY <1>2, EncodeOutcome
  <2>4. QED
    BY <1>2, <1>3, <2>2, <2>3 DEF Outcome
<1>5. ASSUME NEW t \in tried
      PROVE  Fine(t, st.encoder)
  <2>1. Outcome(t, part, st.encoder)
    BY <1>1, <1>2, EncodeOutcome
  <2>2. QED
    BY <1>2, <1>3, <2>1 DEF Outcome
<1>6. \/ b \in full(st.encoder)
      \/ \E t \in tried : t.payload # None /\ b = [encoder |-> t.encoder, payload |-> t.payload, scaled |-> TRUE]
      \/ \E t \in tried : t.payload = None /\ b \in full(t.encoder)
  BY DEF Build, whole, part
<1>7. CASE b \in full(st.encoder)
  <2>1. Fine(b, st.encoder)
    BY <1>1, <1>4, <1>7
  <2>2. QED
    BY <2>1 DEF Owes, interval
<1>8. ASSUME NEW t \in tried, t.payload # None,
             b = [encoder |-> t.encoder, payload |-> t.payload, scaled |-> TRUE]
      PROVE  Fine(b, st.encoder)
  <2>1. b.encoder = t.encoder /\ b.payload = t.payload
    BY <1>8
  <2>2. QED
    BY <1>5, <2>1
<1>9. ASSUME NEW t \in tried, t.payload = None, b \in full(t.encoder)
      PROVE  Fine(b, st.encoder)
  <2>1. Fine(t, st.encoder)
    BY <1>5
  <2>2. Fine(b, t.encoder)
    BY <1>4, <1>9, <2>1
  <2>3. QED
    BY <1>9, <2>1, <2>2
<1>10. QED
  BY <1>6, <1>7, <1>8, <1>9 DEF Owes, interval

-----------------------------------------------------------------------------
(* The sender. *)

(* A change that neither starts the stream again nor ends it.              *)
Continues(st, new) ==
    /\ new \in Sender
    /\ new.active = st.active
    /\ new.timestamp = st.timestamp

(* The parts of a transition (video_sender.rs:258-317).                    *)
LEMMA ResetEffect ==
    ASSUME NEW st \in Sender
    PROVE  Reset(st) \in Sender /\ Reset(st).active = TRUE /\ Owes(Reset(st))
<1> DEFINE e == [st.encoder EXCEPT !.settings = None, !.streak = 0]
<1>1. e \in Encoder /\ WithIntra(e) \in Encoder /\ WithIntra(e).intra = TRUE
  <2>1. st.encoder \in Encoder
    BY DEF Sender
  <2>2. e \in Encoder
    BY <2>1, ZeroInLimits DEF Encoder
  <2>3. QED
    BY <2>2, EncoderSteps
<1>2. Best \in Limits
  BY ProfileAssumption DEF Limits, InLimits, Profile
<1> DEFINE new == [st EXCEPT !.active = TRUE, !.profile = Best, !.startup = 0,
                     !.sentFirst = FALSE, !.stable = 0, !.timestamp = 0,
                     !.scaledOff = FALSE, !.scaleFailures = 0, !.sinceRefresh = 0,
                     !.encoder = WithIntra(e)]
<1>3. Reset(st) = new
  BY DEF Reset
<1> HIDE DEF e
<1>4. new \in Sender
  BY <1>1, <1>2, ZeroInLimits DEF Sender, Limits
<1>5. new.active = TRUE /\ new.encoder = WithIntra(e)
  BY DEF Sender
<1>6. QED
  BY <1>1, <1>3, <1>4, <1>5 DEF Owes, OwesAt

LEMMA RefreshedEffect ==
    ASSUME NEW st \in Sender, NEW renewed \in BOOLEAN
    PROVE  /\ Continues(st, Refreshed(st, renewed))
           /\ Owes(Refreshed(st, renewed))
<1> DEFINE e == IF renewed THEN NewEncoder(None) ELSE [st.encoder EXCEPT !.streak = 0]
<1>1. e \in Encoder /\ WithIntra(e) \in Encoder /\ WithIntra(e).intra = TRUE
  <2>1. st.encoder \in Encoder
    BY DEF Sender
  <2>2. e \in Encoder
    BY <2>1, NewEncoderType, EncoderSteps
  <2>3. QED
    BY <2>2, EncoderSteps
<1> DEFINE new == [st EXCEPT !.encoder = WithIntra(e),
                     !.sentFirst = FALSE, !.stable = 0, !.startup = 0,
                     !.scaleFailures = 0, !.scaledOff = FALSE, !.sinceRefresh = 0]
<1>2. Refreshed(st, renewed) = new
  BY DEF Refreshed
<1> HIDE DEF e
<1>3. new \in Sender
  BY <1>1, ZeroInLimits DEF Sender
<1>4. new.active = st.active /\ new.timestamp = st.timestamp /\ new.encoder = WithIntra(e)
  BY DEF Sender
<1>5. QED
  BY <1>1, <1>2, <1>3, <1>4 DEF Owes, OwesAt, Continues

LEMMA ForcedEffect ==
    ASSUME NEW st \in Sender
    PROVE  Continues(st, Forced(st)) /\ Owes(Forced(st))
<1>1. WithIntra(st.encoder) \in Encoder /\ WithIntra(st.encoder).intra = TRUE
  BY EncoderSteps DEF Sender
<1> DEFINE new == [st EXCEPT !.encoder = WithIntra(st.encoder)]
<1>2. Forced(st) = new
  BY DEF Forced
<1>3. new \in Sender /\ new.active = st.active /\ new.timestamp = st.timestamp
  BY <1>1 DEF Sender
<1>4. new.encoder = WithIntra(st.encoder)
  BY DEF Sender
<1>5. QED
  BY <1>1, <1>2, <1>3, <1>4 DEF Owes, OwesAt, Continues

LEMMA ShowingEffect ==
    ASSUME NEW st \in Sender, NEW size \in Size
    PROVE  /\ Continues(st, Showing(st, size))
           /\ Owes(st) => Owes(Showing(st, size))
<1> DEFINE e == [st.encoder EXCEPT !.streak = 0]
           new == [st EXCEPT !.source = size, !.scaleFailures = 0, !.scaledOff = FALSE, !.encoder = e]
<1>1. /\ e \in Encoder /\ e.settings = st.encoder.settings
      /\ e.fresh = st.encoder.fresh /\ e.intra = st.encoder.intra
  BY EncoderSteps DEF Sender
<1>2. CASE st.source = size
  BY <1>2 DEF Showing, Continues
<1>3. CASE st.source # size
  <2>1. Showing(st, size) = new
    BY <1>3 DEF Showing
  <2> HIDE DEF e
  <2>2. new \in Sender /\ new.active = st.active /\ new.timestamp = st.timestamp
    BY <1>1, ZeroInLimits DEF Sender
  <2>3. new.encoder = e /\ new.profile = st.profile
    BY DEF Sender
  <2>4. QED
    BY <1>1, <2>1, <2>2, <2>3 DEF Owes, OwesAt, Continues
<1>4. QED
  BY <1>2, <1>3

(* A transition leaves the sender active; it owes a keyframe if it owed    *)
(* one, was inactive or was asked.                                         *)
LEMMA TransitionEffect ==
    ASSUME NEW st \in Sender, NEW size \in Size, NEW renewed \in BOOLEAN,
           refresh \in BOOLEAN, forceIdr \in BOOLEAN
    PROVE  /\ Transition(st, size, renewed) \in Sender
           /\ Transition(st, size, renewed).active = TRUE
           /\ st.active => Transition(st, size, renewed).timestamp = st.timestamp
           /\ ~st.active \/ refresh \/ forceIdr \/ Owes(st) => Owes(Transition(st, size, renewed))
<1>0. st.active \in BOOLEAN
  BY DEF Sender
<1>1. CASE ~st.active
  BY <1>1, ResetEffect DEF Transition
<1>2. CASE st.active
  <2> DEFINE one == IF refresh THEN Refreshed(st, renewed) ELSE st
             two == IF forceIdr THEN Forced(one) ELSE one
  <2>1. Transition(st, size, renewed) = Showing(two, size)
    BY <1>2 DEF Transition
  <2>2. Continues(st, one) /\ (refresh \/ Owes(st) => Owes(one))
    BY RefreshedEffect DEF Continues
  <2> HIDE DEF one
  <2>3. Continues(st, two) /\ (refresh \/ forceIdr \/ Owes(st) => Owes(two))
    BY <2>2, ForcedEffect DEF Continues
  <2> HIDE DEF two
  <2>4. Continues(st, Showing(two, size)) /\ (Owes(two) => Owes(Showing(two, size)))
    BY <2>3, ShowingEffect DEF Continues
  <2>5. QED
    BY <1>0, <1>2, <2>1, <2>3, <2>4 DEF Continues
<1>3. QED
  BY <1>0, <1>1, <1>2

(* Pressure and the periodic refresh (video_sender.rs:315-372).            *)
LEMMA LongerIntervalOwes ==
    ASSUME NEW e \in Encoder, NEW i \in Nat, NEW j \in Nat, j >= i, OwesAt(e, i)
    PROVE  OwesAt(e, j)
BY DEF OwesAt, Encoder, Profile

LEMMA ReprofiledEffect ==
    ASSUME NEW st \in Sender, NEW p \in Limits
    PROVE  /\ Continues(st, [st EXCEPT !.profile = p, !.stable = 0])
           /\ [st EXCEPT !.profile = p, !.stable = 0].encoder = st.encoder
           /\ [st EXCEPT !.profile = p, !.stable = 0].profile = p
<1>1. [st EXCEPT !.profile = p, !.stable = 0] \in Sender
  BY ZeroInLimits DEF Sender, Limits
<1>2. /\ [st EXCEPT !.profile = p, !.stable = 0].active = st.active
      /\ [st EXCEPT !.profile = p, !.stable = 0].timestamp = st.timestamp
      /\ [st EXCEPT !.profile = p, !.stable = 0].encoder = st.encoder
      /\ [st EXCEPT !.profile = p, !.stable = 0].profile = p
  BY DEF Sender
<1>3. QED
  BY <1>1, <1>2 DEF Continues

LEMMA PressedEffect ==
    ASSUME NEW st \in Sender, pressure \in Pressure
    PROVE  Continues(st, Pressed(st)) /\ (Owes(st) => Owes(Pressed(st)))
<1>0. st.profile \in Limits /\ st.encoder \in Encoder
  BY DEF Sender, Limits
<1>1. ASSUME NEW p \in Limits, p.interval >= st.profile.interval,
             Pressed(st) = [st EXCEPT !.profile = p, !.stable = 0]
      PROVE  Continues(st, Pressed(st)) /\ (Owes(st) => Owes(Pressed(st)))
  <2> DEFINE new == [st EXCEPT !.profile = p, !.stable = 0]
  <2>0. Continues(st, new) /\ new.encoder = st.encoder /\ new.profile = p
    BY ReprofiledEffect
  <2> HIDE DEF new
  <2>1. Continues(st, Pressed(st)) /\ Pressed(st).encoder = st.encoder /\ Pressed(st).profile = p
    BY <1>1, <2>0 DEF new
  <2>2. p.interval \in Nat /\ st.profile.interval \in Nat
    BY <1>0 DEF Limits, Profile
  <2>3. QED
    BY <1>0, <1>1, <2>1, <2>2, LongerIntervalOwes DEF Owes
<1>2. CASE pressure = "lossy"
  <2>1. Pressed(st) = [st EXCEPT !.profile = Degraded(st.profile), !.stable = 0]
    BY <1>2 DEF Pressed
  <2>2. QED
    BY <1>0, <1>1, <2>1, ProfileSteps
<1>3. CASE pressure = "busy"
  <2>1. Pressed(st) = [st EXCEPT !.profile = Slower(st.profile), !.stable = 0]
    BY <1>3 DEF Pressed
  <2>2. QED
    BY <1>0, <1>1, <2>1, ProfileSteps
<1>4. CASE pressure = "none"
  BY <1>4 DEF Pressed, Continues
<1>5. QED
  BY <1>2, <1>3, <1>4 DEF Pressure

LEMMA DueEffect ==
    ASSUME NEW st \in Sender
    PROVE  Continues(st, Due(st)) /\ (Owes(st) => Owes(Due(st)))
<1>1. CASE st.sinceRefresh < RefreshFrames
  BY <1>1 DEF Due, Continues
<1>2. CASE ~(st.sinceRefresh < RefreshFrames)
  <2> DEFINE f == Forced(st)
             new == [f EXCEPT !.sinceRefresh = 0]
  <2>1. Due(st) = new
    BY <1>2 DEF Due
  <2>2. Continues(st, f) /\ Owes(f)
    BY ForcedEffect
  <2> HIDE DEF f
  <2>3. new \in Sender /\ new.active = f.active /\ new.timestamp = f.timestamp
    BY <2>2, ZeroInLimits DEF Sender, Continues
  <2>4. new.encoder = f.encoder /\ new.profile = f.profile
    BY <2>2 DEF Sender, Continues
  <2>5. QED
    BY <2>1, <2>2, <2>3, <2>4 DEF Owes, Continues
<1>3. QED
  BY <1>1, <1>2

(* What follows the encoding (video_sender.rs:373-473).                    *)
LEMMA BookedEffect ==
    ASSUME NEW st \in Sender, NEW size \in Size, NEW built, built.encoder \in Encoder
    PROVE  /\ Continues(st, Booked(st, size, built))
           /\ Booked(st, size, built).encoder = built.encoder
           /\ Booked(st, size, built).profile = st.profile
<1> DEFINE e == built.encoder
           counted == [st EXCEPT !.encoder = e]
<1> HIDE DEF e
<1>0. e \in Encoder
  BY DEF e
<1>1. /\ Continues(st, counted)
      /\ counted.encoder = e /\ counted.profile = st.profile
      /\ counted.scaleFailures = st.scaleFailures
  BY <1>0 DEF Sender, Continues
<1> HIDE DEF counted
<1>2. \/ Booked(st, size, built) = counted
      \/ \E n \in 0..ScaleFailures, off \in BOOLEAN :
            Booked(st, size, built) = [counted EXCEPT !.scaleFailures = n, !.scaledOff = off]
  <2>1. st.scaleFailures + 1 < ScaleFailures => st.scaleFailures + 1 \in 0..ScaleFailures
    BY LimitsArePositive DEF Sender
  <2>2. counted \in Sender
    BY <1>1 DEF Continues
  <2>3. CASE ~ScalingWanted(st, size)
    BY <2>3 DEF Booked, counted, e
  <2>4. CASE ScalingWanted(st, size) /\ built.scaled
    BY <2>4, ZeroInLimits DEF Booked, counted, e
  <2>5. CASE ScalingWanted(st, size) /\ ~built.scaled /\ st.scaleFailures + 1 >= ScaleFailures
    BY <2>5, ZeroInLimits DEF Booked, counted, e
  <2>6. CASE ScalingWanted(st, size) /\ ~built.scaled /\ ~(st.scaleFailures + 1 >= ScaleFailures)
    <3>1. Booked(st, size, built) = [counted EXCEPT !.scaleFailures = st.scaleFailures + 1]
      BY <1>1, <2>6 DEF Booked, counted, e
    <3>2. [counted EXCEPT !.scaleFailures = st.scaleFailures + 1]
            = [counted EXCEPT !.scaleFailures = st.scaleFailures + 1, !.scaledOff = counted.scaledOff]
      BY <2>2 DEF Sender
    <3>3. st.scaleFailures + 1 \in 0..ScaleFailures /\ counted.scaledOff \in BOOLEAN
      BY <2>1, <2>2, <2>6, LimitsArePositive DEF Sender
    <3>4. QED
      BY <3>1, <3>2, <3>3
  <2>7. QED
    BY <2>3, <2>4, <2>5, <2>6
<1>3. ASSUME NEW n \in 0..ScaleFailures, NEW off \in BOOLEAN,
             Booked(st, size, built) = [counted EXCEPT !.scaleFailures = n, !.scaledOff = off]
      PROVE  /\ Continues(st, Booked(st, size, built))
             /\ Booked(st, size, built).encoder = e
             /\ Booked(st, size, built).profile = st.profile
  BY <1>1, <1>3 DEF Sender, Continues
<1>4. QED
  BY <1>1, <1>2, <1>3 DEF e

LEMMA LoweredEffect ==
    ASSUME NEW st \in Sender
    PROVE  /\ Continues(st, Lowered(st))
           /\ Lowered(st).encoder = st.encoder
           /\ Lowered(st).profile = Degraded(st.profile)
<1>1. st.profile \in Limits /\ Degraded(st.profile) \in Limits
  BY ProfileSteps DEF Sender, Limits
<1>2. Lowered(st) = [st EXCEPT !.profile = Degraded(st.profile)]
  BY DEF Lowered
<1>3. QED
  BY <1>1, <1>2 DEF Sender, Limits, Continues

LEMMA FailedEffect ==
    ASSUME NEW st \in Sender
    PROVE  Continues(st, Failed(st)) /\ (Owes(st) => Owes(Failed(st)))
<1>1. CASE ~st.sentFirst /\ st.startup < StartupRetries
  <2> DEFINE new == [st EXCEPT !.startup = st.startup + 1]
  <2>1. Failed(st) = new
    BY <1>1 DEF Failed
  <2>2. st.startup + 1 \in 0..StartupRetries
    BY <1>1, LimitsArePositive DEF Sender
  <2>3. new \in Sender /\ new.active = st.active /\ new.timestamp = st.timestamp
    BY <2>2 DEF Sender
  <2>4. new.encoder = st.encoder /\ new.profile = st.profile
    BY DEF Sender
  <2>5. QED
    BY <2>1, <2>3, <2>4 DEF Owes, Continues
<1>2. CASE ~(~st.sentFirst /\ st.startup < StartupRetries)
  <2>1. Failed(st) = Lowered(st)
    BY <1>2 DEF Failed
  <2>2. st.profile \in Limits /\ st.encoder \in Encoder
    BY DEF Sender, Limits
  <2>3. /\ Degraded(st.profile) \in Limits
        /\ Degraded(st.profile).interval >= st.profile.interval
    BY <2>2, ProfileSteps
  <2>4. Degraded(st.profile).interval \in Nat /\ st.profile.interval \in Nat
    BY <2>2, <2>3 DEF Limits, Profile
  <2>5. QED
    BY <2>1, <2>2, <2>3, <2>4, LoweredEffect, LongerIntervalOwes DEF Owes
<1>3. QED
  BY <1>1, <1>2

LEMMA SentEffect ==
    ASSUME NEW st \in Sender, NEW f \in Payload, NEW elapsed \in Elapsed
    PROVE  /\ Sent(st, f, elapsed) \in Sender
           /\ Sent(st, f, elapsed).active = st.active
           /\ Sent(st, f, elapsed).timestamp = (st.timestamp + AtLeast(90 * elapsed, 1)) % Wrap
<1> DEFINE raised == IF st.stable + 1 = StableFrames THEN Restored(st.profile) ELSE st.profile
           p == IF f.size = "small" THEN Faster(raised) ELSE raised
           t == (st.timestamp + AtLeast(90 * elapsed, 1)) % Wrap
           n == (st.stable + 1) % StableFrames
           new == [st EXCEPT !.timestamp = t, !.sinceRefresh = st.sinceRefresh + 1,
                             !.sentFirst = TRUE, !.startup = 0, !.stable = n, !.profile = p]
<1>1. Sent(st, f, elapsed) = new
  BY DEF Sent
<1>2. p \in Limits
  <2>1. st.profile \in Limits
    BY DEF Sender, Limits
  <2>2. raised \in Limits
    BY <2>1, ProfileSteps
  <2> HIDE DEF raised
  <2>3. QED
    BY <2>2, ProfileSteps
<1>3. t \in 0..(Wrap - 1)
  <2>1. elapsed \in Nat
    BY SourceAssumption
  <2>2. st.timestamp + AtLeast(90 * elapsed, 1) \in Nat
    BY <2>1, LimitsArePositive DEF AtLeast, Sender
  <2>3. QED
    BY <2>2, LimitsArePositive
<1>4. n \in 0..StableFrames
  BY LimitsArePositive DEF Sender
<1>5. st.sinceRefresh + 1 \in Nat
  BY DEF Sender
<1> HIDE DEF p, t, n
<1>6. new \in Sender /\ new.active = st.active /\ new.timestamp = t
  BY <1>2, <1>3, <1>4, <1>5, ZeroInLimits DEF Sender, Limits
<1>7. QED
  BY <1>1, <1>6 DEF t

-----------------------------------------------------------------------------
(* The steps. *)

LEMMA EncodedEffect ==
    ASSUME NEW st \in Sender, NEW f \in Payload \cup {None}, NEW elapsed \in Elapsed,
           Encoded(st, f, elapsed)
    PROVE  /\ sender' \in Sender
           /\ sender'.active = st.active
           /\ outgoing' \in {"key", "other", None}
           /\ unrepaired' \in {unrepaired, waiting}
           /\ IF outgoing' = None THEN sender'.timestamp = st.timestamp
              ELSE sender'.timestamp = (st.timestamp + AtLeast(90 * elapsed, 1)) % Wrap
<1>0. None \notin {"key", "other"}
  BY NoneAssumption
<1>1. CASE f = None /\ sender' = Failed(st) /\ outgoing' = None /\ UNCHANGED unrepaired
  BY <1>1, FailedEffect DEF Continues
<1>2. CASE /\ f # None /\ f.size = "oversized"
           /\ sender' = Lowered(st)
           /\ outgoing' = None
           /\ unrepaired' = IF f.key /\ st.profile.interval = Floor.interval THEN waiting ELSE unrepaired
  BY <1>2, LoweredEffect DEF Continues
<1>3. CASE /\ f # None /\ f.size # "oversized"
           /\ sender' = Sent(st, f, elapsed)
           /\ outgoing' = IF f.key THEN "key" ELSE "other"
           /\ UNCHANGED unrepaired
  BY <1>0, <1>3, SentEffect
<1>4. QED
  BY <1>1, <1>2, <1>3 DEF Encoded

(* What the handling of one frame comes to: the sender is active, and its  *)
(* timestamp moves on with what is sent and never otherwise, unless it was *)
(* inactive (video_sender.rs:171-313).                                     *)
LEMMA HandleFrameEffect ==
    ASSUME TypeOK, HandleFrame
    PROVE  /\ sender' \in Sender
           /\ sender'.active = TRUE
           /\ outgoing' \in {"key", "other", None}
           /\ unrepaired' \in {unrepaired, waiting}
           /\ sender.active =>
                IF outgoing' = None THEN sender'.timestamp = sender.timestamp
                ELSE \E d \in Steps : sender'.timestamp = (sender.timestamp + d) % Wrap
<1>1. PICK size \in Sources, renewed \in {refresh, FALSE}, elapsed \in Elapsed :
          LET st == Pressed(Transition(sender, size, renewed))
              due == Due(st)
          IN  IF elapsed < Interval(st.profile, size)
              THEN sender' = st /\ UNCHANGED <<outgoing, unrepaired>>
              ELSE \E b \in Build(due, size) : Encoded(Booked(due, size, b), b.payload, elapsed)
  BY DEF HandleFrame
<1> DEFINE st == Pressed(Transition(sender, size, renewed))
<1>2. size \in Size /\ renewed \in BOOLEAN /\ outgoing = None
  BY SourceAssumption DEF HandleFrame, TypeOK
<1>3. st \in Sender /\ st.active = TRUE /\ (sender.active => st.timestamp = sender.timestamp)
  BY <1>2, TransitionEffect, PressedEffect DEF TypeOK, Continues
<1> HIDE DEF st
<1>4. CASE sender' = st /\ UNCHANGED <<outgoing, unrepaired>>
  BY <1>2, <1>3, <1>4 DEF TypeOK
<1>5. ASSUME NEW b \in Build(Due(st), size), Encoded(Booked(Due(st), size, b), b.payload, elapsed)
      PROVE  /\ sender' \in Sender
             /\ sender'.active = TRUE
             /\ outgoing' \in {"key", "other", None}
             /\ unrepaired' \in {unrepaired, waiting}
             /\ sender.active =>
                  IF outgoing' = None THEN sender'.timestamp = sender.timestamp
                  ELSE \E d \in Steps : sender'.timestamp = (sender.timestamp + d) % Wrap
  <2> DEFINE booked == Booked(Due(st), size, b)
  <2>1. Continues(st, Due(st))
    BY <1>3, DueEffect
  <2>2. b.encoder \in Encoder /\ b.payload \in Payload \cup {None}
    BY <1>2, <2>1, BuildOutcome DEF Continues
  <2>3. Continues(Due(st), booked)
    <3>1. Due(st) \in Sender
      BY <2>1 DEF Continues
    <3>2. QED
      BY <1>2, <2>2, <3>1, BookedEffect
  <2> HIDE DEF booked
  <2>4. booked \in Sender /\ booked.active = TRUE /\ booked.timestamp = st.timestamp
    BY <1>3, <2>1, <2>3 DEF Continues
  <2>5. /\ sender' \in Sender
        /\ sender'.active = booked.active
        /\ outgoing' \in {"key", "other", None}
        /\ unrepaired' \in {unrepaired, waiting}
        /\ IF outgoing' = None THEN sender'.timestamp = booked.timestamp
           ELSE sender'.timestamp = (booked.timestamp + AtLeast(90 * elapsed, 1)) % Wrap
    BY <1>5, <2>2, <2>4, EncodedEffect DEF booked
  <2>6. AtLeast(90 * elapsed, 1) \in Steps
    BY DEF Steps
  <2>7. QED
    BY <1>3, <2>4, <2>5, <2>6
<1>6. QED
  BY <1>1, <1>4, <1>5 DEF st

(* Every step keeps the types (video_sender.rs:196-244, room.rs:67-74).    *)
LEMMA TypeOKStep ==
    ASSUME TypeOK, [Next]_vars
    PROVE  TypeOK'
<1>1. ASSUME HandleFrame
      PROVE  TypeOK'
  <2>1. /\ sender' \in Sender /\ outgoing' \in {"key", "other", None}
        /\ unrepaired' \in {unrepaired, waiting}
    BY <1>1, HandleFrameEffect
  <2>2. /\ refresh' = FALSE /\ forceIdr' = FALSE /\ pressure' = "none"
        /\ UNCHANGED <<sessions, leaving, joining, streams, waiting>>
    BY <1>1 DEF HandleFrame, roomVars
  <2>3. QED
    BY <2>1, <2>2 DEF TypeOK, Pressure
<1>2. ASSUME Idle
      PROVE  TypeOK'
  <2>1. sender' \in Sender
    BY <1>2 DEF Idle, TypeOK, Sender
  <2>2. QED
    BY <1>2, <2>1 DEF Idle, TypeOK, roomVars, controlVars, viewerVars
<1>3. ASSUME Broadcast
      PROVE  TypeOK'
  BY <1>3 DEF Broadcast, TypeOK, roomVars
<1>4. ASSUME PlayerJoins
      PROVE  TypeOK'
  BY <1>4 DEF PlayerJoins, TypeOK, roomVars, viewerVars
<1>5. ASSUME NEW s \in Sessions, Register(s)
      PROVE  TypeOK'
  BY <1>5 DEF Register, TypeOK, controlVars
<1>6. ASSUME NEW s \in Sessions, NoteRegistered(s)
      PROVE  TypeOK'
  BY <1>6 DEF NoteRegistered, TypeOK, viewerVars
<1>7. ASSUME NEW s \in Sessions, RequestKeyframe(s)
      PROVE  TypeOK'
  BY <1>7 DEF RequestKeyframe, TypeOK, roomVars
<1>8. ASSUME NEW s \in Sessions, Leave(s)
      PROVE  TypeOK'
  BY <1>8 DEF Leave, TypeOK, controlVars
<1>9. ASSUME NEW s \in Sessions, CountDown(s)
      PROVE  TypeOK'
  BY <1>9 DEF CountDown, TypeOK, controlVars, viewerVars
<1>10. CASE UNCHANGED vars
  BY <1>10 DEF vars, TypeOK
<1>11. QED
  BY <1>1, <1>2, <1>3, <1>4, <1>5, <1>6, <1>7, <1>8, <1>9, <1>10 DEF Next, RoomNext

LEMMA InitTypes == Init => TypeOK
<1> SUFFICES ASSUME Init PROVE TypeOK
  OBVIOUS
<1>1. Best \in Limits
  BY ProfileAssumption DEF Limits, InLimits, Profile
<1>2. NewEncoder(None) \in Encoder
  BY NewEncoderType
<1>3. sender \in Sender
  BY <1>1, <1>2, ZeroInLimits DEF Init, Sender, Limits
<1>4. QED
  BY <1>3 DEF Init, TypeOK, Pressure

(* The profile stays within its limits whatever the pressure, encoder and  *)
(* counters keep their ranges, and history speaks of sessions that are     *)
(* there (video_sender.rs:62-99, 196-244, 598-676).                        *)
THEOREM TypeCorrect == Spec => []TypeOK
<1>1. TypeOK /\ [Next]_vars => TypeOK'
  BY TypeOKStep
<1>2. QED
  BY InitTypes, <1>1, PTL DEF Spec

-----------------------------------------------------------------------------
(* Timestamps. *)

(* While a session was sent something, or is about to be, the sender is    *)
(* active: it becomes inactive only when the map is empty.                 *)
StreamsKeepActive ==
    streams # {} \/ outgoing # None => sender.active = TRUE

LEMMA StreamsKeepActiveStep ==
    ASSUME TypeOK, StreamsKeepActive, [Next]_vars
    PROVE  StreamsKeepActive'
<1> USE DEF StreamsKeepActive
<1>1. ASSUME HandleFrame
      PROVE  StreamsKeepActive'
  BY <1>1, HandleFrameEffect
<1>2. ASSUME Idle
      PROVE  StreamsKeepActive'
  BY <1>2 DEF Idle, HasVideoSessions, TypeOK, viewerVars
<1>3. ASSUME Broadcast
      PROVE  StreamsKeepActive'
  BY <1>3 DEF Broadcast
<1>4. ASSUME RoomNext
      PROVE  sender' = sender /\ outgoing' = outgoing /\ streams' \subseteq streams
  BY <1>4 DEF RoomNext, PlayerJoins, Register, NoteRegistered, RequestKeyframe, Leave,
              CountDown, viewerVars
<1>5. CASE UNCHANGED vars
  BY <1>5 DEF vars
<1>6. QED
  BY <1>1, <1>2, <1>3, <1>4, <1>5 DEF Next

(* No viewer sees time start again: the reset of the timestamps meets only *)
(* an empty map (video_sender.rs:185-188, 262-275, 452-456).               *)
THEOREM StreamsAdvance == Spec => TimestampsAdvance
<1>1. Init => StreamsKeepActive
  BY DEF Init, StreamsKeepActive
<1>2. TypeOK /\ StreamsKeepActive /\ [Next]_vars => StreamsKeepActive'
  BY StreamsKeepActiveStep
<1> DEFINE Advance ==
        streams # {} =>
          IF outgoing = None /\ outgoing' # None
          THEN \E d \in Steps : sender'.timestamp = (sender.timestamp + d) % Wrap
          ELSE sender'.timestamp = sender.timestamp
<1>3. ASSUME TypeOK, StreamsKeepActive, Next, streams # {}
      PROVE  Advance
  <2>1. CASE HandleFrame
    BY <1>3, <2>1, HandleFrameEffect DEF StreamsKeepActive, HandleFrame
  <2>2. CASE Idle
    BY <1>3, <2>2 DEF Idle, TypeOK, Sender
  <2>3. CASE Broadcast
    BY <2>3 DEF Broadcast
  <2>4. CASE RoomNext
    BY <2>4 DEF RoomNext, PlayerJoins, Register, NoteRegistered, RequestKeyframe, Leave, CountDown
  <2>5. QED
    BY <1>3, <2>1, <2>2, <2>3, <2>4 DEF Next
<1>4. TypeOK /\ StreamsKeepActive /\ [Next]_vars => [Advance]_vars
  BY <1>3
<1>5. QED
  BY <1>1, <1>2, <1>4, TypeCorrect, PTL DEF Spec, TimestampsAdvance

-----------------------------------------------------------------------------
(* Keyframes. *)

(* What makes KeyframeOnItsWay inductive: another interval is a debt only  *)
(* while it is the longer one, since pressure may lengthen a shorter one   *)
(* to the very interval the encoder has.                                   *)
Owed ==
    \/ refresh \/ forceIdr
    \/ ~sender.active
    \/ Owes(sender)
    \/ outgoing = "key"

KeyframeOwed == waiting \subseteq (unrepaired \cup joining) \/ Owed

(* A frame keeps the debt, pays it with a keyframe, or drops that keyframe *)
(* for its size; then the degraded profile asks for another encoder, or    *)
(* the viewers are recorded as unrepaired.                                 *)
LEMMA EncodedOwes ==
    ASSUME NEW st \in Sender, NEW f \in Payload \cup {None}, NEW elapsed \in Elapsed,
           IF f = None THEN Owes(st) ELSE f.key,
           f # None => st.encoder.settings # None /\ st.encoder.settings.interval = st.profile.interval,
           Encoded(st, f, elapsed)
    PROVE  Owes(sender') \/ outgoing' = "key" \/ unrepaired' = waiting
<1>1. CASE f = None /\ sender' = Failed(st)
  BY <1>1, FailedEffect
<1>2. CASE /\ f # None /\ f.size = "oversized"
           /\ sender' = Lowered(st)
           /\ unrepaired' = IF f.key /\ st.profile.interval = Floor.interval THEN waiting ELSE unrepaired
  <2>1. st.profile \in Limits /\ st.profile.interval <= Floor.interval
    BY DEF Sender, InLimits, Limits
  <2>2. CASE st.profile.interval = Floor.interval
    BY <1>2, <2>2
  <2>3. CASE st.profile.interval # Floor.interval
    <3>1. st.profile.interval < Floor.interval
      BY <2>1, <2>3, ProfileAssumption DEF Limits, Profile
    <3>2. Degraded(st.profile).interval > st.profile.interval
      BY <2>1, <3>1, ProfileSteps
    <3>3. sender'.encoder = st.encoder /\ sender'.profile = Degraded(st.profile)
      BY <1>2, LoweredEffect
    <3>4. QED
      BY <1>2, <3>2, <3>3 DEF Owes, OwesAt
  <2>4. QED
    BY <2>2, <2>3
<1>3. CASE f # None /\ outgoing' = IF f.key THEN "key" ELSE "other"
  BY <1>3
<1>4. QED
  BY <1>1, <1>2, <1>3 DEF Encoded

LEMMA HandleFrameOwes ==
    ASSUME TypeOK, HandleFrame, Owed
    PROVE  Owes(sender') \/ outgoing' = "key" \/ unrepaired' = waiting
<1>1. PICK size \in Sources, renewed \in {refresh, FALSE}, elapsed \in Elapsed :
          LET st == Pressed(Transition(sender, size, renewed))
              due == Due(st)
          IN  IF elapsed < Interval(st.profile, size)
              THEN sender' = st /\ UNCHANGED <<outgoing, unrepaired>>
              ELSE \E b \in Build(due, size) : Encoded(Booked(due, size, b), b.payload, elapsed)
  BY DEF HandleFrame
<1> DEFINE turned == Transition(sender, size, renewed)
           st == Pressed(turned)
<1>2. size \in Size /\ renewed \in BOOLEAN /\ outgoing # "key"
  BY SourceAssumption, NoneAssumption DEF HandleFrame, TypeOK
<1>3. turned \in Sender /\ Owes(turned)
  BY <1>2, TransitionEffect DEF TypeOK, Owed
<1> HIDE DEF turned
<1>4. st \in Sender /\ Owes(st)
  BY <1>3, PressedEffect DEF TypeOK, Continues
<1>5. CASE sender' = st
  BY <1>4, <1>5
<1> HIDE DEF st
<1>6. ASSUME NEW b \in Build(Due(st), size), Encoded(Booked(Due(st), size, b), b.payload, elapsed)
      PROVE  Owes(sender') \/ outgoing' = "key" \/ unrepaired' = waiting
  <2> DEFINE due == Due(st)
             booked == Booked(due, size, b)
  <2>1. due \in Sender /\ Owes(due)
    BY <1>4, DueEffect DEF Continues
  <2> HIDE DEF due
  <2>2. /\ b.encoder \in Encoder
        /\ b.payload \in Payload \cup {None}
        /\ b.payload # None => b.encoder.settings # None /\ b.encoder.settings.interval = due.profile.interval
        /\ IF b.payload = None THEN OwesAt(b.encoder, due.profile.interval) ELSE b.payload.key
    BY <1>2, <1>6, <2>1, BuildOutcome DEF due
  <2>3. Continues(due, booked) /\ booked.encoder = b.encoder /\ booked.profile = due.profile
    BY <1>2, <2>1, <2>2, BookedEffect
  <2> HIDE DEF booked
  <2>4. booked \in Sender /\ (b.payload = None => Owes(booked))
    BY <2>2, <2>3 DEF Owes, Continues
  <2>5. Encoded(booked, b.payload, elapsed)
    BY <1>6 DEF booked, due
  <2>6. QED
    BY <2>2, <2>3, <2>4, <2>5, EncodedOwes
<1>7. QED
  BY <1>1, <1>5, <1>6 DEF st, turned

LEMMA KeyframeOwedStep ==
    ASSUME TypeOK, KeyframeOwed, [Next]_vars
    PROVE  KeyframeOwed'
<1>1. ASSUME HandleFrame
      PROVE  KeyframeOwed'
  <2>1. UNCHANGED <<joining, waiting>> /\ unrepaired' \in {unrepaired, waiting}
    BY <1>1, HandleFrameEffect DEF HandleFrame, roomVars
  <2>2. CASE Owed
    <3>1. Owes(sender') \/ outgoing' = "key" \/ unrepaired' = waiting
      BY <1>1, <2>2, HandleFrameOwes
    <3>2. QED
      BY <2>1, <3>1 DEF KeyframeOwed, Owed, Owes
  <2>3. CASE waiting \subseteq (unrepaired \cup joining)
    BY <2>1, <2>3 DEF KeyframeOwed
  <2>4. QED
    BY <2>2, <2>3 DEF KeyframeOwed
<1>2. ASSUME Idle
      PROVE  KeyframeOwed'
  <2>1. sender'.active = FALSE
    BY <1>2 DEF Idle, TypeOK, Sender
  <2>2. QED
    BY <2>1 DEF KeyframeOwed, Owed
<1>3. ASSUME Broadcast
      PROVE  KeyframeOwed'
  <2>1. UNCHANGED <<joining, refresh, forceIdr, sender>>
    BY <1>3 DEF Broadcast, roomVars
  <2>2. CASE outgoing = "key"
    BY <1>3, <2>2 DEF Broadcast, KeyframeOwed
  <2>3. CASE outgoing # "key"
    BY <1>3, <2>1, <2>3 DEF Broadcast, KeyframeOwed, Owed, Owes
  <2>4. QED
    BY <2>2, <2>3
<1>4. ASSUME PlayerJoins
      PROVE  KeyframeOwed'
  BY <1>4 DEF PlayerJoins, KeyframeOwed, Owed
<1>5. ASSUME NEW s \in Sessions, Register(s)
      PROVE  KeyframeOwed'
  BY <1>5 DEF Register, KeyframeOwed, Owed, Owes, controlVars
<1>6. ASSUME NEW s \in Sessions, NoteRegistered(s)
      PROVE  KeyframeOwed'
  BY <1>6 DEF NoteRegistered, KeyframeOwed, Owed
<1>7. ASSUME NEW s \in Sessions, RequestKeyframe(s)
      PROVE  KeyframeOwed'
  BY <1>7 DEF RequestKeyframe, KeyframeOwed, Owed
<1>8. ASSUME NEW s \in Sessions, Leave(s)
      PROVE  KeyframeOwed'
  BY <1>8 DEF Leave, KeyframeOwed, Owed, Owes, controlVars
<1>9. ASSUME NEW s \in Sessions, CountDown(s)
      PROVE  KeyframeOwed'
  BY <1>9 DEF CountDown, KeyframeOwed, Owed, Owes, roomVars, controlVars, viewerVars
<1>10. CASE UNCHANGED vars
  BY <1>10 DEF vars, roomVars, controlVars, viewerVars, KeyframeOwed, Owed, Owes
<1>11. QED
  BY <1>1, <1>2, <1>3, <1>4, <1>5, <1>6, <1>7, <1>8, <1>9, <1>10 DEF Next, RoomNext

LEMMA OwedIsRequested ==
    ASSUME TypeOK, KeyframeOwed
    PROVE  KeyframeOnItsWay
<1>1. CASE waiting \subseteq (unrepaired \cup joining)
  BY <1>1 DEF KeyframeOnItsWay
<1>2. CASE refresh \/ forceIdr \/ ~sender.active \/ outgoing = "key"
  BY <1>2 DEF KeyframeOnItsWay, Requested
<1>3. CASE Owes(sender)
  <2>1. sender.encoder.settings # None /\ sender.profile.interval > sender.encoder.settings.interval
          => sender.encoder.settings.interval # sender.profile.interval
    BY DEF TypeOK, Sender, Encoder, Profile
  <2>2. QED
    BY <1>3, <2>1 DEF KeyframeOnItsWay, Requested, Owes, OwesAt
<1>4. QED
  BY <1>1, <1>2, <1>3 DEF KeyframeOwed, Owed

(* A viewer that waits has a keyframe on its way, whatever the encoder     *)
(* does and however many sessions come and go (video_sender.rs:277-473,    *)
(* room.rs:75-115).                                                        *)
THEOREM WaitingViewersGetKeyframe == Spec => []KeyframeOnItsWay
<1>1. Init => KeyframeOwed
  BY DEF Init, KeyframeOwed
<1>2. TypeOK /\ KeyframeOwed /\ [Next]_vars => KeyframeOwed'
  BY KeyframeOwedStep
<1>3. TypeOK /\ KeyframeOwed => KeyframeOnItsWay
  BY OwedIsRequested
<1>4. QED
  BY <1>1, <1>2, <1>3, TypeCorrect, PTL DEF Spec
=============================================================================
