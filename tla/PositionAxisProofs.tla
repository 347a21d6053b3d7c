-------------------------- MODULE PositionAxisProofs --------------------------
(***************************************************************************)
(* The position axis, for any samples, frame times and limits.             *)
(*                                                                         *)
(* The learnt interval, the fade and the limits rest on one invariant.     *)
(* Where the segment goes between its ends rests on lemmas about the       *)
(* operators: the fade is monotone, the segment position moves towards the *)
(* end as the silence lasts and never crosses it, and what is shown is     *)
(* monotone in that position.                                              *)
(***************************************************************************)
EXTENDS PositionAxis, TLAPS

\* The smoother never holds a position beyond the limits, and an interval is
\* learnt from the second sample on.
IInv ==
  /\ TypeOK
  /\ current \in LimitLow .. LimitHigh
  /\ steady = 0 <=> ~hasSecondSample
  /\ LearnsSteadyRate

LEMMA LimitsType == LimitLow \in Int /\ LimitHigh \in Int /\ LimitLow < 0 /\ 0 < LimitHigh
BY LimitsAssumption DEF LimitLow, LimitHigh

LEMMA EasedType == ASSUME NEW n \in Int PROVE Eased(n) \in Int
<1>1. n * n \in Int /\ 3 * ExtrapolationDecay - 2 * n \in Int
  BY DEF ExtrapolationDecay
<1>2. n * n * (3 * ExtrapolationDecay - 2 * n) \in Int
  BY <1>1
<1> QED
  BY <1>2 DEF Eased

LEMMA SegmentPositionType ==
  ASSUME NEW t \in Int, NEW silence \in Int PROVE SegmentPosition(t, silence) \in Int
<1> DEFINE pt == AtMost(t, ExtrapolationCap)
           expired == AtMost(silence - ExtrapolationHold, ExtrapolationDecay)
<1>1. pt \in Int /\ expired \in Int
  BY DEF AtMost, ExtrapolationCap, Whole, ExtrapolationHold, ExtrapolationDecay
<1> HIDE DEF pt, expired
<1>2. Eased(expired) \in Int /\ Whole - pt \in Int
  BY <1>1, EasedType DEF Whole
<1>3. (Whole - pt) * Eased(expired) \in Int
  BY <1>2
<1>4. pt + ((Whole - pt) * Eased(expired)) \div Whole \in Int
  BY <1>1, <1>3 DEF Whole
<1> QED
  BY <1>1, <1>4 DEF SegmentPosition, pt, expired

LEMMA InterpolateType ==
  ASSUME NEW a \in Int, NEW b \in Int, NEW t \in Int PROVE Interpolate(a, b, t) \in Int
<1>1. (b - a) * t \in Int
  OBVIOUS
<1> QED
  BY <1>1 DEF Interpolate, Whole

LEMMA ShownType ==
  ASSUME TypeOK, NEW silence \in Int
  PROVE  Shown \in Int /\ Capture(silence) \in Int
<1>1. from \in Int /\ to \in Int /\ travelled \in Int /\ since \in Int /\ interval \in Nat \ {0}
  BY SamplesAssumption DEF TypeOK, TravelledCap, SinceCap, MinSampleInterval, MaxSampleInterval
<1>2. Progress \in Int
  BY <1>1 DEF Progress, Whole
<1>3. SegmentPosition(Progress, since) \in Int /\ SegmentPosition(Progress, silence) \in Int
  BY <1>1, <1>2, SegmentPositionType
<1> QED
  BY <1>1, <1>3, InterpolateType DEF Shown, Capture

\* The fade is over: the segment stands at its end.
LEMMA FadedAtEnd ==
  ASSUME TypeOK, since >= ExtrapolationHold + ExtrapolationDecay
  PROVE  Shown = to
<1>1. from \in Int /\ to \in Int /\ travelled \in Int /\ since \in Int /\ interval \in Nat \ {0}
  BY SamplesAssumption DEF TypeOK, TravelledCap, SinceCap, MinSampleInterval, MaxSampleInterval
<1> DEFINE pt == AtMost(Progress, ExtrapolationCap)
<1>2. pt \in Int
  BY <1>1 DEF Progress, Whole, AtMost, ExtrapolationCap
<1>3. /\ AtMost(since - ExtrapolationHold, ExtrapolationDecay) = ExtrapolationDecay
      /\ ~(since <= ExtrapolationHold)
  BY <1>1 DEF AtMost, ExtrapolationHold, ExtrapolationDecay
<1>4. Eased(ExtrapolationDecay) = Whole
  BY DEF Eased, ExtrapolationDecay, Whole
<1>5. SegmentPosition(Progress, since) = pt + ((Whole - pt) * Whole) \div Whole
  BY <1>3, <1>4 DEF SegmentPosition
<1> HIDE DEF pt
<1>6. \A n \in Int : (n * Whole) \div Whole = n
  BY DEF Whole
<1>7. SegmentPosition(Progress, since) = Whole
  <2>1. Whole - pt \in Int
    BY <1>2 DEF Whole
  <2>2. SegmentPosition(Progress, since) = pt + (Whole - pt)
    BY <1>5, <1>6, <2>1
  <2> QED
    BY <1>2, <2>2 DEF Whole
<1>8. Shown = from + (to - from)
  <2>1. to - from \in Int
    BY <1>1
  <2> QED
    BY <1>6, <1>7, <2>1 DEF Shown, Interpolate
<1> QED
  BY <1>1, <1>8

-----------------------------------------------------------------------------

LEMMA InitInv == Init => IInv
<1> SUFFICES ASSUME Init PROVE IInv
  OBVIOUS
<1>1. 0 \in LimitLow .. LimitHigh
  BY LimitsType
<1>2. 0 \in 0 .. 300 /\ 33 \in 1 .. 200 /\ 0 \in 0 .. 700 /\ 0 \in -1 .. 700 /\ ~(0 > 0)
  OBVIOUS
<1>0. {received, hasFirstSample, hasSecondSample, hasValue} \subseteq BOOLEAN
  BY DEF Init
<1>3. TypeOK
  BY <1>0, <1>2
  DEF Init, TypeOK, TravelledCap, SinceCap, MinSampleInterval, MaxSampleInterval,
      DefaultSampleInterval
<1>4. LearnsSteadyRate
  BY <1>2 DEF Init, LearnsSteadyRate
<1> QED
  BY <1>1, <1>3, <1>4 DEF Init, IInv

\* The interpolator's part of the invariant.
Interpolated ==
  /\ {received, hasFirstSample, hasSecondSample} \subseteq BOOLEAN
  /\ from \in Int
  /\ to \in Samples \cup {0}
  /\ travelled \in 0 .. TravelledCap
  /\ interval \in MinSampleInterval .. MaxSampleInterval
  /\ since \in 0 .. SinceCap
  /\ steady \in -1 .. SinceCap
  /\ steady = 0 <=> ~hasSecondSample
  /\ LearnsSteadyRate

\* A gap is learnt as it is, blended into an interval learnt from gaps like it,
\* or mixed with another.
LEMMA GapLearnt ==
  ASSUME IInv, NEW gap \in 0 .. SinceCap, gap > MinSampleInterval, interval' = LearnedInterval(gap),
         hasSecondSample' = TRUE, steady' = IF steady \in {0, gap} THEN gap ELSE -1
  PROVE  /\ interval' \in MinSampleInterval .. MaxSampleInterval
         /\ steady' \in -1 .. SinceCap
         /\ steady' = 0 <=> ~hasSecondSample'
         /\ LearnsSteadyRate'
<1>1. /\ interval \in 1 .. 200 /\ gap \in 2 .. 700
      /\ steady \in -1 .. 700 /\ steady = 0 <=> ~hasSecondSample
      /\ hasSecondSample \in BOOLEAN
      /\ steady > 0 => interval = Clamp(steady, 1, 200)
  BY DEF IInv, TypeOK, LearnsSteadyRate, MinSampleInterval, MaxSampleInterval, SinceCap
<1>2. interval' = Clamp(IF hasSecondSample THEN interval + ((gap - interval) * 3) \div 10 ELSE gap,
                        1, 200)
  BY DEF LearnedInterval, MinSampleInterval, MaxSampleInterval
<1> DEFINE blend == ((gap - interval) * 3) \div 10
<1>3. blend \in Int /\ (gap = interval => blend = 0) /\ (gap >= interval => blend >= 0)
  BY <1>1
<1>4. interval' = Clamp(IF hasSecondSample THEN interval + blend ELSE gap, 1, 200)
  BY <1>2
<1> HIDE DEF blend
<1>5. interval' \in 1 .. 200
  BY <1>1, <1>3, <1>4 DEF Clamp
<1>6. steady' > 0 => interval' = Clamp(steady', 1, 200)
  <2> SUFFICES ASSUME steady' > 0 PROVE interval' = Clamp(gap, 1, 200) /\ steady' = gap
    OBVIOUS
  <2>1. steady' = gap /\ (steady = 0 \/ steady = gap)
    BY <1>1
  <2>2. CASE steady = 0
    BY <1>1, <1>4, <2>1, <2>2
  <2>3. CASE steady = gap
    <3>1. interval = Clamp(gap, 1, 200) /\ hasSecondSample
      BY <1>1, <2>3
    <3> QED
      BY <1>1, <1>3, <1>4, <2>1, <3>1 DEF Clamp
  <2> QED
    BY <2>1, <2>2, <2>3
<1> QED
  BY <1>1, <1>5, <1>6 DEF LearnsSteadyRate, MinSampleInterval, MaxSampleInterval, SinceCap

LEMMA InterpolatedNext ==
  ASSUME IInv, NEW dt \in Frames,
         \/ \E raw \in Samples : Park(raw) \/ OpenSegment(raw, dt)
         \/ TravelOn(dt)
         \/ PassThrough(dt)
  PROVE  Interpolated'
<1>0. /\ dt \in 0 .. 100
      /\ since \in 0 .. 700 /\ travelled \in 0 .. 300 /\ interval \in 1 .. 200
  BY FramesAssumption
  DEF IInv, TypeOK, SinceCap, TravelledCap, MinSampleInterval, MaxSampleInterval
<1>1. /\ AtMost(since + dt, SinceCap) \in 0 .. SinceCap
      /\ AtMost(travelled + dt, TravelledCap) \in 0 .. TravelledCap
      /\ dt \in 0 .. TravelledCap /\ interval \in 0 .. TravelledCap
  BY <1>0 DEF AtMost, SinceCap, TravelledCap
<1>2. ASSUME NEW raw \in Samples, Park(raw) PROVE Interpolated'
  <2>1. raw \in Int
    BY SamplesAssumption
  <2> QED
    BY <1>1, <1>2, <2>1 DEF Park, Interpolated, IInv, TypeOK, LearnsSteadyRate, SinceCap
<1>3. ASSUME NEW raw \in Samples, OpenSegment(raw, dt) PROVE Interpolated'
  <2> DEFINE gap == AtMost(since + dt, SinceCap)
  <2>1. gap \in 0 .. SinceCap /\ gap \in Int
    BY <1>1
  <2>2. /\ IF gap > MinSampleInterval
             THEN /\ interval' = LearnedInterval(gap)
                  /\ hasSecondSample' = TRUE
                  /\ steady' = IF steady \in {0, gap} THEN gap ELSE -1
             ELSE UNCHANGED <<interval, hasSecondSample, steady>>
        /\ from' = Capture(gap) /\ to' = raw /\ travelled' = dt /\ since' = 0
        /\ UNCHANGED <<received, hasFirstSample>>
    BY <1>3 DEF OpenSegment
  <2> HIDE DEF gap
  <2>3. /\ interval' \in MinSampleInterval .. MaxSampleInterval
        /\ steady' \in -1 .. SinceCap
        /\ steady' = 0 <=> ~hasSecondSample'
        /\ hasSecondSample' \in BOOLEAN
        /\ LearnsSteadyRate'
    <3>1. CASE gap > MinSampleInterval
      BY <2>1, <2>2, <3>1, GapLearnt
    <3>2. CASE ~(gap > MinSampleInterval)
      BY <2>2, <3>2 DEF IInv, TypeOK, LearnsSteadyRate
    <3> QED
      BY <3>1, <3>2
  <2>4. from' \in Int
    BY <2>1, <2>2, ShownType DEF IInv
  <2> QED
    BY <1>1, <2>2, <2>3, <2>4 DEF Interpolated, IInv, TypeOK, SinceCap
<1>4. CASE TravelOn(dt)
  BY <1>1, <1>4 DEF TravelOn, Interpolated, IInv, TypeOK, LearnsSteadyRate
<1>5. CASE PassThrough(dt)
  BY <1>1, <1>5 DEF PassThrough, Interpolated, IInv, TypeOK, LearnsSteadyRate
<1> QED
  BY <1>2, <1>3, <1>4, <1>5

\* What is shown after a frame is a position, and the target is within the limits.
LEMMA TargetType ==
  ASSUME Interpolated'
  PROVE  Shown' \in Int /\ Target \in LimitLow .. LimitHigh
<1>1. /\ from' \in Int /\ to' \in Int /\ travelled' \in Int /\ since' \in Int
      /\ interval' \in Nat \ {0}
  BY SamplesAssumption
  DEF Interpolated, TravelledCap, SinceCap, MinSampleInterval, MaxSampleInterval
<1>2. Progress' \in Int
  BY <1>1 DEF Progress, Whole
<1>3. SegmentPosition(Progress', since') \in Int
  BY <1>1, <1>2, SegmentPositionType
<1>4. Interpolate(from', to', SegmentPosition(Progress', since')) \in Int
  BY <1>1, <1>3, InterpolateType
<1>5. Shown' \in Int
  BY <1>4 DEF Shown
<1> QED
  BY <1>5, LimitsType DEF Target, Clamp

LEMMA SmoothNext ==
  ASSUME IInv, Smooth, Target \in LimitLow .. LimitHigh
  PROVE  hasValue' = TRUE /\ current' \in LimitLow .. LimitHigh
BY LimitsType DEF IInv, Smooth

LEMMA NextInv == IInv /\ [Next]_vars => IInv'
<1> SUFFICES ASSUME IInv, [Next]_vars PROVE IInv'
  OBVIOUS
<1>1. ASSUME NEW dt \in Frames, Frame(dt) PROVE IInv'
  <2>1. Interpolated' /\ Smooth
    BY <1>1, InterpolatedNext DEF Frame
  <2>2. hasValue' = TRUE /\ current' \in LimitLow .. LimitHigh
    BY <2>1, SmoothNext, TargetType
  <2>3. current' \in Int
    BY <2>2, LimitsType
  <2> QED
    BY <2>1, <2>2, <2>3 DEF Interpolated, IInv, TypeOK
<1>2. CASE Reset
  <2>1. 0 \in LimitLow .. LimitHigh
    BY LimitsType
  <2>2. 0 \in 0 .. 300 /\ 33 \in 1 .. 200 /\ 0 \in 0 .. 700 /\ 0 \in -1 .. 700 /\ ~(0 > 0)
    OBVIOUS
  <2>0. {received', hasFirstSample', hasSecondSample', hasValue'} \subseteq BOOLEAN
    BY <1>2 DEF Reset, IInv, TypeOK
  <2>3. TypeOK'
    BY <1>2, <2>0, <2>2
    DEF Reset, IInv, TypeOK, TravelledCap, SinceCap, MinSampleInterval, MaxSampleInterval,
        DefaultSampleInterval
  <2>4. LearnsSteadyRate'
    BY <1>2, <2>2 DEF Reset, LearnsSteadyRate
  <2> QED
    BY <1>2, <2>1, <2>3, <2>4 DEF Reset, IInv
<1>3. CASE UNCHANGED vars
  BY <1>3 DEF vars, clockVars, IInv, TypeOK, LearnsSteadyRate
<1> QED
  BY <1>1, <1>2, <1>3 DEF Next

-----------------------------------------------------------------------------

\* The invariant of the axis.
THEOREM Inductive == Spec => []IInv
BY InitInv, NextInv, PTL DEF Spec

\* Every variable keeps its type, the interval above all: a progress is never
\* divided by less than a millisecond (smoothing.rs 273-276, 294).
THEOREM TypeCorrect == Spec => []TypeOK
<1>1. IInv => TypeOK
  BY DEF IInv
<1> QED
  BY Inductive, <1>1, PTL

\* A steady tracker's rate is learnt from the second sample on, for any rate
\* (smoothing.rs 264-277).
THEOREM AlwaysLearnsSteadyRate == Spec => []LearnsSteadyRate
<1>1. IInv => LearnsSteadyRate
  BY DEF IInv
<1> QED
  BY Inductive, <1>1, PTL

\* Whatever was learnt and however far the prediction ran, a feed that is silent
\* for the hold and the decay shows what was reported last (smoothing.rs 104-115).
THEOREM AlwaysFadesToReported == Spec => []FadesToReported
<1>1. IInv => FadesToReported
  BY FadedAtEnd DEF IInv, FadesToReported
<1> QED
  BY Inductive, <1>1, PTL

\* Neither limit ever holds the output after the head is back within it, for any
\* lean and any smoothing (smoothing.rs 378-384).
THEOREM NeverWindsUp == Spec => NoWindUp
<1>1. IInv /\ [Next]_vars =>
        [(hasValue /\ hasValue') =>
           /\ (Output = LimitHigh /\ Shown' < LimitHigh) => Output' < LimitHigh
           /\ (Output = LimitLow /\ Shown' > LimitLow) => Output' > LimitLow]_vars
  <2> SUFFICES ASSUME IInv, Next, hasValue, hasValue'
               PROVE  /\ (Output = LimitHigh /\ Shown' < LimitHigh) => Output' < LimitHigh
                      /\ (Output = LimitLow /\ Shown' > LimitLow) => Output' > LimitLow
    OBVIOUS
  <2>1. PICK dt \in Frames : Frame(dt)
    BY DEF Next, Reset
  <2>2. Interpolated' /\ Smooth
    BY <2>1, InterpolatedNext DEF Frame
  <2>3. Shown' \in Int /\ Target \in LimitLow .. LimitHigh
    BY <2>2, TargetType
  <2>4. current' \in LimitLow .. LimitHigh /\ current \in LimitLow .. LimitHigh
    BY <2>2, <2>3, SmoothNext DEF IInv
  <2>5. Output = current /\ Output' = current'
    BY <2>4, LimitsType DEF Output, Clamp
  <2>6. IF current = Target THEN current' = Target
        ELSE current' \in IF current < Target THEN current + 1 .. Target
                                              ELSE Target .. current - 1
    BY <2>2 DEF Smooth
  <2>7. ASSUME current = LimitHigh, Shown' < LimitHigh PROVE current' < LimitHigh
    <3>1. Target < LimitHigh
      BY <2>3, <2>7, LimitsType DEF Target, Clamp
    <3> QED
      BY <2>3, <2>4, <2>6, <2>7, <3>1, LimitsType
  <2>8. ASSUME current = LimitLow, Shown' > LimitLow PROVE current' > LimitLow
    <3>1. Target > LimitLow
      BY <2>3, <2>8, LimitsType DEF Target, Clamp
    <3> QED
      BY <2>3, <2>4, <2>6, <2>8, <3>1, LimitsType
  <2> QED
    BY <2>5, <2>7, <2>8
<1> QED
  BY Inductive, <1>1, PTL DEF Spec, NoWindUp

-----------------------------------------------------------------------------
(* Where the segment goes                                                  *)

LEMMA DivBounds ==
  ASSUME NEW m \in Int, NEW k \in Nat \ {0}
  PROVE  m \div k \in Int /\ k * (m \div k) <= m /\ m < k * (m \div k) + k
OBVIOUS

LEMMA TimesMono ==
  ASSUME NEW m \in Int, NEW n \in Int, NEW k \in Nat, m <= n
  PROVE  k * m \in Int /\ k * n \in Int /\ k * m <= k * n
OBVIOUS

LEMMA DivMono ==
  ASSUME NEW m \in Int, NEW n \in Int, NEW k \in Nat \ {0}, m <= n
  PROVE  m \div k <= n \div k
<1>1. m \div k \in Int /\ n \div k \in Int /\ k * (m \div k) <= m /\ n < k * (n \div k) + k
  BY DivBounds
<1> SUFFICES ASSUME n \div k + 1 <= m \div k PROVE FALSE
  BY <1>1
<1>2. k * (n \div k + 1) <= k * (m \div k)
  BY <1>1, TimesMono
<1>3. k * (n \div k + 1) = k * (n \div k) + k
  BY <1>1
<1> QED
  BY <1>1, <1>2, <1>3

\* The fade begins at none, ends at all, and never goes back.
LEMMA EasedBounds ==
  ASSUME NEW n \in 0 .. ExtrapolationDecay
  PROVE  Eased(n) \in 0 .. Whole
<1>1. n \in 0 .. 350 /\ Eased(n) = (n * n * (1050 - 2 * n)) \div 42875
  BY DEF Eased, ExtrapolationDecay
<1> DEFINE cubic == n * n * (1050 - 2 * n)
<1>2. cubic \in Int /\ cubic >= 0
  <2>1. n * n \in Nat /\ 1050 - 2 * n \in Nat
    BY <1>1
  <2> QED
    BY <2>1
<1>3. cubic <= 42875000
  <2>1. 42875000 - cubic = ((350 - n) * (350 - n)) * (350 + 2 * n)
    BY <1>1
  <2>2. (350 - n) * (350 - n) \in Nat /\ 350 + 2 * n \in Nat
    BY <1>1
  <2>3. ((350 - n) * (350 - n)) * (350 + 2 * n) >= 0
    BY <2>2
  <2> QED
    BY <1>2, <2>1, <2>3
<1> HIDE DEF cubic
<1>4. cubic \div 42875 \in 0 .. 1000
  BY <1>2, <1>3
<1> QED
  BY <1>1, <1>4 DEF cubic, Whole

LEMMA EasedMono ==
  ASSUME NEW n \in 0 .. ExtrapolationDecay, NEW m \in 0 .. ExtrapolationDecay, n <= m
  PROVE  Eased(n) <= Eased(m)
<1>1. /\ n \in 0 .. 350 /\ m \in 0 .. 350
      /\ Eased(n) = (n * n * (1050 - 2 * n)) \div 42875
      /\ Eased(m) = (m * m * (1050 - 2 * m)) \div 42875
  BY DEF Eased, ExtrapolationDecay
<1> DEFINE slope == 1050 * (m + n) - 2 * (m * m + m * n + n * n)
<1>2. m * m * (1050 - 2 * m) - n * n * (1050 - 2 * n) = (m - n) * slope
  BY <1>1
<1>3. slope = m * (700 - 2 * m) + n * (700 - 2 * n) + (m * (350 - n) + n * (350 - m))
  BY <1>1
<1>4. /\ m * (700 - 2 * m) \in Nat /\ n * (700 - 2 * n) \in Nat
      /\ m * (350 - n) \in Nat /\ n * (350 - m) \in Nat
  <2>1. /\ m \in Nat /\ n \in Nat /\ 700 - 2 * m \in Nat /\ 700 - 2 * n \in Nat
        /\ 350 - n \in Nat /\ 350 - m \in Nat
    BY <1>1
  <2>2. \A i, j \in Nat : i * j \in Nat
    OBVIOUS
  <2> QED
    BY <2>1, <2>2
<1> HIDE DEF slope
<1>5. slope \in Nat /\ m - n \in Nat
  <2>1. \A i, j, k, l \in Nat : i + j + (k + l) \in Nat
    OBVIOUS
  <2>2. slope \in Nat
    BY <1>3, <1>4, <2>1
  <2> QED
    BY <1>1, <2>2
<1>6. (m - n) * slope >= 0
  BY <1>5
<1>7. /\ m * m * (1050 - 2 * m) \in Int /\ n * n * (1050 - 2 * n) \in Int
      /\ n * n * (1050 - 2 * n) <= m * m * (1050 - 2 * m)
  <2>1. \A i \in 0 .. 350 : i * i * (1050 - 2 * i) \in Int
    <3> TAKE i \in 0 .. 350
    <3>1. i * i \in Int /\ 1050 - 2 * i \in Int
      OBVIOUS
    <3> QED
      BY <3>1
  <2>2. m * m * (1050 - 2 * m) \in Int /\ n * n * (1050 - 2 * n) \in Int
    BY <1>1, <2>1
  <2>3. \A i, j, d : (i \in Int /\ j \in Int /\ j - i = d /\ d >= 0) => i <= j
    OBVIOUS
  <2> QED
    BY <1>2, <1>6, <2>2, <2>3
<1>8. 42875 \in Nat \ {0}
  OBVIOUS
<1> QED
  BY <1>1, <1>7, <1>8, DivMono

\* x and y are parts of the length d, of either sign, y no less than x.
PartsOf(d, x, y) ==
  /\ x \in Int /\ y \in Int
  /\ d >= 0 => 0 <= x /\ x <= y /\ y <= d
  /\ d < 0 => d <= y /\ y <= x /\ x <= 0

\* How far the fade has gone, in thousandths.
Fade(silence) ==
  IF silence <= ExtrapolationHold THEN 0
  ELSE Eased(AtMost(silence - ExtrapolationHold, ExtrapolationDecay))

LEMMA FadeBounds ==
  ASSUME NEW silence \in Nat
  PROVE  Fade(silence) \in 0 .. Whole
<1>1. CASE silence <= ExtrapolationHold
  BY <1>1 DEF Fade, Whole
<1>2. CASE ~(silence <= ExtrapolationHold)
  <2>1. AtMost(silence - ExtrapolationHold, ExtrapolationDecay) \in 0 .. ExtrapolationDecay
    BY <1>2 DEF AtMost, ExtrapolationHold, ExtrapolationDecay
  <2>2. Eased(AtMost(silence - ExtrapolationHold, ExtrapolationDecay)) \in 0 .. Whole
    BY <2>1, EasedBounds, Zenon
  <2>3. Fade(silence) = Eased(AtMost(silence - ExtrapolationHold, ExtrapolationDecay))
    BY <1>2, Zenon DEF Fade
  <2> QED
    BY <2>2, <2>3, Zenon
<1> QED
  BY <1>1, <1>2

LEMMA FadeMono ==
  ASSUME NEW a \in Nat, NEW b \in Nat, a <= b
  PROVE  Fade(a) <= Fade(b)
<1>1. CASE a <= ExtrapolationHold
  <2>1. Fade(a) = 0
    BY <1>1 DEF Fade
  <2>2. Fade(b) \in 0 .. Whole
    BY FadeBounds, Zenon
  <2> QED
    BY <2>1, <2>2 DEF Whole
<1>2. CASE ~(a <= ExtrapolationHold)
  <2>1. ~(b <= ExtrapolationHold)
    BY <1>2 DEF ExtrapolationHold
  <2>2. /\ AtMost(a - ExtrapolationHold, ExtrapolationDecay) \in 0 .. ExtrapolationDecay
        /\ AtMost(b - ExtrapolationHold, ExtrapolationDecay) \in 0 .. ExtrapolationDecay
        /\ AtMost(a - ExtrapolationHold, ExtrapolationDecay)
             <= AtMost(b - ExtrapolationHold, ExtrapolationDecay)
    BY <1>2, <2>1 DEF AtMost, ExtrapolationHold, ExtrapolationDecay
  <2> QED
    BY <1>2, <2>1, <2>2, EasedMono DEF Fade
<1> QED
  BY <1>1, <1>2

\* Positions on a segment, in thousandths, up to the cap.
Positions == 0 .. 1500

\* q is p, or nearer the segment's end and on the same side of it.
Toward(p, q) ==
  /\ p \in Positions
  /\ q \in Positions
  /\ (p <= q /\ q <= 1000) \/ (1000 <= q /\ q <= p)

\* The segment is never run past its cap, stays where it is or moves towards its
\* end as the silence lasts, and never crosses it.
LEMMA SegmentPositionBounds ==
  ASSUME NEW t \in Nat, NEW a \in Nat, NEW b \in Nat, a <= b
  PROVE  Toward(SegmentPosition(t, a), SegmentPosition(t, b))
<1> DEFINE pt == AtMost(t, ExtrapolationCap)
<1>1. pt \in 0 .. 1500 /\ 1000 - pt \in -500 .. 1000
  BY DEF AtMost, ExtrapolationCap, Whole
<1> HIDE DEF pt
<1>2. ASSUME NEW s \in Nat
      PROVE  SegmentPosition(t, s) = pt + ((1000 - pt) * Fade(s)) \div 1000
  <2>1. CASE s <= ExtrapolationHold
    <3>1. SegmentPosition(t, s) = pt /\ Fade(s) = 0
      BY <2>1 DEF SegmentPosition, Fade, pt
    <3>2. \A k \in Int : k = k + ((1000 - k) * 0) \div 1000
      OBVIOUS
    <3>3. pt \in Int
      BY <1>1
    <3> QED
      BY <3>1, <3>2, <3>3
  <2>2. CASE ~(s <= ExtrapolationHold)
    BY <2>2 DEF SegmentPosition, Fade, Whole, pt
  <2> QED
    BY <2>1, <2>2
<1>3. Fade(a) \in 0 .. Whole /\ Fade(b) \in 0 .. Whole
  BY FadeBounds, Zenon
<1>4. PICK e \in 0 .. 1000 : e = Fade(a)
  BY <1>3 DEF Whole
<1>5. PICK f \in 0 .. 1000 : f = Fade(b)
  BY <1>3 DEF Whole
<1>6. e <= f
  BY <1>4, <1>5, FadeMono
<1>7. PICK d \in Int : d = 1000 - pt
  BY <1>1
<1> DEFINE x == (d * e) \div 1000
           y == (d * f) \div 1000
<1>8. PartsOf(d, x, y)
  <2> DEFINE n == d * e
             m == d * f
             all == 1000 * d
  <2>1. n \in Int /\ m \in Int /\ all \in Int /\ all \div 1000 = d
    OBVIOUS
  <2>2. d >= 0 => 0 <= n /\ n <= m /\ m <= all
    BY <1>6
  <2>3. d < 0 => all <= m /\ m <= n /\ n <= 0
    BY <1>6
  <2> HIDE DEF n, m, all
  <2>4. PartsOf(d, n \div 1000, m \div 1000)
    BY <2>1, <2>2, <2>3 DEF PartsOf
  <2> QED
    BY <2>4 DEF n, m
<1>9. /\ SegmentPosition(t, a) = pt + (d * e) \div 1000
      /\ SegmentPosition(t, b) = pt + (d * f) \div 1000
  BY <1>2, <1>4, <1>5, <1>7
<1>10. PartsOf(d, x, y) /\ SegmentPosition(t, a) = pt + x /\ SegmentPosition(t, b) = pt + y
  BY <1>8, <1>9
<1> HIDE DEF x, y
<1> QED
  BY <1>1, <1>7, <1>10 DEF PartsOf, Toward, Positions

\* What is shown moves away from a segment's start, to its end and past it.
LEMMA Along ==
  ASSUME NEW a \in Int, NEW b \in Int, NEW p \in Nat, NEW q \in Nat, p <= q
  PROVE  /\ Interpolate(a, b, p) \in Int /\ Interpolate(a, b, q) \in Int
         /\ a <= b => a <= Interpolate(a, b, p) /\ Interpolate(a, b, p) <= Interpolate(a, b, q)
         /\ b < a => Interpolate(a, b, p) <= a /\ Interpolate(a, b, q) <= Interpolate(a, b, p)
<1>1. PICK d \in Int : d = b - a
  OBVIOUS
<1> DEFINE n == d * p
           m == d * q
<1>2. n \in Int /\ m \in Int
  OBVIOUS
<1>3. d >= 0 => 0 <= n /\ n <= m
  OBVIOUS
<1>4. d < 0 => m <= n /\ n <= 0
  OBVIOUS
<1>5. Interpolate(a, b, p) = a + n \div 1000 /\ Interpolate(a, b, q) = a + m \div 1000
  BY <1>1 DEF Interpolate, Whole
<1> HIDE DEF n, m
<1> QED
  BY <1>1, <1>2, <1>3, <1>4, <1>5

\* No further outside low and high than these lie apart.
Bounded(n, low, high) == Between(n, low - (high - low), high + (high - low))

\* Half past the end of a segment that started within the bounds is within them.
LEMMA WithinBounds ==
  ASSUME NEW a \in Int, NEW b \in Int, NEW low \in Int, NEW high \in Int, NEW p \in Positions,
         low <= b, b <= high, Bounded(a, low, high)
  PROVE  Bounded(Interpolate(a, b, p), low, high)
<1>0. p \in 0 .. 1500
  BY DEF Positions
<1>1. PICK d \in Int : d = b - a
  OBVIOUS
<1> DEFINE n == d * p
<1>2. n \in Int
  BY <1>0
<1>3. d >= 0 => 0 <= n /\ n <= 1500 * d
  BY <1>0
<1>4. d < 0 => 1500 * d <= n /\ n <= 0
  BY <1>0
<1>5. Interpolate(a, b, p) = a + n \div 1000
  BY <1>1 DEF Interpolate, Whole
<1>6. low - (high - low) <= a /\ a <= high + (high - low)
  BY DEF Bounded, Between
<1> HIDE DEF n
<1>7. low - (high - low) <= a + n \div 1000 /\ a + n \div 1000 <= high + (high - low)
  BY <1>1, <1>2, <1>3, <1>4, <1>6
<1> QED
  BY <1>5, <1>7 DEF Bounded, Between

\* Numbers behind what the axis shows, on a segment with silence s.
LEMMA ProgressType ==
  ASSUME TypeOK
  PROVE  /\ from \in Int /\ to \in Int /\ travelled \in 0 .. 300 /\ since \in 0 .. 700
         /\ interval \in Nat \ {0} /\ Progress \in Nat
<1>1. /\ from \in Int /\ to \in Int /\ travelled \in 0 .. 300 /\ since \in 0 .. 700
      /\ interval \in Nat \ {0}
  BY SamplesAssumption DEF TypeOK, TravelledCap, SinceCap, MinSampleInterval, MaxSampleInterval
<1>2. 1000 * travelled \in Int /\ 0 <= 1000 * travelled /\ 0 \in Int
  BY <1>1
<1>3. (1000 * travelled) \div interval \in Int
  BY <1>1, <1>2, DivBounds
<1>4. 0 \div interval <= (1000 * travelled) \div interval
  BY <1>1, <1>2, DivMono
<1>5. 0 \div interval = 0
  BY <1>1
<1> QED
  BY <1>1, <1>3, <1>4, <1>5 DEF Progress, Whole

LEMMA SegmentBetween ==
  ASSUME TypeOK, NEW silence \in Nat, since <= silence
  PROVE  Toward(SegmentPosition(Progress, since), SegmentPosition(Progress, silence))
<1>1. Progress \in Nat /\ since \in Nat
  BY ProgressType
<1> QED
  BY <1>1, SegmentPositionBounds

-----------------------------------------------------------------------------

\* No late sample pulls the camera back within the hold (smoothing.rs 65-71).
THEOREM AlwaysHoldsPrediction == Spec => HoldsPrediction
<1>1. IInv =>
        [\A dt \in Frames :
           (TravelOn(dt) /\ since' <= ExtrapolationHold) =>
             Distance(Shown', from) >= Distance(Shown, from)]_vars
  <2> SUFFICES ASSUME IInv, NEW dt \in Frames, TravelOn(dt), since' <= ExtrapolationHold
               PROVE  Distance(Shown', from) >= Distance(Shown, from)
    OBVIOUS
  <2>1. /\ from \in Int /\ to \in Int /\ travelled \in 0 .. 300 /\ since \in 0 .. 700
        /\ interval \in Nat \ {0} /\ Progress \in Nat /\ dt \in 0 .. 100
    BY ProgressType, FramesAssumption DEF IInv
  <2>2. /\ since' = AtMost(since + dt, SinceCap) /\ travelled' = AtMost(travelled + dt, TravelledCap)
        /\ from' = from /\ to' = to /\ interval' = interval
    BY DEF TravelOn
  <2>3. since <= ExtrapolationHold /\ travelled' \in 0 .. 300 /\ travelled <= travelled'
    BY <2>1, <2>2 DEF AtMost, SinceCap, TravelledCap, ExtrapolationHold
  <2>4. Progress' \in Nat /\ Progress <= Progress'
    <3>1. PICK m \in Int : m = travelled
      BY <2>1
    <3>2. PICK n \in Int : n = travelled'
      BY <2>3
    <3>3. PICK k \in Nat \ {0} : k = interval
      BY <2>1
    <3>4. m <= n
      BY <2>3, <3>1, <3>2
    <3>5. 1000 * m \in Int /\ 1000 * n \in Int /\ 1000 * m <= 1000 * n
      BY <3>4
    <3>6. (1000 * m) \div k <= (1000 * n) \div k /\ (1000 * n) \div k \in Int
      BY <3>5, DivBounds, DivMono
    <3>7. Progress = (1000 * m) \div k /\ Progress' = (1000 * n) \div k
      BY <2>2, <3>1, <3>2, <3>3 DEF Progress, Whole
    <3> QED
      BY <2>1, <3>6, <3>7
  <2> DEFINE p == AtMost(Progress, ExtrapolationCap)
             q == AtMost(Progress', ExtrapolationCap)
  <2>5. p \in Nat /\ q \in Nat /\ p <= q
    BY <2>1, <2>4 DEF AtMost, ExtrapolationCap, Whole
  <2>6. Shown = Interpolate(from, to, p) /\ Shown' = Interpolate(from, to, q)
    BY <2>2, <2>3 DEF Shown, SegmentPosition
  <2> HIDE DEF p, q
  <2>7. /\ Interpolate(from, to, p) \in Int /\ Interpolate(from, to, q) \in Int
        /\ from <= to => /\ from <= Interpolate(from, to, p)
                         /\ Interpolate(from, to, p) <= Interpolate(from, to, q)
        /\ to < from => /\ Interpolate(from, to, p) <= from
                        /\ Interpolate(from, to, q) <= Interpolate(from, to, p)
    BY <2>1, <2>5, Along
  <2> QED
    BY <2>1, <2>6, <2>7 DEF Distance
<1> QED
  BY Inductive, <1>1, PTL DEF HoldsPrediction

\* Every segment starts no further outside the reported positions than these lie
\* apart: the strengthening under which the bound on what is shown is inductive.
StartsBounded ==
  \A low, high \in Samples \cup {0} :
    (\A n \in Samples \cup {0} : low <= n /\ n <= high) => Bounded(from, low, high)

LEMMA StaysBounded ==
  ASSUME TypeOK, StartsBounded, NEW silence \in Nat, since <= silence,
         NEW low \in Samples \cup {0}, NEW high \in Samples \cup {0},
         \A n \in Samples \cup {0} : low <= n /\ n <= high
  PROVE  Bounded(Shown, low, high) /\ Bounded(Capture(silence), low, high)
<1>1. from \in Int /\ to \in Int
  BY ProgressType
<1>2. low \in Int /\ high \in Int /\ low <= to /\ to <= high
  BY SamplesAssumption DEF TypeOK
<1>3. /\ SegmentPosition(Progress, since) \in Positions
      /\ SegmentPosition(Progress, silence) \in Positions
  BY SegmentBetween DEF Toward
<1>4. Bounded(from, low, high)
  BY DEF StartsBounded
<1>5. ASSUME NEW p \in Positions PROVE Bounded(Interpolate(from, to, p), low, high)
  BY <1>1, <1>2, <1>4, WithinBounds
<1> QED
  BY <1>3, <1>5 DEF Shown, Capture

LEMMA StartsBoundedNext == IInv /\ StartsBounded /\ [Next]_vars => StartsBounded'
<1> SUFFICES ASSUME IInv, StartsBounded, [Next]_vars,
                    NEW low \in Samples \cup {0}, NEW high \in Samples \cup {0},
                    \A n \in Samples \cup {0} : low <= n /\ n <= high
             PROVE  Bounded(from', low, high)
  BY DEF StartsBounded
<1>1. low \in Int /\ high \in Int
  BY SamplesAssumption
<1>2. CASE from' \in Samples \cup {0}
  <2>1. from' \in Int /\ low <= from' /\ from' <= high
    BY <1>2, SamplesAssumption
  <2> QED
    BY <1>1, <2>1 DEF Bounded, Between
<1>3. CASE UNCHANGED from
  BY <1>3 DEF StartsBounded
<1>4. ASSUME NEW raw \in Samples, NEW dt \in Frames, OpenSegment(raw, dt)
      PROVE  Bounded(from', low, high)
  <2> DEFINE gap == AtMost(since + dt, SinceCap)
  <2>1. from' = Capture(gap)
    BY <1>4 DEF OpenSegment
  <2>2. since \in 0 .. 700 /\ dt \in 0 .. 100 /\ TypeOK
    BY ProgressType, FramesAssumption DEF IInv
  <2>3. gap \in Nat /\ since <= gap
    BY <2>2 DEF AtMost, SinceCap
  <2> QED
    BY <2>1, <2>2, <2>3, StaysBounded
<1> QED
  BY <1>2, <1>3, <1>4 DEF Next, Frame, Park, TravelOn, PassThrough, Reset, vars

\* However segments are cut short or run past their ends, what is shown stays as
\* near the reported positions as these are to each other, for any samples
\* (smoothing.rs 104-115).
THEOREM OvershootAlwaysBounded == Spec => []OvershootBounded
<1>1. Init => StartsBounded
  <2> SUFFICES ASSUME Init, NEW low \in Samples \cup {0}, NEW high \in Samples \cup {0},
                      \A n \in Samples \cup {0} : low <= n /\ n <= high
               PROVE  Bounded(from, low, high)
    BY DEF StartsBounded
  <2>1. low \in Int /\ high \in Int /\ from = 0 /\ low <= 0 /\ 0 <= high
    BY SamplesAssumption DEF Init
  <2> QED
    BY <2>1 DEF Bounded, Between
<1>2. IInv /\ StartsBounded => OvershootBounded
  <2> SUFFICES ASSUME IInv, StartsBounded,
                      NEW low \in Samples \cup {0}, NEW high \in Samples \cup {0},
                      \A n \in Samples \cup {0} : low <= n /\ n <= high
               PROVE  Bounded(Shown, low, high)
    BY DEF OvershootBounded, Bounded
  <2>1. TypeOK /\ since \in Nat /\ since <= since
    BY ProgressType DEF IInv
  <2> QED
    BY <2>1, StaysBounded
<1> QED
  BY <1>1, <1>2, Inductive, StartsBoundedNext, PTL DEF Spec

=============================================================================
