----------------------------- MODULE PositionAxis -----------------------------
(***************************************************************************)
(* One position axis of the pipeline: the interpolator with its clock, the *)
(* limits and the exponential smoother (src/src/smoothing.rs).             *)
(*                                                                         *)
(* A frame feeds the axis a frame time and, when the tick has found one, a *)
(* new sample.  The interpolator learns the sample interval from the gaps, *)
(* moves along the segment to the sample at that pace, runs past its end   *)
(* by at most half, and returns to the sample when no other follows.  What *)
(* it shows is clamped to the axis's limits, smoothed, and clamped again.  *)
(*                                                                         *)
(* Times are whole milliseconds, positions whole units of length, rounded  *)
(* down where the code keeps the fraction; the shortest frame time, a      *)
(* tenth of a millisecond, counts as none.  A progress is kept as the time *)
(* travelled on the segment, whose interval does not change under way.     *)
(***************************************************************************)
EXTENDS Integers

CONSTANTS
  Samples,      \* what the tracker may report on this axis, in units of length
  Frames,       \* the frame times, in milliseconds
  LimitBelow,   \* how far the axis may go either way
  LimitAbove

ASSUME SamplesAssumption == Samples \subseteq Int
ASSUME FramesAssumption == Frames \subseteq 0 .. 100   \* up to MAX_FRAME_DT
ASSUME LimitsAssumption == LimitBelow \in Nat \ {0} /\ LimitAbove \in Nat \ {0}

LimitLow == -LimitBelow
LimitHigh == LimitAbove

DefaultSampleInterval == 33
MinSampleInterval == 1
MaxSampleInterval == 200
ExtrapolationHold == 250
ExtrapolationDecay == 350
Whole == 1000        \* a whole segment; positions on it are in thousandths
ExtrapolationCap == Whole + Whole \div 2

\* Bound: a silence beyond it has no further effect on the fade or on the blend.
SinceCap == 700
\* Bound: on the longest interval it is the extrapolation cap.
TravelledCap == 300

AtMost(n, cap) == IF n > cap THEN cap ELSE n
Clamp(n, low, high) == IF n < low THEN low ELSE IF n > high THEN high ELSE n

\* smoothstep of the time n into the decay, in thousandths.
Eased(n) == (n * n * (3 * ExtrapolationDecay - 2 * n)) \div 42875

\* Mutant: the prediction expires from the moment it begins.
SegmentPositionNoHold(t, silence) ==
  LET pt == AtMost(t, ExtrapolationCap)
      expired == AtMost(silence, ExtrapolationDecay)
  IN  pt + ((Whole - pt) * Eased(expired)) \div Whole

\* Mutant: past its end the segment is held for good.
SegmentPositionForever(t, silence) == AtMost(t, ExtrapolationCap)

\* Mutant: the segment runs on at its pace until the prediction expires.
SegmentPositionUncapped(t, silence) ==
  LET expired == AtMost(silence - ExtrapolationHold, ExtrapolationDecay)
  IN  IF silence <= ExtrapolationHold THEN t
      ELSE t + ((Whole - t) * Eased(expired)) \div Whole

\* segment_position, t along the segment with a sample outstanding for silence.
SegmentPosition(t, silence) ==
  LET pt == AtMost(t, ExtrapolationCap)
      expired == AtMost(silence - ExtrapolationHold, ExtrapolationDecay)
  IN  IF silence <= ExtrapolationHold THEN pt
      ELSE pt + ((Whole - pt) * Eased(expired)) \div Whole

\* AxisKind::interpolate of a linear axis.
Interpolate(a, b, t) == a + ((b - a) * t) \div Whole

VARIABLES
  received,         \* ATOMIC_SAMPLE_SEQ has counted a datagram
  hasFirstSample,   \* has_first_sample
  hasSecondSample,  \* has_second_sample
  from,             \* where the segment starts
  to,               \* the last sample
  travelled,        \* progress, as time on the segment
  interval,         \* sample_interval
  since,            \* time_since_last_sample
  hasValue,         \* the smoother's has_value
  current,          \* the smoother's current
  \* history
  steady            \* the gap all samples since a reset had, 0 none, -1 mixed

clockVars == <<travelled, interval, since, hasFirstSample, hasSecondSample>>
vars == <<received, clockVars, from, to, hasValue, current, steady>>

Progress == (Whole * travelled) \div interval

\* What the interpolator returned for the last frame, and the axis's output.
Shown == Interpolate(from, to, SegmentPosition(Progress, since))
Output == Clamp(current, LimitLow, LimitHigh)

TypeOK ==
  /\ {received, hasFirstSample, hasSecondSample, hasValue} \subseteq BOOLEAN
  /\ from \in Int
  /\ to \in Samples \cup {0}
  /\ travelled \in 0 .. TravelledCap
  /\ interval \in MinSampleInterval .. MaxSampleInterval
  /\ since \in 0 .. SinceCap
  /\ current \in Int
  /\ steady \in -1 .. SinceCap

Init ==
  /\ received = FALSE
  /\ hasFirstSample = FALSE
  /\ hasSecondSample = FALSE
  /\ from = 0
  /\ to = 0
  /\ travelled = 0
  /\ interval = DefaultSampleInterval
  /\ since = 0
  /\ hasValue = FALSE
  /\ current = 0
  /\ steady = 0

-----------------------------------------------------------------------------
(* Interpolator::update                                                    *)

\* Mutant: the default interval is blended into the first gap.
LearnedIntervalBlendsDefault(gap) ==
  Clamp(interval + ((gap - interval) * 3) \div 10, MinSampleInterval, MaxSampleInterval)

\* The interval after a gap: the first one as it is, the others blended in.
LearnedInterval(gap) ==
  Clamp(IF hasSecondSample THEN interval + ((gap - interval) * 3) \div 10 ELSE gap,
        MinSampleInterval, MaxSampleInterval)

\* The first sample since a reset is shown as it is.
Park(raw) ==
  /\ ~hasFirstSample
  /\ received' = TRUE
  /\ hasFirstSample' = TRUE
  /\ from' = raw
  /\ to' = raw
  /\ travelled' = interval
  /\ since' = 0
  /\ UNCHANGED <<interval, hasSecondSample, steady>>

\* Where the segment stands as the next sample comes in.
Capture(silence) == Interpolate(from, to, SegmentPosition(Progress, silence))

\* Another sample: it teaches its gap, and opens a segment from where the last
\* one stands, which the frame itself then travels.
OpenSegment(raw, dt) ==
  LET gap == AtMost(since + dt, SinceCap)
  IN  /\ hasFirstSample
      /\ IF gap > MinSampleInterval
           THEN /\ interval' = LearnedInterval(gap)
                /\ hasSecondSample' = TRUE
                /\ steady' = IF steady \in {0, gap} THEN gap ELSE -1
           ELSE UNCHANGED <<interval, hasSecondSample, steady>>
      /\ from' = Capture(gap)
      /\ to' = raw
      /\ travelled' = dt
      /\ since' = 0
      /\ UNCHANGED <<received, hasFirstSample>>

\* No sample: the segment is travelled on.
TravelOn(dt) ==
  /\ hasFirstSample
  /\ since' = AtMost(since + dt, SinceCap)
  /\ travelled' = AtMost(travelled + dt, TravelledCap)
  /\ UNCHANGED <<received, hasFirstSample, hasSecondSample, from, to, interval, steady>>

\* No sample yet: the raw value is still the static's initial one.
PassThrough(dt) ==
  /\ ~received
  /\ since' = AtMost(since + dt, SinceCap)
  /\ UNCHANGED <<received, hasFirstSample, hasSecondSample, from, to, travelled,
                 interval, steady>>

-----------------------------------------------------------------------------
(* PositionAxis::update and reset                                          *)

\* Mutant: the smoother follows what lies beyond the limits.
TargetUnclamped == Shown'

\* The smoother's target.
Target == Clamp(Shown', LimitLow, LimitHigh)

\* Smoother::update: the first target as it is, afterwards some of the way
\* there, more than none and no more than all of it after rounding.
Smooth ==
  /\ hasValue' = TRUE
  /\ IF ~hasValue \/ current = Target
       THEN current' = Target
       ELSE current' \in IF current < Target THEN current + 1 .. Target
                                             ELSE Target .. current - 1

Frame(dt) ==
  /\ \/ \E raw \in Samples : Park(raw) \/ OpenSegment(raw, dt)
     \/ TravelOn(dt)
     \/ PassThrough(dt)
  /\ Smooth

\* smoothing::reset; the next frame finds the counter unlike the one last seen.
Reset ==
  /\ hasFirstSample' = FALSE
  /\ hasSecondSample' = FALSE
  /\ from' = 0
  /\ to' = 0
  /\ travelled' = 0
  /\ interval' = DefaultSampleInterval
  /\ since' = 0
  /\ hasValue' = FALSE
  /\ current' = 0
  /\ steady' = 0
  /\ UNCHANGED received

Next == (\E dt \in Frames : Frame(dt)) \/ Reset

Spec == Init /\ [][Next]_vars

-----------------------------------------------------------------------------
(* Properties                                                              *)

Between(n, a, b) == (a <= n /\ n <= b) \/ (b <= n /\ n <= a)
Distance(a, b) == IF a < b THEN b - a ELSE a - b

\* While a sample is late by no more than the hold, the camera goes on or stays:
\* a dropped packet never pulls it back against a head that is still turning
\* (smoothing.rs 65-71, 110-112).
HoldsPrediction ==
  [][\A dt \in Frames :
       (TravelOn(dt) /\ since' <= ExtrapolationHold) =>
         Distance(Shown', from) >= Distance(Shown, from)]_vars

\* A feed that has been silent for the hold and the decay shows the position the
\* tracker last reported and not the prediction, on whatever interval was learnt
\* (smoothing.rs 83-90, 99-103).
FadesToReported ==
  since >= ExtrapolationHold + ExtrapolationDecay => Shown = to

\* Predictions do not add up: segments that start from an overshoot and are cut
\* short or run past their end, in any order, never carry the camera further
\* outside the reported positions than these lie apart (smoothing.rs 104-115).
OvershootBounded ==
  \A low, high \in Samples \cup {0} :
    (\A n \in Samples \cup {0} : low <= n /\ n <= high) =>
      Between(Shown, low - (high - low), high + (high - low))

\* A tracker with a steady rate is interpolated at that rate from its second
\* sample on: neither the guess for a rate not known yet nor samples that came
\* in the same frame leave a trace in the interval (smoothing.rs 34-52, 264-277).
LearnsSteadyRate ==
  steady > 0 => interval = Clamp(steady, MinSampleInterval, MaxSampleInterval)

\* A lean past the limits does not wind the smoother up: the output leaves the
\* limit with the first frame that shows the head back inside
\* (smoothing.rs 378-384).
NoWindUp ==
  [][(hasValue /\ hasValue') =>
       /\ (Output = LimitHigh /\ Shown' < LimitHigh) => Output' < LimitHigh
       /\ (Output = LimitLow /\ Shown' > LimitLow) => Output' > LimitLow]_vars

=============================================================================
