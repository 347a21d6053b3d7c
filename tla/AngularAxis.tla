----------------------------- MODULE AngularAxis -----------------------------
(***************************************************************************)
(* Angles on a circle, and one interpolator that wraps at the seam         *)
(* (src/src/smoothing.rs).                                                 *)
(*                                                                         *)
(* Yaw and roll go from one tracker sample to the next along the shorter   *)
(* arc, whichever way that is and on whatever turn the tracker counts.     *)
(* Angles are whole degrees and the segment position is a number of        *)
(* quarters, rounded to a whole degree where the code keeps the fraction.  *)
(* When a segment is cut short, held or extrapolated depends on the clock, *)
(* which is left out: a sample may find the segment at any position up to  *)
(* the extrapolation cap.                                                  *)
(***************************************************************************)
EXTENDS Integers

CONSTANT Samples   \* the angles a tracker may report, in degrees

ASSUME SamplesAssumption == Samples \subseteq Int

\* MAX_EXTRAPOLATION_FRACTION past the end of the segment.
Positions == 0 .. 6
Whole == 4

Abs(n) == IF n < 0 THEN -n ELSE n

\* The remainder of Rust's `%`, which has the sign of the dividend.
Rem(a, b) == IF a < 0 THEN -((-a) % b) ELSE a % b

\* Mutant: only turns to the right come back.
NormalizeAngleOneWay(angle) ==
  IF Rem(angle, 360) > 180 THEN Rem(angle, 360) - 360 ELSE Rem(angle, 360)

\* normalize_angle.
NormalizeAngle(angle) ==
  IF angle \in -180 .. 180 THEN angle
  ELSE IF Rem(angle, 360) > 180 THEN Rem(angle, 360) - 360
  ELSE IF Rem(angle, 360) < -180 THEN Rem(angle, 360) + 360
  ELSE Rem(angle, 360)

\* Mutant: the arguments are swapped.
ShortestAngleDeltaBackwards(from, to) == NormalizeAngle(from - to)

\* shortest_angle_delta.
ShortestAngleDelta(from, to) == NormalizeAngle(to - from)

\* AxisKind::interpolate of an angular axis, t quarters of the way.
Interpolate(from, to, t) ==
  NormalizeAngle(from + (ShortestAngleDelta(from, to) * t) \div Whole)

VARIABLES
  hasFirstSample,   \* has_first_sample
  from,             \* where the segment starts
  to                \* the last sample

vars == <<hasFirstSample, from, to>>

\* A segment starts at the very first sample as it was reported, or on the circle.
TypeOK ==
  /\ hasFirstSample \in BOOLEAN
  /\ from \in -180 .. 180 \cup Samples
  /\ to \in Samples \cup {0}
  /\ from \notin -180 .. 180 => from = to

Init ==
  /\ hasFirstSample = FALSE
  /\ from = 0
  /\ to = 0

\* update with the first sample since a reset.
Park(raw) ==
  /\ ~hasFirstSample
  /\ hasFirstSample' = TRUE
  /\ from' = raw
  /\ to' = raw

\* update with another sample, which finds the segment t quarters along.
Sample(raw, t) ==
  /\ hasFirstSample
  /\ from' = Interpolate(from, to, t)
  /\ to' = raw
  /\ UNCHANGED hasFirstSample

Reset ==
  /\ hasFirstSample' = FALSE
  /\ from' = 0
  /\ to' = 0

Next ==
  \/ \E raw \in Samples : Park(raw)
  \/ \E raw \in Samples, t \in Positions : Sample(raw, t)
  \/ Reset

Spec == Init /\ [][Next]_vars

-----------------------------------------------------------------------------
(* Properties                                                              *)

\* A segment never turns the long way round: it is no longer than any other way
\* from its start to the sample, whatever turn either is counted on
\* (smoothing.rs 186-190, 206-211).
TakesShorterArc ==
  \A k \in -4 .. 4 : Abs(ShortestAngleDelta(from, to)) <= Abs(to - from + 360 * k)

\* A segment that is run to its end has turned the head to the angle the
\* tracker reported, up to whole turns, through every earlier cut-off segment
\* and across the seam (smoothing.rs 91-114, 203-214).
ArrivesWhereReported ==
  /\ Interpolate(from, to, Whole) \in -180 .. 180
  /\ (Interpolate(from, to, Whole) - to) % 360 = 0

=============================================================================
