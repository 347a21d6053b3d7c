-------------------------- MODULE AngularAxisProofs --------------------------
(***************************************************************************)
(* What the angle helpers compute for every integer angle, and what that   *)
(* makes of an angular axis for every set of tracker angles.               *)
(***************************************************************************)
EXTENDS AngularAxis, TLAPS

\* Quotient and remainder, by which the provers know `%`.
LEMMA Division ==
  ASSUME NEW a \in Int
  PROVE  /\ a % 360 \in 0 .. 359
         /\ \E k \in Int : a = 360 * k + (a % 360)
<1>1. a = 360 * (a \div 360) + (a % 360) /\ a \div 360 \in Int
  OBVIOUS
<1> QED
  BY <1>1

\* A whole number of turns leaves no remainder.
LEMMA WholeTurns ==
  ASSUME NEW k \in Int
  PROVE  (360 * k) % 360 = 0
OBVIOUS

\* The truncated remainder is short of one turn.
LEMMA RemRange ==
  ASSUME NEW a \in Int
  PROVE  Rem(a, 360) \in -359 .. 359
<1>1. CASE a < 0
  <2>1. -a \in Int
    OBVIOUS
  <2>2. (-a) % 360 \in 0 .. 359
    BY <2>1, Division
  <2> QED
    BY <1>1, <2>2 DEF Rem
<1>2. CASE ~(a < 0)
  BY <1>2, Division DEF Rem
<1> QED
  BY <1>1, <1>2

\* The truncated remainder differs by whole turns.
LEMMA RemTurns ==
  ASSUME NEW a \in Int
  PROVE  \E k \in Int : Rem(a, 360) = a + 360 * k
<1>1. CASE a < 0
  <2>1. PICK b \in Int : b = -a
    OBVIOUS
  <2>2. PICK k \in Int : b = 360 * k + (b % 360)
    BY Division
  <2>3. b % 360 \in 0 .. 359
    BY Division
  <2>4. Rem(a, 360) = -(b % 360)
    BY <1>1, <2>1 DEF Rem
  <2> QED
    BY <2>1, <2>2, <2>3, <2>4
<1>2. CASE ~(a < 0)
  <2>1. PICK k \in Int : a = 360 * k + (a % 360)
    BY Division
  <2>2. a % 360 \in 0 .. 359
    BY Division
  <2>3. PICK m \in Int : m = -k
    OBVIOUS
  <2>4. Rem(a, 360) = a + 360 * m
    BY <1>2, <2>1, <2>2, <2>3 DEF Rem
  <2> QED
    BY <2>4
<1> QED
  BY <1>1, <1>2

\* The ways normalize_angle moves an angle.
LEMMA NormalizeCases ==
  ASSUME NEW a \in Int
  PROVE  NormalizeAngle(a) \in {a, Rem(a, 360), Rem(a, 360) - 360, Rem(a, 360) + 360}
BY DEF NormalizeAngle

\* normalize_angle stays on the circle.
THEOREM NormalizeOntoCircle ==
  ASSUME NEW a \in Int
  PROVE  NormalizeAngle(a) \in -180 .. 180
<1>1. PICK r \in -359 .. 359 : r = Rem(a, 360)
  BY RemRange
<1>2. CASE a \in -180 .. 180
  BY <1>2 DEF NormalizeAngle
<1>3. CASE a \notin -180 .. 180 /\ r > 180
  BY <1>1, <1>3 DEF NormalizeAngle
<1>4. CASE a \notin -180 .. 180 /\ r < -180
  BY <1>1, <1>4 DEF NormalizeAngle
<1>5. CASE a \notin -180 .. 180 /\ ~(r > 180) /\ ~(r < -180)
  BY <1>1, <1>5 DEF NormalizeAngle
<1> QED
  BY <1>2, <1>3, <1>4, <1>5

\* normalize_angle moves an angle by whole turns.
THEOREM NormalizeByTurns ==
  ASSUME NEW a \in Int
  PROVE  \E k \in Int : NormalizeAngle(a) = a + 360 * k
<1>1. PICK k \in Int : Rem(a, 360) = a + 360 * k
  BY RemTurns
<1>2. CASE NormalizeAngle(a) = a
  <2>1. NormalizeAngle(a) = a + 360 * 0
    BY <1>2
  <2> QED
    BY <2>1
<1>3. CASE NormalizeAngle(a) = Rem(a, 360)
  BY <1>1, <1>3
<1>4. CASE NormalizeAngle(a) = Rem(a, 360) - 360
  <2>1. NormalizeAngle(a) = a + 360 * (k - 1) /\ k - 1 \in Int
    BY <1>1, <1>4
  <2> QED
    BY <2>1
<1>5. CASE NormalizeAngle(a) = Rem(a, 360) + 360
  <2>1. NormalizeAngle(a) = a + 360 * (k + 1) /\ k + 1 \in Int
    BY <1>1, <1>5
  <2> QED
    BY <2>1
<1> QED
  BY <1>2, <1>3, <1>4, <1>5, NormalizeCases

\* An angle on the half circle is no further from zero than any angle whole
\* turns away.
LEMMA NearestTurn ==
  ASSUME NEW d \in -180 .. 180, NEW k \in Int
  PROVE  Abs(d) <= Abs(d + 360 * k)
<1>1. CASE k = 0
  BY <1>1 DEF Abs
<1>2. CASE k >= 1
  BY <1>2 DEF Abs
<1>3. CASE k <= -1
  BY <1>3 DEF Abs
<1> QED
  BY <1>1, <1>2, <1>3

\* shortest_angle_delta is the shortest way between two angles: no way c that
\* differs by whole turns is shorter.
THEOREM DeltaIsShortest ==
  ASSUME NEW a \in Int, NEW b \in Int, NEW c \in Int,
         \E k \in Int : c = b - a + 360 * k
  PROVE  Abs(ShortestAngleDelta(a, b)) <= Abs(c)
<1>0. PICK k \in Int : c = b - a + 360 * k
  OBVIOUS
<1>1. PICK w \in Int : w = b - a
  OBVIOUS
<1>2. PICK j \in Int : NormalizeAngle(w) = w + 360 * j
  BY NormalizeByTurns
<1>3. PICK d \in -180 .. 180 : d = NormalizeAngle(w)
  BY NormalizeOntoCircle
<1>4. PICK m \in Int : m = k - j
  OBVIOUS
<1>5. c = d + 360 * m
  BY <1>0, <1>1, <1>2, <1>3, <1>4
<1>6. Abs(d) <= Abs(d + 360 * m)
  BY NearestTurn
<1>7. ShortestAngleDelta(a, b) = d
  BY <1>1, <1>3 DEF ShortestAngleDelta
<1> QED
  BY <1>5, <1>6, <1>7

\* Run to its end, a segment arrives at the sample, up to whole turns.
THEOREM InterpolateArrives ==
  ASSUME NEW a \in Int, NEW b \in Int
  PROVE  /\ Interpolate(a, b, Whole) \in -180 .. 180
         /\ (Interpolate(a, b, Whole) - b) % 360 = 0
<1>1. PICK w \in Int : w = b - a
  OBVIOUS
<1>2. PICK i \in Int : NormalizeAngle(w) = w + 360 * i
  BY NormalizeByTurns
<1>3. PICK e \in Int : e = a + w + 360 * i
  OBVIOUS
<1>4. Interpolate(a, b, Whole) = NormalizeAngle(e)
  <2>1. ShortestAngleDelta(a, b) = w + 360 * i
    BY <1>1, <1>2 DEF ShortestAngleDelta
  <2>2. (ShortestAngleDelta(a, b) * 4) \div 4 = w + 360 * i
    BY <2>1
  <2>3. a + ((ShortestAngleDelta(a, b) * 4) \div 4) = e
    BY <1>3, <2>2
  <2> QED
    BY <2>3 DEF Interpolate, Whole
<1>5. PICK j \in Int : NormalizeAngle(e) = e + 360 * j
  BY NormalizeByTurns
<1>6. PICK k \in Int : k = i + j
  OBVIOUS
<1>7. Interpolate(a, b, Whole) - b = 360 * k
  BY <1>1, <1>3, <1>4, <1>5, <1>6
<1>8. Interpolate(a, b, Whole) \in -180 .. 180
  BY <1>4, NormalizeOntoCircle
<1> QED
  BY <1>7, <1>8, WholeTurns

-----------------------------------------------------------------------------

\* The axis keeps to integer angles, and leaves the circle only where the
\* tracker first did.
THEOREM AxisTypes == Spec => []TypeOK
<1>1. Init => TypeOK
  <2> SUFFICES ASSUME Init PROVE TypeOK
    OBVIOUS
  <2>1. from = 0 /\ to = 0
    BY DEF Init
  <2>2. hasFirstSample \in BOOLEAN
    BY DEF Init
  <2> QED
    BY <2>1, <2>2 DEF TypeOK
<1>2. TypeOK /\ [Next]_vars => TypeOK'
  <2> SUFFICES ASSUME TypeOK, [Next]_vars PROVE TypeOK'
    OBVIOUS
  <2>1. ASSUME NEW raw \in Samples, Park(raw) PROVE TypeOK'
    BY <2>1 DEF TypeOK, Park
  <2>2. ASSUME NEW raw \in Samples, NEW t \in Positions, Sample(raw, t) PROVE TypeOK'
    <3>1. from \in Int /\ to \in Int /\ t \in Int
      BY SamplesAssumption DEF TypeOK, Positions
    <3>2. ShortestAngleDelta(from, to) \in Int
      BY <3>1, NormalizeOntoCircle DEF ShortestAngleDelta
    <3>3. from + (ShortestAngleDelta(from, to) * t) \div Whole \in Int
      BY <3>1, <3>2 DEF Whole
    <3>4. from' \in -180 .. 180
      BY <2>2, <3>3, NormalizeOntoCircle DEF Sample, Interpolate
    <3> QED
      BY <2>2, <3>4 DEF TypeOK, Sample
  <2>3. CASE Reset
    <3>1. from' = 0 /\ to' = 0
      BY <2>3 DEF Reset
    <3>2. hasFirstSample' \in BOOLEAN
      BY <2>3 DEF Reset
    <3> QED
      BY <3>1, <3>2 DEF TypeOK
  <2>4. CASE UNCHANGED vars
    BY <2>4 DEF TypeOK, vars
  <2> QED
    BY <2>1, <2>2, <2>3, <2>4 DEF Next
<1> QED
  BY <1>1, <1>2, PTL DEF Spec

\* No segment of any axis takes the longer arc.
THEOREM AxisTakesShorterArc == Spec => []TakesShorterArc
<1>1. TypeOK => TakesShorterArc
  <2> SUFFICES ASSUME TypeOK, NEW k \in -4 .. 4
               PROVE  Abs(ShortestAngleDelta(from, to)) <= Abs(to - from + 360 * k)
    BY DEF TakesShorterArc
  <2>1. PICK a \in Int, b \in Int : a = from /\ b = to
    BY SamplesAssumption DEF TypeOK
  <2>2. PICK j \in Int : j = k
    OBVIOUS
  <2>3. PICK c \in Int : c = b - a + 360 * j
    OBVIOUS
  <2>4. Abs(ShortestAngleDelta(a, b)) <= Abs(c)
    BY <2>3, DeltaIsShortest
  <2> QED
    BY <2>1, <2>2, <2>3, <2>4
<1> QED
  BY <1>1, AxisTypes, PTL

\* Every segment, run to its end, shows the angle the tracker reported.
THEOREM AxisArrives == Spec => []ArrivesWhereReported
<1>1. TypeOK => ArrivesWhereReported
  <2> SUFFICES ASSUME TypeOK PROVE ArrivesWhereReported
    OBVIOUS
  <2>1. from \in Int /\ to \in Int
    BY SamplesAssumption DEF TypeOK
  <2> QED
    BY <2>1, InterpolateArrives DEF ArrivesWhereReported
<1> QED
  BY <1>1, AxisTypes, PTL

=============================================================================
