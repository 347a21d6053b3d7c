----------------------- MODULE WindowPlacementProofs -----------------------
(***************************************************************************)
(* The safety of window centring, for all layouts, places, gaps between    *)
(* checks and any number of disturbances.                                  *)
(***************************************************************************)
EXTENDS WindowPlacement, TLAPS

\* What the phases stand for.  While settling, the placement remembers what the
\* last check saw, and the wait so far is no longer than the rest.
SettlingInv ==
  phase = "settling" =>
    /\ lastSeen = <<seenLayout, mark>>
    /\ since <= rest

\* Once a move has been asked for, the placement is past the wait for good, as
\* long as the player leaves the layout and how the window is shown.
AskedInv ==
  asked # 0 =>
    \/ failed
    \/ kind = "windowed" /\ seenLayout = layout /\ phase \in {"moving", "done"}

\* The inductive invariant: MovedOnlyAtRest says nothing of the wait before a
\* move and OneMovePerLayout nothing of what follows one; SettlingInv and
\* AskedInv add them.
IInv == TypeOK /\ SettlingInv /\ AskedInv /\ MovedOnlyAtRest /\ OneMovePerLayout

\* The mod has the last word on where its window lands: the centred place of the
\* layout the window has.
LandingInv == ours => Landing = CenteredPosition(layout)

\* A clock stays within its cap.
LEMMA CappedRange == ASSUME NEW n \in Nat PROVE Capped(n) \in 0 .. TimeCap
  BY DEF Capped, TimeCap, MoveTenths

\* Two clocks of which one is not behind keep their order.
LEMMA CappedMonotone ==
  ASSUME NEW m \in Nat, NEW n \in Nat, m <= n PROVE Capped(m) <= Capped(n)
  BY DEF Capped, TimeCap, MoveTenths

\* centered_position yields whole pixels.
LEMMA CenteredPositionType ==
  ASSUME NEW l \in Layouts PROVE CenteredPosition(l) \in Int \X Int
<1>1. l \in [width : Nat, height : Nat, work : Rects]
  BY LayoutsAssumption
<1>2. /\ l.width \in Int /\ l.height \in Int
      /\ l.work.left \in Int /\ l.work.right \in Int
      /\ l.work.top \in Int /\ l.work.bottom \in Int
  BY <1>1 DEF Rects
<1>3. \A n \in Int : Positive(n) \in Int
  BY DEF Positive
<1>4. /\ (l.work.right - l.work.left - l.width) \div 2 \in Int
      /\ (l.work.bottom - l.work.top - l.height) \div 2 \in Int
  BY <1>2
<1> QED
  BY <1>2, <1>3, <1>4 DEF CenteredPosition

\* centered_position keeps the title bar within reach, for every window and
\* work area (window.rs 42-48).
THEOREM CenteredInReach ==
  ASSUME NEW l \in Layouts PROVE InReach(l, CenteredPosition(l))
<1>1. l \in [width : Nat, height : Nat, work : Rects]
  BY LayoutsAssumption
<1>2. /\ l.width \in Nat /\ l.height \in Nat
      /\ l.work.left \in Int /\ l.work.right \in Int
      /\ l.work.top \in Int /\ l.work.bottom \in Int
  BY <1>1 DEF Rects
<1>3. \A a, b \in Int, w \in Nat :
        /\ a + Positive((b - a - w) \div 2) >= a
        /\ w <= b - a => a + Positive((b - a - w) \div 2) + w <= b
  <2> SUFFICES ASSUME NEW a \in Int, NEW b \in Int, NEW w \in Nat
               PROVE  /\ a + Positive((b - a - w) \div 2) >= a
                      /\ w <= b - a => a + Positive((b - a - w) \div 2) + w <= b
    OBVIOUS
  <2> DEFINE d == b - a - w
  <2>1. d \in Int /\ d \div 2 \in Int /\ 2 * (d \div 2) <= d
    OBVIOUS
  <2>2. Positive(d \div 2) \in Nat /\ (d >= 0 => Positive(d \div 2) <= d)
    BY <2>1 DEF Positive
  <2> QED
    BY <2>1, <2>2
<1>4. /\ CenteredPosition(l)[1] = l.work.left + Positive((l.work.right - l.work.left - l.width) \div 2)
      /\ CenteredPosition(l)[2] = l.work.top + Positive((l.work.bottom - l.work.top - l.height) \div 2)
  BY DEF CenteredPosition
<1> DEFINE Fits(p, low, high, size) == p >= low /\ (size <= high - low => p + size <= high)
<1>5. \A a, b \in Int, w \in Nat : Fits(a + Positive((b - a - w) \div 2), a, b, w)
  BY <1>3
<1> HIDE DEF Fits
<1>6. /\ Fits(CenteredPosition(l)[1], l.work.left, l.work.right, l.width)
      /\ Fits(CenteredPosition(l)[2], l.work.top, l.work.bottom, l.height)
  BY <1>2, <1>4, <1>5, Zenon
<1> QED
  BY <1>6 DEF Fits, InReach

LEMMA PositionsType == Positions \subseteq Int \X Int
BY CenteredPositionType, PlacesAssumption DEF Positions

LEMMA InitInv == Init => IInv /\ LandingInv
<1> SUFFICES ASSUME Init PROVE IInv /\ LandingInv
  OBVIOUS
<1>1. position \in Positions
  BY DEF Init, Positions
<1>2. TypeOK
  <2>1. queue \in Seq(Positions)
    BY DEF Init
  <2>2. disturbances \in 0 .. MaxDisturbances
    BY TimeAssumption DEF Init
  <2>3. lastSeen \in Layouts \X Positions
    BY <1>1 DEF Init
  <2>4. layout \in Layouts /\ seenLayout \in Layouts /\ mark \in Positions
    BY <1>1 DEF Init
  <2>5. /\ since \in 0 .. TimeCap /\ rest \in 0 .. TimeCap /\ restAtMove \in 0 .. TimeCap
        /\ asked \in 0 .. 2
    BY DEF Init, TimeCap, MoveTenths
  <2>6. /\ phase = "none" /\ failed \in BOOLEAN /\ ours \in BOOLEAN
        /\ kind \in {"windowed", "hidden", "excluded"}
    BY DEF Init
  <2> QED
    BY <1>1, <2>1, <2>2, <2>3, <2>4, <2>5, <2>6 DEF TypeOK
<1> QED
  BY <1>2 DEF Init, IInv, LandingInv, SettlingInv, AskedInv, MovedOnlyAtRest, OneMovePerLayout,
              SettleTenths, TimeCap, MoveTenths

\* A check that sees the window records where it is, and how long it has rested.
LEMMA SeeType ==
  ASSUME TypeOK, NEW elapsed \in Elapsed, See(elapsed)
  PROVE  /\ lastSeen' \in Layouts \X Positions
         /\ rest' \in 0 .. TimeCap
<1>1. elapsed \in Nat /\ rest \in Nat /\ rest + elapsed \in Nat
  BY TimeAssumption DEF TypeOK
<1>2. Capped(rest + elapsed) \in 0 .. TimeCap
  BY <1>1, CappedRange
<1> QED
  BY <1>2 DEF See, TypeOK, TimeCap, MoveTenths

\* The invariant is kept by every step.
LEMMA NextInv == IInv /\ [Next]_vars => IInv'
<1> SUFFICES ASSUME IInv, [Next]_vars PROVE IInv'
  OBVIOUS
<1> USE DEF IInv, MovedOnlyAtRest, OneMovePerLayout, moveHistory
<1>1. CASE UNCHANGED vars
  BY <1>1 DEF vars, placementVars, windowVars, historyVars, moveHistory, TypeOK, SettlingInv, AskedInv
<1>2. CASE CheckFails
  BY <1>2 DEF CheckFails, windowVars, historyVars, moveHistory, TypeOK, SettlingInv, AskedInv
<1>3. CASE Skip
  BY <1>1, <1>3 DEF Skip
<1>4. CASE SeeExcluded
  BY <1>4 DEF SeeExcluded, windowVars, historyVars, moveHistory, TypeOK, SettlingInv, AskedInv
<1>5. ASSUME NEW elapsed \in Elapsed, SeeHidden(elapsed) PROVE IInv'
  <2>1. /\ elapsed \in Nat /\ since \in Nat /\ rest \in Nat
        /\ since + elapsed \in Nat /\ rest + elapsed \in Nat
    BY TimeAssumption DEF TypeOK
  <2>2. /\ Capped(since + elapsed) \in 0 .. TimeCap
        /\ Capped(rest + elapsed) \in 0 .. TimeCap
    BY <2>1, CappedRange
  <2>3. since <= rest => Capped(since + elapsed) <= Capped(rest + elapsed)
    BY <2>1, CappedMonotone
  <2> QED
    BY <1>5, <2>2, <2>3 DEF SeeHidden, windowVars, TypeOK, SettlingInv, AskedInv
<1>6. ASSUME NEW elapsed \in Elapsed, StartSettling(elapsed) PROVE IInv'
  <2>1. lastSeen' \in Layouts \X Positions /\ rest' \in 0 .. TimeCap
    BY <1>6, SeeType DEF StartSettling
  <2>2. lastSeen' = <<layout, position>>
    BY <1>6 DEF StartSettling, See
  <2> QED
    BY <1>6, <2>1, <2>2 DEF StartSettling, windowVars, TypeOK, SettlingInv, AskedInv, TimeCap, MoveTenths
<1>7. ASSUME NEW elapsed \in Elapsed, RestartWait(elapsed) PROVE IInv'
  <2>1. lastSeen' \in Layouts \X Positions /\ rest' \in 0 .. TimeCap
    BY <1>7, SeeType DEF RestartWait
  <2>2. lastSeen' = <<layout, position>> /\ layout = seenLayout /\ phase = "settling"
    BY <1>7 DEF RestartWait, See, InPhase
  <2> QED
    BY <1>7, <2>1, <2>2 DEF RestartWait, windowVars, TypeOK, SettlingInv, AskedInv, TimeCap, MoveTenths
<1>8. ASSUME NEW elapsed \in Elapsed, KeepWaiting(elapsed) PROVE IInv'
  <2>1. lastSeen' \in Layouts \X Positions /\ rest' \in 0 .. TimeCap
    BY <1>8, SeeType DEF KeepWaiting
  <2>2. /\ elapsed \in Nat /\ since \in Nat /\ rest \in Nat
        /\ since + elapsed \in Nat /\ rest + elapsed \in Nat
    BY TimeAssumption DEF TypeOK
  <2>3. since + elapsed <= MoveTenths
    BY <1>8, <2>2 DEF KeepWaiting, SettleTenths, MoveTenths
  <2>4. Capped(since + elapsed) = since + elapsed
    BY <2>2, <2>3 DEF Capped, TimeCap, MoveTenths
  <2>5. SettlingInv'
    <3> SUFFICES ASSUME phase = "settling" PROVE SettlingInv'
      BY <1>8 DEF KeepWaiting, SettlingInv
    <3>1. /\ layout = seenLayout /\ position = mark
          /\ lastSeen = <<layout, position>> /\ since <= rest
      BY <1>8 DEF KeepWaiting, InPhase, SettlingInv
    <3>2. rest' = Capped(rest + elapsed) /\ lastSeen' = lastSeen
      BY <1>8, <3>1 DEF KeepWaiting, See
    <3>3. since' <= rest'
      BY <1>8, <2>2, <2>4, <3>1, <3>2, CappedMonotone DEF KeepWaiting
    <3> QED
      BY <1>8, <3>1, <3>2, <3>3 DEF KeepWaiting, SettlingInv
  <2> QED
    BY <1>8, <2>1, <2>2, <2>3, <2>5
    DEF KeepWaiting, InPhase, windowVars, AskedInv, TypeOK, TimeCap, MoveTenths
<1>9. ASSUME NEW elapsed \in Elapsed, RequestMove(elapsed) PROVE IInv'
  <2>1. lastSeen' \in Layouts \X Positions /\ rest' \in 0 .. TimeCap
    BY <1>9, SeeType DEF RequestMove
  <2>2. /\ phase = "settling" /\ layout = seenLayout /\ position = mark
        /\ lastSeen = <<layout, position>> /\ since <= rest /\ asked = 0
    BY <1>9 DEF RequestMove, See, InPhase, SettlingInv, AskedInv
  <2>3. rest' = Capped(rest + elapsed) /\ lastSeen' = lastSeen
    BY <1>9, <2>2 DEF RequestMove, See
  <2>4. /\ elapsed \in Nat /\ since \in Nat /\ rest \in Nat
        /\ since + elapsed >= SettleTenths
    BY <1>9, TimeAssumption DEF RequestMove, TypeOK
  <2>5. rest' >= SettleTenths /\ rest' >= since
    BY <2>2, <2>3, <2>4 DEF Capped, SettleTenths, TimeCap, MoveTenths, TypeOK
  <2>6. CenteredPosition(layout) \in Positions
    BY DEF Positions, TypeOK
  <2>7. CASE failed' /\ UNCHANGED <<phase, mark, since, queue, moveHistory>>
    BY <1>9, <2>1, <2>2, <2>3, <2>5, <2>7 DEF RequestMove, TypeOK, SettlingInv, AskedInv
  <2>8. CASE /\ phase' = "moving"
             /\ mark' = CenteredPosition(layout)
             /\ since' = 0
             /\ queue' = Append(queue, CenteredPosition(layout))
             /\ asked' = asked + 1
             /\ restAtMove' = rest'
             /\ ours' = TRUE
             /\ UNCHANGED failed
    <3>1. queue' \in Seq(Positions)
      BY <2>6, <2>8 DEF TypeOK
    <3>2. /\ asked' = 1 /\ mark' = CenteredPosition(seenLayout') /\ mark' \in Positions
          /\ restAtMove' \in 0 .. TimeCap /\ restAtMove' >= SettleTenths
      BY <1>9, <2>1, <2>2, <2>5, <2>6, <2>8 DEF RequestMove
    <3>3. AskedInv' /\ SettlingInv'
      BY <1>9, <2>2, <2>8 DEF RequestMove, See, SettlingInv, AskedInv
    <3>4. TypeOK'
      BY <1>9, <2>1, <2>8, <3>1, <3>2 DEF RequestMove, TypeOK, TimeCap, MoveTenths
    <3> QED
      BY <2>8, <3>2, <3>3, <3>4
  <2> QED
    BY <1>9, <2>7, <2>8 DEF RequestMove
<1>10. ASSUME NEW elapsed \in Elapsed, Confirm(elapsed) PROVE IInv'
  <2>1. lastSeen' \in Layouts \X Positions /\ rest' \in 0 .. TimeCap
    BY <1>10, SeeType DEF Confirm
  <2> QED
    BY <1>10, <2>1 DEF Confirm, windowVars, TypeOK, SettlingInv, AskedInv
<1>11. ASSUME NEW elapsed \in Elapsed, GiveUp(elapsed) PROVE IInv'
  <2>1. lastSeen' \in Layouts \X Positions /\ rest' \in 0 .. TimeCap
    BY <1>11, SeeType DEF GiveUp
  <2> QED
    BY <1>11, <2>1 DEF GiveUp, InPhase, windowVars, TypeOK, SettlingInv, AskedInv
<1>12. ASSUME NEW elapsed \in Elapsed, LeaveAlone(elapsed) PROVE IInv'
  <2>1. lastSeen' \in Layouts \X Positions /\ rest' \in 0 .. TimeCap
    BY <1>12, SeeType DEF LeaveAlone
  <2> QED
    BY <1>12, <2>1 DEF LeaveAlone, InPhase, placementVars, windowVars, TypeOK, SettlingInv, AskedInv
<1>13. CASE ApplyMove
  <2>1. Head(queue) \in Positions /\ Tail(queue) \in Seq(Positions)
    BY <1>13 DEF ApplyMove, TypeOK
  <2> QED
    BY <1>13, <2>1 DEF ApplyMove, placementVars, historyVars, moveHistory, TypeOK, SettlingInv, AskedInv
<1>14. CASE RefuseMove
  <2>1. Tail(queue) \in Seq(Positions)
    BY <1>14 DEF RefuseMove, TypeOK
  <2> QED
    BY <1>14, <2>1 DEF RefuseMove, placementVars, historyVars, moveHistory, TypeOK, SettlingInv, AskedInv
<1>15. CASE Disturb
  <2>1. /\ position' \in Positions /\ layout' \in Layouts
        /\ kind' \in {"windowed", "hidden", "excluded"}
    BY <1>15 DEF Disturb, Positions, TypeOK
  <2>2. disturbances' \in 0 .. MaxDisturbances
    BY <1>15, TimeAssumption DEF Disturb, TypeOK
  <2>3. asked' \in 0 .. 2 /\ asked' <= 1
    BY <1>15 DEF Disturb, TypeOK
  <2>4. AskedInv'
    BY <1>15 DEF Disturb, placementVars, AskedInv
  <2>5. SettlingInv'
    BY <1>15 DEF Disturb, placementVars, SettlingInv
  <2>6. TypeOK'
    BY <1>15, <2>1, <2>2, <2>3 DEF Disturb, placementVars, TypeOK
  <2> QED
    BY <1>15, <2>3, <2>4, <2>5, <2>6 DEF Disturb
<1> QED
  BY <1>1, <1>2, <1>3, <1>4, <1>5, <1>6, <1>7, <1>8, <1>9, <1>10, <1>11, <1>12, <1>13,
     <1>14, <1>15 DEF Next, Present, Check

\* The last element is left by the first.
LEMMA LandingOfTail ==
  ASSUME NEW S, NEW q \in Seq(S), q # <<>>
  PROVE  /\ Len(q) > 1 => Tail(q) # <<>> /\ Tail(q)[Len(Tail(q))] = q[Len(q)]
         /\ ~(Len(q) > 1) => Tail(q) = <<>> /\ Head(q) = q[Len(q)]
<1>1. Len(q) \in Nat /\ Len(q) # 0 /\ Tail(q) \in Seq(S) /\ Len(Tail(q)) = Len(q) - 1
  OBVIOUS
<1>2. CASE Len(q) > 1
  <2>1. \A i \in 1 .. Len(q) - 1 : Tail(q)[i] = q[i + 1]
    BY <1>1
  <2>2. Len(q) - 1 \in 1 .. Len(q) - 1
    BY <1>1, <1>2
  <2>3. Tail(q)[Len(q) - 1] = q[Len(q)]
    BY <1>1, <2>1, <2>2
  <2> QED
    BY <1>1, <1>2, <2>3
<1>3. CASE ~(Len(q) > 1)
  BY <1>1, <1>3
<1> QED
  BY <1>2, <1>3

\* Where the window lands is changed by a move that is asked for, a last one
\* that is refused, and the player.
LEMMA LandingNext == TypeOK /\ LandingInv /\ [Next]_vars => LandingInv'
<1> SUFFICES ASSUME TypeOK, LandingInv, [Next]_vars PROVE LandingInv'
  OBVIOUS
<1>1. CASE UNCHANGED <<queue, layout, position, ours>>
  BY <1>1 DEF LandingInv, Landing, CenteredPosition
<1>2. CASE queue' = Append(queue, CenteredPosition(layout)) /\ UNCHANGED layout
  <2>1. queue' # <<>> /\ queue'[Len(queue')] = CenteredPosition(layout)
    BY <1>2 DEF TypeOK
  <2> QED
    BY <1>2, <2>1 DEF LandingInv, Landing, CenteredPosition
<1>3. CASE ApplyMove
  <2>1. Landing' = Landing
    BY <1>3, LandingOfTail DEF ApplyMove, Landing, TypeOK
  <2> QED
    BY <1>3, <2>1 DEF ApplyMove, historyVars, moveHistory, LandingInv, CenteredPosition
<1>4. CASE RefuseMove
  <2>1. CASE Len(queue) > 1
    <3>1. queue' # <<>> /\ queue'[Len(queue')] = queue[Len(queue)] /\ queue # <<>>
      BY <1>4, <2>1, LandingOfTail DEF RefuseMove, TypeOK
    <3> QED
      BY <1>4, <3>1 DEF RefuseMove, Landing, LandingInv, CenteredPosition
  <2> QED
    BY <1>4, <2>1 DEF RefuseMove, LandingInv
<1>5. CASE Disturb
  BY <1>5 DEF Disturb, LandingInv
<1>6. \A elapsed \in Elapsed :
        Check(elapsed) => \/ UNCHANGED <<queue, layout, position, ours>>
                          \/ queue' = Append(queue, CenteredPosition(layout)) /\ UNCHANGED layout
  BY DEF Check, SeeHidden, StartSettling, RestartWait, KeepWaiting, RequestMove, Confirm,
         GiveUp, LeaveAlone, windowVars, moveHistory
<1> QED
  BY <1>1, <1>2, <1>3, <1>4, <1>5, <1>6
  DEF Next, Present, CheckFails, Skip, SeeExcluded, vars, windowVars, historyVars, moveHistory

-----------------------------------------------------------------------------

\* The invariant of centring: the wait for rest is never longer than the rest,
\* a placement that has asked for its move does not wait again, and a window
\* that is the mod's lands in the middle of the work area it has
\* (window.rs 105-147).
THEOREM Inductive == Spec => [](IInv /\ LandingInv)
<1>1. IInv /\ LandingInv /\ [Next]_vars => (IInv /\ LandingInv)'
  BY NextInv, LandingNext DEF IInv
<1> QED
  BY InitInv, <1>1, PTL DEF Spec

\* The placement and the window keep their types.
THEOREM TypeCorrect == Spec => []TypeOK
BY Inductive, PTL DEF IInv

\* No window is moved before it has rested for half a second, however the
\* checks fall and the player drags (window.rs 106-116).
THEOREM MovesOnlyAtRest == Spec => []MovedOnlyAtRest
BY Inductive, PTL DEF IInv

\* Between two changes of the layout or of how the window is shown the mod asks
\* for one move at most, for all layouts and gaps between the checks and however
\* often the player drags the window (window.rs 92-103, 129-146).
THEOREM MovesOncePerLayout == Spec => []OneMovePerLayout
BY Inductive, PTL DEF IInv

\* A window the mod has placed comes to rest within reach in the layout it has,
\* for all layouts and work areas, any number of moves still queued for others
\* and any order of checks and moves (window.rs 42-48, 117-129).
THEOREM TitleBarStaysReachable == Spec => []TitleBarReachable
<1>1. IInv /\ LandingInv => TitleBarReachable
  BY CenteredInReach DEF IInv, TypeOK, LandingInv, TitleBarReachable
<1> QED
  BY Inductive, <1>1, PTL

-----------------------------------------------------------------------------
(* Every step of an undisturbed window advances                            *)

\* What decides the order of two amounts left: the first part that differs.
LEMMA LessBy ==
  ASSUME NEW a, NEW b, NEW c, NEW d, NEW e, NEW f, NEW g, NEW h,
         \/ a < e
         \/ a = e /\ b < f
         \/ a = e /\ b = f /\ c < g
         \/ a = e /\ b = f /\ c = g /\ d < h
  PROVE  Less(<<a, b, c, d>>, <<e, f, g, h>>)
<1> DEFINE x == <<a, b, c, d>>
           y == <<e, f, g, h>>
<1>1. /\ x[1] = a /\ x[2] = b /\ x[3] = c /\ x[4] = d
      /\ y[1] = e /\ y[2] = f /\ y[3] = g /\ y[4] = h
  OBVIOUS
<1> HIDE DEF x, y
<1>2. CASE a < e
  <2>1. x[1] < y[1] /\ \A j \in 1 .. 1 - 1 : x[j] = y[j]
    BY <1>1, <1>2
  <2> QED
    BY <2>1 DEF Less, x, y
<1>3. CASE a = e /\ b < f
  <2>1. x[2] < y[2] /\ \A j \in 1 .. 2 - 1 : x[j] = y[j]
    BY <1>1, <1>3
  <2> QED
    BY <2>1 DEF Less, x, y
<1>4. CASE a = e /\ b = f /\ c < g
  <2>1. x[3] < y[3] /\ \A j \in 1 .. 3 - 1 : x[j] = y[j]
    BY <1>1, <1>4
  <2> QED
    BY <2>1 DEF Less, x, y
<1>5. CASE a = e /\ b = f /\ c = g /\ d < h
  <2>1. x[4] < y[4] /\ \A j \in 1 .. 4 - 1 : x[j] = y[j]
    BY <1>1, <1>5
  <2> QED
    BY <2>1 DEF Less, x, y
<1> QED
  BY <1>2, <1>3, <1>4, <1>5

\* The parts of what is left, by name.
Stage == IF phase = "none" \/ seenLayout # layout THEN 2 ELSE IF phase = "settling" THEN 1 ELSE 0
Dragged == IF Stage = 1 /\ position # mark THEN 1 ELSE 0
TenthsLeft == Positive((IF Stage = 1 THEN SettleTenths ELSE TimeCap) - since)

LEMMA LeftByPart == LeftToDo = <<Stage, Len(queue), Dragged, TenthsLeft>>
BY DEF LeftToDo, Stage, Dragged, TenthsLeft

LEMMA AdvanceBy ==
  ASSUME \/ Stage' < Stage
         \/ Stage' = Stage /\ Len(queue)' < Len(queue)
         \/ Stage' = Stage /\ queue' = queue /\ Dragged' < Dragged
         \/ Stage' = Stage /\ queue' = queue /\ Dragged' = Dragged /\ TenthsLeft' < TenthsLeft
  PROVE  Less(LeftToDo', LeftToDo)
<1>1. LeftToDo' = <<Stage', Len(queue'), Dragged', TenthsLeft'>>
  BY DEF LeftToDo, Stage, Dragged, TenthsLeft
<1>2. Less(<<Stage', Len(queue'), Dragged', TenthsLeft'>>,
           <<Stage, Len(queue), Dragged, TenthsLeft>>)
  BY LessBy
<1> QED
  BY <1>1, <1>2, LeftByPart

\* A move that leaves the queue, applied or not.
LEMMA MoveAdvances ==
  ASSUME TypeOK, ApplyMove \/ RefuseMove
  PROVE  Less(LeftToDo', LeftToDo)
<1>1. Len(queue') < Len(queue)
  BY DEF ApplyMove, RefuseMove, TypeOK
<1>2. Stage' = Stage
  BY DEF ApplyMove, RefuseMove, placementVars, Stage
<1> QED
  BY <1>1, <1>2, AdvanceBy

\* A check that sees a window still to be placed.
LEMMA CheckAdvances ==
  ASSUME IInv, NEW elapsed \in Elapsed, Check(elapsed), ~Placed
  PROVE  Placed' \/ Less(LeftToDo', LeftToDo)
<1> USE DEF Stage
<1>0. /\ ~failed /\ kind = "windowed" /\ ~InPhase("done")
      /\ elapsed \in Nat /\ elapsed > 0 /\ since \in Nat /\ since <= TimeCap
  BY TimeAssumption DEF Placed, IInv, TypeOK
<1>1. CASE SeeHidden(elapsed) \/ LeaveAlone(elapsed)
  BY <1>0, <1>1 DEF SeeHidden, LeaveAlone
<1>2. CASE StartSettling(elapsed)
  <2>1. Stage = 2 /\ Stage' = 1
    BY <1>2 DEF StartSettling, windowVars
  <2> QED
    BY <2>1, AdvanceBy
<1>3. CASE RestartWait(elapsed)
  <2>1. Stage = 1 /\ Stage' = 1 /\ queue' = queue
    BY <1>3 DEF RestartWait, InPhase, windowVars
  <2>2. Dragged = 1 /\ Dragged' = 0
    BY <1>3, <2>1 DEF RestartWait, windowVars, Dragged
  <2> QED
    BY <2>1, <2>2, AdvanceBy
<1>4. CASE KeepWaiting(elapsed)
  <2>1. Stage \in {0, 1} /\ Stage' = Stage /\ queue' = queue /\ Dragged' = Dragged
    BY <1>4 DEF KeepWaiting, InPhase, windowVars, Dragged
  <2>2. since' = since + elapsed
    BY <1>4 DEF KeepWaiting
  <2>3. IF Stage = 1 THEN since + elapsed < SettleTenths ELSE since + elapsed <= MoveTenths
    BY <1>4 DEF KeepWaiting, InPhase
  <2>4. TenthsLeft' < TenthsLeft
    BY <1>0, <2>1, <2>2, <2>3
    DEF TenthsLeft, Positive, SettleTenths, TimeCap, MoveTenths
  <2> QED
    BY <2>1, <2>4, AdvanceBy
<1>5. CASE RequestMove(elapsed)
  <2>1. Stage = 1 /\ (failed' \/ Stage' = 0)
    BY <1>5 DEF RequestMove, InPhase
  <2> QED
    BY <2>1, AdvanceBy DEF Placed
<1>6. CASE Confirm(elapsed)
  BY <1>6 DEF Confirm, InPhase, windowVars, Placed
<1>7. CASE GiveUp(elapsed)
  BY <1>7 DEF GiveUp, Placed
<1> QED
  BY <1>1, <1>2, <1>3, <1>4, <1>5, <1>6, <1>7 DEF Check

\* No check and no late move of a window the player leaves alone is in vain, for
\* all layouts, places and gaps between checks: what is left to do goes down in an
\* order in which it cannot go down for ever, so a placement that goes on ends in
\* place or given up (window.rs 105-147).
THEOREM PlacementAlwaysAdvances == Spec => EachStepAdvances
<1>1. ASSUME IInv, [Next]_vars
      PROVE  [~Placed /\ disturbances' = disturbances =>
                Placed' \/ Less(LeftToDo', LeftToDo)]_vars
  <2> SUFFICES ASSUME Next, ~Placed, disturbances' = disturbances
               PROVE  Placed' \/ Less(LeftToDo', LeftToDo) \/ UNCHANGED vars
    BY <1>1
  <2>1. CASE CheckFails
    BY <2>1 DEF CheckFails, Placed
  <2>2. CASE Skip \/ SeeExcluded
    BY <2>2 DEF Skip, SeeExcluded, Placed
  <2>3. CASE \E elapsed \in Elapsed : Check(elapsed)
    BY <1>1, <2>3, CheckAdvances
  <2>4. CASE ApplyMove \/ RefuseMove
    BY <1>1, <2>4, MoveAdvances DEF IInv
  <2>5. CASE Disturb
    BY <1>1, <2>5 DEF Disturb, IInv, TypeOK
  <2> QED
    BY <2>1, <2>2, <2>3, <2>4, <2>5 DEF Next, Present
<1> QED
  BY <1>1, Inductive, PTL DEF Spec, EachStepAdvances

=============================================================================
