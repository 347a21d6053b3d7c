--------------------------- MODULE WindowPlacement ---------------------------
(***************************************************************************)
(* Centring the game's window, one check at a time from the Present hook   *)
(* (src/src/window.rs center, src/src/d3d/hud.rs hooked_present).          *)
(*                                                                         *)
(* A window that has been seen at rest for 500 ms is moved to the middle   *)
(* of the work area, once per layout.  The move is queued to the window's  *)
(* own thread: a later check sees it applied, or gives up centring for the *)
(* session after 2 s.  Meanwhile the player drags the window, changes the  *)
(* resolution, minimises it or goes full screen, and queued moves come     *)
(* late.  Checks are 100 ms apart, or more when the game stalls; time is   *)
(* counted in tenths of a second.                                          *)
(*                                                                         *)
(* The window stays on one monitor, whose work area may change with the    *)
(* desktop's resolution or its taskbar.                                    *)
(***************************************************************************)
EXTENDS Integers, Sequences

CONSTANTS
  Layouts,          \* what a window may look like: size and work area
  Places,           \* where the player may put it
  Elapsed,          \* tenths of a second between two checks
  MaxDisturbances   \* bound: how often the player interferes

Rects == [left : Int, top : Int, right : Int, bottom : Int]

ASSUME LayoutsAssumption ==
  /\ Layouts \subseteq [width : Nat, height : Nat, work : Rects]
  /\ \A l \in Layouts : l.work.left <= l.work.right /\ l.work.top <= l.work.bottom
ASSUME PlacesAssumption == Places \subseteq Int \X Int
ASSUME TimeAssumption == Elapsed \subseteq Nat \ {0} /\ MaxDisturbances \in Nat

SettleTenths == 5
MoveTenths == 20
TimeCap == MoveTenths + 1   \* bound: clocks saturate once both waits are over

Capped(n) == IF n > TimeCap THEN TimeCap ELSE n

Positive(n) == IF n > 0 THEN n ELSE 0

\* centered_position; where Rust's division rounds otherwise, max(0) follows.
CenteredPosition(l) ==
  <<l.work.left + Positive((l.work.right - l.work.left - l.width) \div 2),
    l.work.top + Positive((l.work.bottom - l.work.top - l.height) \div 2)>>

VARIABLES
  \* PLACEMENT and CENTERING_FAILED
  phase,         \* "none", "settling", "moving" or "done"
  seenLayout,    \* the placement's layout
  mark,          \* settling: where it was seen; moving: where it is to go
  since,         \* tenths since the phase, or the mark of settling, began
  failed,        \* centring is given up
  \* the window
  kind,          \* "windowed", "hidden", or "excluded" from centring
  layout,
  position,
  queue,         \* moves its thread has not come to yet
  \* history
  disturbances,
  lastSeen,      \* layout and position at the last check that saw the window
  rest,          \* tenths since the first check of the unbroken run that saw them
  restAtMove,    \* rest as the latest move was asked for
  asked,         \* moves asked for since the layout, or how it is shown, changed
  ours           \* the window is where the mod has sent it, or on the way there

placementVars == <<phase, seenLayout, mark, since, failed>>
windowVars == <<kind, layout, position, queue>>
moveHistory == <<restAtMove, asked, ours>>
historyVars == <<disturbances, lastSeen, rest, moveHistory>>
vars == <<placementVars, windowVars, historyVars>>

Positions == Places \cup {CenteredPosition(l) : l \in Layouts}

TypeOK ==
  /\ phase \in {"none", "settling", "moving", "done"}
  /\ seenLayout \in Layouts
  /\ mark \in Positions
  /\ since \in 0 .. TimeCap
  /\ failed \in BOOLEAN
  /\ kind \in {"windowed", "hidden", "excluded"}
  /\ layout \in Layouts
  /\ position \in Positions
  /\ queue \in Seq(Positions)
  /\ disturbances \in 0 .. MaxDisturbances
  /\ lastSeen \in Layouts \X Positions
  /\ rest \in 0 .. TimeCap
  /\ restAtMove \in 0 .. TimeCap
  /\ asked \in 0 .. 2
  /\ ours \in BOOLEAN
  /\ phase = "moving" => mark = CenteredPosition(seenLayout)

Init ==
  /\ phase = "none"
  /\ layout \in Layouts
  /\ position \in Places
  /\ seenLayout = layout
  /\ mark = position
  /\ since = 0
  /\ failed = FALSE
  /\ kind \in {"windowed", "hidden", "excluded"}
  /\ queue = <<>>
  /\ disturbances = 0
  /\ lastSeen = <<layout, position>>
  /\ rest = 0
  /\ restAtMove = TimeCap
  /\ asked = 0
  /\ ours = FALSE

-----------------------------------------------------------------------------
(* One check                                                               *)

\* The check sees the window, after some time.
See(elapsed) ==
  /\ ~failed
  /\ kind = "windowed"
  /\ lastSeen' = <<layout, position>>
  /\ rest' = IF lastSeen = <<layout, position>> /\ phase # "none"
               THEN Capped(rest + elapsed) ELSE 0

\* A query of the swap chain, the window or the monitor fails.
CheckFails ==
  /\ ~failed
  /\ failed' = TRUE
  /\ UNCHANGED <<phase, seenLayout, mark, since, windowVars, historyVars>>

\* hooked_present once centring has been given up.
Skip == failed /\ UNCHANGED vars

\* Full screen, minimised, maximised, or borderless over the whole monitor.
SeeExcluded ==
  /\ ~failed
  /\ kind = "excluded"
  /\ phase' = "none"
  /\ UNCHANGED <<seenLayout, mark, since, failed, windowVars, historyVars>>

\* Nothing but the clock goes on while the window is not visible.
SeeHidden(elapsed) ==
  /\ ~failed
  /\ kind = "hidden"
  /\ since' = Capped(since + elapsed)
  /\ rest' = Capped(rest + elapsed)
  /\ UNCHANGED <<phase, seenLayout, mark, failed, windowVars, disturbances, lastSeen,
                 moveHistory>>

\* The first check of a layout.
StartSettling(elapsed) ==
  /\ See(elapsed)
  /\ phase = "none" \/ seenLayout # layout
  /\ phase' = "settling"
  /\ seenLayout' = layout
  /\ mark' = position
  /\ since' = 0
  /\ UNCHANGED <<failed, windowVars, disturbances, moveHistory>>

InPhase(p) == phase = p /\ seenLayout = layout

\* Mutant: a dragged window does not start the wait over.
RestartWaitKeepsClock(elapsed) ==
  /\ See(elapsed)
  /\ InPhase("settling")
  /\ position # mark
  /\ since + elapsed < SettleTenths
  /\ mark' = position
  /\ since' = Capped(since + elapsed)
  /\ UNCHANGED <<phase, seenLayout, failed, windowVars, disturbances, moveHistory>>

\* The window has been dragged while settling.
RestartWait(elapsed) ==
  /\ See(elapsed)
  /\ InPhase("settling")
  /\ position # mark
  /\ mark' = position
  /\ since' = 0
  /\ UNCHANGED <<phase, seenLayout, failed, windowVars, disturbances, moveHistory>>

\* Mutant: every check dates the phase anew.
KeepWaitingFromNow(elapsed) ==
  /\ See(elapsed)
  /\ \/ InPhase("settling") /\ position = mark /\ since + elapsed < SettleTenths
     \/ InPhase("moving") /\ position # mark /\ since + elapsed <= MoveTenths
  /\ since' = elapsed
  /\ UNCHANGED <<phase, seenLayout, mark, failed, windowVars, disturbances, moveHistory>>

\* Neither the wait for rest nor the wait for the move is over.
KeepWaiting(elapsed) ==
  /\ See(elapsed)
  /\ \/ InPhase("settling") /\ position = mark /\ since + elapsed < SettleTenths
     \/ InPhase("moving") /\ position # mark /\ since + elapsed <= MoveTenths
  /\ since' = since + elapsed
  /\ UNCHANGED <<phase, seenLayout, mark, failed, windowVars, disturbances, moveHistory>>

\* Mutant: a window that stands in its place is not sent there.
RequestMoveUnlessThere(elapsed) ==
  /\ See(elapsed)
  /\ InPhase("settling")
  /\ position = mark
  /\ since + elapsed >= SettleTenths
  /\ ours' = TRUE
  /\ IF position = CenteredPosition(layout)
       THEN phase' = "done" /\ UNCHANGED <<mark, since, queue, asked, restAtMove>>
       ELSE /\ phase' = "moving"
            /\ mark' = CenteredPosition(layout)
            /\ since' = 0
            /\ queue' = Append(queue, CenteredPosition(layout))
            /\ asked' = asked + 1
            /\ restAtMove' = rest'
  /\ UNCHANGED <<failed, seenLayout, kind, layout, position, disturbances>>

\* The window has rested for long enough: SetWindowPos queues the move or fails.
RequestMove(elapsed) ==
  /\ See(elapsed)
  /\ InPhase("settling")
  /\ position = mark
  /\ since + elapsed >= SettleTenths
  /\ \/ /\ phase' = "moving"
        /\ mark' = CenteredPosition(layout)
        /\ since' = 0
        /\ queue' = Append(queue, CenteredPosition(layout))
        /\ asked' = asked + 1
        /\ restAtMove' = rest'
        /\ ours' = TRUE
        /\ UNCHANGED failed
     \/ /\ failed' = TRUE
        /\ UNCHANGED <<phase, mark, since, queue, moveHistory>>
  /\ UNCHANGED <<seenLayout, kind, layout, position, disturbances>>

Confirm(elapsed) ==
  /\ See(elapsed)
  /\ InPhase("moving")
  /\ position = mark
  /\ phase' = "done"
  /\ UNCHANGED <<seenLayout, mark, since, failed, windowVars, disturbances, moveHistory>>

\* Mutant: a move that was not applied is asked for again.
GiveUpRetries(elapsed) ==
  /\ See(elapsed)
  /\ InPhase("moving")
  /\ position # mark
  /\ since + elapsed > MoveTenths
  /\ asked < 2
  /\ phase' = "settling"
  /\ mark' = position
  /\ since' = 0
  /\ UNCHANGED <<seenLayout, failed, windowVars, disturbances, moveHistory>>

\* Mutant: a move that was not applied in time is waited for again.
GiveUpWaits(elapsed) ==
  /\ See(elapsed)
  /\ InPhase("moving")
  /\ position # mark
  /\ since + elapsed > MoveTenths
  /\ since' = 0
  /\ UNCHANGED <<phase, seenLayout, mark, failed, windowVars, disturbances, moveHistory>>

\* The move was not applied in time.
GiveUp(elapsed) ==
  /\ See(elapsed)
  /\ InPhase("moving")
  /\ position # mark
  /\ since + elapsed > MoveTenths
  /\ failed' = TRUE
  /\ UNCHANGED <<phase, seenLayout, mark, since, windowVars, disturbances, moveHistory>>

LeaveAlone(elapsed) ==
  /\ See(elapsed)
  /\ InPhase("done")
  /\ UNCHANGED <<placementVars, windowVars, disturbances, moveHistory>>

-----------------------------------------------------------------------------
(* The window's thread and the player                                      *)

ApplyMove ==
  /\ queue # <<>>
  /\ position' = Head(queue)
  /\ queue' = Tail(queue)
  /\ UNCHANGED <<placementVars, kind, layout, historyVars>>

\* The window's own code refuses the move.
RefuseMove ==
  /\ queue # <<>>
  /\ queue' = Tail(queue)
  /\ ours' = (ours /\ Len(queue) > 1)
  /\ UNCHANGED <<placementVars, kind, layout, position, disturbances, lastSeen, rest,
                 restAtMove, asked>>

\* The player drags the window, changes its layout, or shows or hides it.
Disturb ==
  /\ disturbances < MaxDisturbances
  /\ disturbances' = disturbances + 1
  /\ ours' = FALSE
  /\ \/ position' \in Places /\ UNCHANGED <<kind, layout, asked>>
     \/ layout' \in Layouts /\ position' \in Places /\ asked' = 0 /\ UNCHANGED kind
     \/ /\ kind' \in {"windowed", "hidden", "excluded"}
        /\ asked' = 0
        /\ UNCHANGED <<layout, position>>
  /\ UNCHANGED <<placementVars, queue, lastSeen, rest, restAtMove>>

-----------------------------------------------------------------------------

Check(elapsed) ==
  \/ SeeHidden(elapsed) \/ StartSettling(elapsed) \/ RestartWait(elapsed)
  \/ KeepWaiting(elapsed) \/ RequestMove(elapsed) \/ Confirm(elapsed)
  \/ GiveUp(elapsed) \/ LeaveAlone(elapsed)

Present == CheckFails \/ Skip \/ SeeExcluded \/ (\E elapsed \in Elapsed : Check(elapsed))

Next == Present \/ ApplyMove \/ RefuseMove \/ Disturb

Spec == Init /\ [][Next]_vars

\* The game goes on presenting frames.  The window's thread owes nothing.
FairSpec == Spec /\ WF_vars(Present)

-----------------------------------------------------------------------------
(* Properties                                                              *)

\* A window is moved only after half a second in which every check that saw it
\* saw the same layout and place (window.rs 106-116).
MovedOnlyAtRest == restAtMove >= SettleTenths

\* The mod never fights the player: until he changes the window's layout or how
\* it is shown it asks for one move, however he drags the window, whatever the
\* checks saw in between and whether or not the move was applied
\* (window.rs 92-103, 129-146; hud.rs 170-178).
OneMovePerLayout == asked <= 1

\* Where the window comes to rest once its thread has come to all moves.
Landing == IF queue = <<>> THEN position ELSE queue[Len(queue)]

\* The title bar of a window of that layout can be reached: it is not above or
\* left of the work area, and inside it if it fits.
InReach(l, place) ==
  /\ place[1] >= l.work.left /\ place[2] >= l.work.top
  /\ l.width <= l.work.right - l.work.left => place[1] + l.width <= l.work.right
  /\ l.height <= l.work.bottom - l.work.top => place[2] + l.height <= l.work.bottom

\* A window that the mod has placed comes to rest where its title bar can be
\* reached in the layout it then has, however late its moves are applied and
\* whichever moves for earlier layouts and work areas come before
\* (window.rs 42-48, 117-129).
TitleBarReachable == ours => InReach(layout, Landing)

\* A window the player leaves alone is confirmed in place or given up; centring
\* does not stay halfway (window.rs 105-147).
PlacedOrGivenUp == <>[](failed \/ kind # "windowed" \/ phase = "done")

Placed == failed \/ kind # "windowed" \/ InPhase("done")

\* What is left to do until then, in order of weight: the phases to go through,
\* the moves still queued, a wait to start over, and the tenths to wait.
LeftToDo ==
  LET stage == IF phase = "none" \/ seenLayout # layout THEN 2
               ELSE IF phase = "settling" THEN 1 ELSE 0
  IN  <<stage,
        Len(queue),
        IF stage = 1 /\ position # mark THEN 1 ELSE 0,
        Positive((IF stage = 1 THEN SettleTenths ELSE TimeCap) - since)>>

\* The order of words.
Less(a, b) == \E i \in 1 .. 4 : a[i] < b[i] /\ \A j \in 1 .. i - 1 : a[j] = b[j]

\* No check and no late move of a window the player leaves alone is in vain: each
\* leaves less to do than there was, whichever gaps the checks come at and however
\* many moves are still queued, so centring cannot go round in circles
\* (window.rs 105-147).
EachStepAdvances ==
  [][~Placed /\ disturbances' = disturbances => Placed' \/ Less(LeftToDo', LeftToDo)]_vars

=============================================================================
