-------------------------- MODULE CameraFrameProofs --------------------------
(***************************************************************************)
(* The views and the toggle, for any number of player controllers.         *)
(*                                                                         *)
(* The invariant says, for every place a view can be at, what the checks   *)
(* passed on the way there have left in the statics.                       *)
(***************************************************************************)
EXTENDS CameraFrame, TLAPS

\* A view past the gate, and one past the lean clamp's reset.
PastGate == {"clock", "measure", "feed", "pose"}
PastReset == PastGate \cup {"gate"}

\* The statics describe the view under way.
ViewInv ==
  /\ gpc # "idle" => view.actor = lastActor /\ view.paused = lastPaused
  /\ gpc \in PastGate => ~view.paused

\* A contact is kept from view to view of one actor, and cut short otherwise.
LeanInv ==
  /\ (gpc \in PastReset \/ gpc = "idle") => (lean # None => lean = lastActor)
  /\ (gpc = "lean" /\ lean # None) => (lean = view.actor \/ view.changedActor)
  /\ offView => ~enabled
  /\ (offView /\ gpc = "gate") => lean = None
  /\ leanGap => lean = None \/ (gpc = "lean" /\ (~view.pawn \/ view.paused))

\* A pause is known from LAST_PAUSED until the pipeline has been reset.
PauseInv ==
  /\ pausedSince => lastPaused
  /\ gpc = "measure" => "pause" \notin now
  /\ "pause" \notin measured

\* The overlays are those of the view, once it is past the gate.
OverlayInv ==
  /\ gpc = "idle" => /\ cleanScene = None <=> reticle = "inactive"
                     /\ cleanScene # None => cleanScene = lastActor /\ ~lastPaused
  /\ gpc \in PastGate => cleanScene = lastActor

IInv == TypeOK /\ ViewInv /\ LeanInv /\ PauseInv /\ OverlayInv /\ FreshAfterToggle

LEMMA InitInv == Init => IInv
BY DEF Init, IInv, TypeOK, ViewInv, LeanInv, PauseInv, OverlayInv, FreshAfterToggle, PastGate,
       PastReset

LEMMA NextInv == IInv /\ [Next]_vars => IInv'
<1> SUFFICES ASSUME IInv, [Next]_vars PROVE IInv'
  OBVIOUS
<1> USE DEF IInv, historyVars, leanHistory
<1>1. CASE ToggleFlag
  <2>1. TypeOK'
    BY <1>1 DEF ToggleFlag, TypeOK, viewVars, outputVars, pipelineVars
  <2>2. ViewInv' /\ LeanInv' /\ PauseInv' /\ OverlayInv' /\ FreshAfterToggle'
    BY <1>1
    DEF ToggleFlag, viewVars, outputVars, pipelineVars, ViewInv, LeanInv, PauseInv,
        OverlayInv, FreshAfterToggle
  <2> QED
    BY <2>1, <2>2
<1>2. CASE ToggleReset
  <2>1. TypeOK'
    BY <1>2 DEF ToggleReset, TypeOK, viewVars, outputVars
  <2>2. ViewInv' /\ LeanInv' /\ PauseInv' /\ OverlayInv' /\ FreshAfterToggle'
    BY <1>2
    DEF ToggleReset, viewVars, outputVars, ViewInv, LeanInv, PauseInv, OverlayInv,
        FreshAfterToggle
  <2> QED
    BY <2>1, <2>2
<1>3. ASSUME NEW a \in Actors, NEW pawn \in BOOLEAN, NEW paused \in BOOLEAN,
             BeginView(a, pawn, paused)
      PROVE  IInv'
  <2>1. view'.actor = a /\ view'.pawn = pawn /\ view'.paused = paused
        /\ view'.changedActor = (lastActor # a)
    BY <1>3 DEF BeginView
  <2>2. view' \in Views
    BY <1>3 DEF BeginView, Views
  <2>3. TypeOK'
    BY <1>3, <2>2 DEF BeginView, TypeOK, hotkeyVars, outputVars, pipelineVars
  <2>4. ViewInv'
    BY <1>3, <2>1 DEF BeginView, ViewInv, PastGate
  <2>5. LeanInv'
    <3>1. /\ lean' = lean /\ enabled' = enabled /\ gpc = "idle" /\ gpc' = "lean"
          /\ lastActor' = a
      BY <1>3 DEF BeginView, outputVars, hotkeyVars
    <3>2. lean # None => lean = lastActor
      BY <3>1 DEF LeanInv
    <3>3. offView' => ~enabled
      BY <1>3, Zenon DEF BeginView
    <3>4. leanGap' => leanGap \/ view'.paused \/ ~view'.pawn
      BY <1>3, <2>1, Zenon DEF BeginView
    <3>5. leanGap => lean = None
      BY <3>1 DEF LeanInv
    <3> QED
      BY <2>1, <3>1, <3>2, <3>3, <3>4, <3>5 DEF LeanInv, PastGate, PastReset
  <2>6. PauseInv' /\ OverlayInv' /\ FreshAfterToggle'
    BY <1>3
    DEF BeginView, TypeOK, hotkeyVars, outputVars, pipelineVars, PauseInv, OverlayInv,
        FreshAfterToggle, PastGate
  <2> QED
    BY <2>3, <2>4, <2>5, <2>6
<1>4. CASE ResetLean
  <2>1. TypeOK'
    BY <1>4 DEF ResetLean, TypeOK, hotkeyVars, viewVars, pipelineVars
  <2>2. ViewInv' /\ LeanInv'
    BY <1>4
    DEF ResetLean, MustResetLean, hotkeyVars, viewVars, ViewInv, LeanInv, PastGate, PastReset
  <2>3. PauseInv' /\ OverlayInv' /\ FreshAfterToggle'
    BY <1>4
    DEF ResetLean, hotkeyVars, viewVars, pipelineVars, PauseInv, OverlayInv, FreshAfterToggle,
        PastGate
  <2> QED
    BY <2>1, <2>2, <2>3
<1>5. CASE Refuse
  <2>1. TypeOK'
    BY <1>5 DEF Refuse, TypeOK, hotkeyVars, viewVars, pipelineVars
  <2>2. ViewInv' /\ LeanInv' /\ PauseInv' /\ OverlayInv' /\ FreshAfterToggle'
    BY <1>5
    DEF Refuse, hotkeyVars, viewVars, pipelineVars, ViewInv, LeanInv, PauseInv,
        OverlayInv, FreshAfterToggle, PastGate, PastReset
  <2> QED
    BY <2>1, <2>2
<1>6. CASE Pass
  <2>1. view \in Views
    BY <1>6 DEF Pass, TypeOK
  <2>2. TypeOK'
    BY <1>6, <2>1 DEF Pass, TypeOK, Views, hotkeyVars, viewVars, pipelineVars
  <2>3. ViewInv' /\ LeanInv' /\ PauseInv' /\ OverlayInv' /\ FreshAfterToggle'
    BY <1>6
    DEF Pass, LeftAlone, hotkeyVars, viewVars, pipelineVars, ViewInv, LeanInv,
        PauseInv, OverlayInv, FreshAfterToggle, PastGate, PastReset
  <2> QED
    BY <2>2, <2>3
<1>7. CASE ReadClock
  <2>1. ~pausedSince
    BY <1>7 DEF ReadClock, ViewInv, PauseInv, PastGate
  <2>2. now' \subseteq {"off"}
    BY <1>7, <2>1 DEF ReadClock
  <2>3. TypeOK'
    BY <1>7, <2>2 DEF ReadClock, Off, TypeOK, hotkeyVars, viewVars, outputVars, pipelineVars
  <2>4. ViewInv' /\ LeanInv' /\ PauseInv' /\ OverlayInv' /\ FreshAfterToggle'
    BY <1>7, <2>2
    DEF ReadClock, hotkeyVars, viewVars, outputVars, pipelineVars, ViewInv, LeanInv, PauseInv,
        OverlayInv, FreshAfterToggle, PastGate, PastReset
  <2> QED
    BY <2>3, <2>4
<1>8. CASE Measure
  <2>1. TypeOK'
    BY <1>8 DEF Measure, TypeOK, hotkeyVars, viewVars, outputVars
  <2>2. ViewInv' /\ LeanInv' /\ PauseInv' /\ OverlayInv' /\ FreshAfterToggle'
    BY <1>8
    DEF Measure, hotkeyVars, viewVars, outputVars, ViewInv, LeanInv, PauseInv, OverlayInv,
        FreshAfterToggle, PastGate, PastReset
  <2> QED
    BY <2>1, <2>2
<1>9. CASE Feed
  <2>1. TypeOK'
    BY <1>9 DEF Feed, Off, TypeOK, hotkeyVars, viewVars, outputVars
  <2>2. ViewInv' /\ LeanInv' /\ PauseInv' /\ OverlayInv' /\ FreshAfterToggle'
    BY <1>9
    DEF Feed, Off, hotkeyVars, viewVars, outputVars, ViewInv, LeanInv, PauseInv, OverlayInv,
        FreshAfterToggle, PastGate, PastReset
  <2> QED
    BY <2>1, <2>2
<1>10. CASE ApplyPose
  <2>1. view \in Views /\ lastActor \in Actors
    BY <1>10 DEF ApplyPose, TypeOK, ViewInv, Views
  <2>2. TypeOK'
    BY <1>10, <2>1 DEF ApplyPose, TypeOK, Views, hotkeyVars, viewVars, pipelineVars
  <2>3. ViewInv' /\ LeanInv' /\ PauseInv' /\ OverlayInv' /\ FreshAfterToggle'
    BY <1>10, <2>1, ActorsAssumption
    DEF ApplyPose, hotkeyVars, viewVars, pipelineVars, ViewInv, LeanInv, PauseInv, OverlayInv,
        FreshAfterToggle, PastGate, PastReset
  <2> QED
    BY <2>2, <2>3
<1>11. CASE ViewAges
  <2>1. TypeOK'
    BY <1>11 DEF ViewAges, TypeOK, hotkeyVars, outputVars, pipelineVars
  <2>2. ViewInv' /\ LeanInv' /\ PauseInv' /\ OverlayInv' /\ FreshAfterToggle'
    BY <1>11
    DEF ViewAges, hotkeyVars, outputVars, pipelineVars, ViewInv, LeanInv, PauseInv,
        OverlayInv, FreshAfterToggle
  <2> QED
    BY <2>1, <2>2
<1>12. CASE UNCHANGED vars
  BY <1>12
  DEF vars, hotkeyVars, viewVars, outputVars, pipelineVars, TypeOK, ViewInv, LeanInv,
      PauseInv, OverlayInv, FreshAfterToggle
<1> QED
  BY <1>1, <1>2, <1>3, <1>4, <1>5, <1>6, <1>7, <1>8, <1>9, <1>10, <1>11, <1>12
  DEF Next, Toggle, BuildView

-----------------------------------------------------------------------------

\* The invariant of the views.
THEOREM Inductive == Spec => []IInv
BY InitInv, NextInv, PTL DEF Spec

\* The statics, the view under way and the history keep their types
\* (engine_hook.rs 204-230).
THEOREM TypeCorrect == Spec => []TypeOK
<1>1. IInv => TypeOK
  BY DEF IInv
<1> QED
  BY Inductive, <1>1, PTL

\* No frame time spans a paused view, for any sequence of controllers, pauses and
\* toggles (engine_hook.rs 506-511).
THEOREM NeverFrameTimeAcrossPause == Spec => []NoFrameTimeAcrossPause
<1>1. IInv => NoFrameTimeAcrossPause
  BY DEF IInv, PauseInv, NoFrameTimeAcrossPause
<1> QED
  BY Inductive, <1>1, PTL

\* A finished toggle leaves nothing in the pipeline from before tracking was off
\* (tracking.rs 158-166).
THEOREM AlwaysFreshAfterToggle == Spec => []FreshAfterToggle
<1>1. IInv => FreshAfterToggle
  BY DEF IInv
<1> QED
  BY Inductive, <1>1, PTL

\* No lean is clamped from the contact of another controller, nor from one that is
\* older than a view built paused, without a pawn or with tracking off from begin
\* to end, for any sequence of views and toggles (engine_hook.rs 522-529).
THEOREM LeanNeverCarried == Spec => []LeanNotCarried
<1>1. IInv => LeanNotCarried
  BY DEF IInv, ViewInv, LeanInv, PastGate, PastReset, LeanNotCarried
<1> QED
  BY Inductive, <1>1, PTL

\* Between views the clean matrices and the reticle are both those of the view
\* built last or both cleared, for any sequence of controllers, pauses and toggles
\* (engine_hook.rs 525-529, 536, 674).
THEOREM OverlaysAlwaysMatchView == Spec => []OverlaysMatchView
<1>1. IInv => OverlaysMatchView
  BY DEF IInv, OverlayInv, OverlaysMatchView, ReticleState
<1> QED
  BY Inductive, <1>1, PTL

-----------------------------------------------------------------------------
(* The views implement views built in one step                             *)

\* The gate is the one step of a view that changes what there is to see of it.
LEMMA AtomicStep ==
  ASSUME IInv, [Next]_vars
  PROVE  [Atomically!ViewsNext]_(Atomically!viewVars)
<1> DEFINE crosshair == gpc \in {"clock", "measure", "feed", "pose"} \/ reticle # "inactive"
<1> SUFFICES \/ Atomically!ViewsNext
             \/ enabled' = enabled /\ cleanScene' = cleanScene /\ (crosshair' <=> crosshair)
  BY Zenon DEF Atomically!viewVars
<1>1. CASE ToggleFlag
  <2>1. enabled' = ~enabled /\ gpc' = gpc /\ cleanScene' = cleanScene /\ reticle' = reticle
    BY <1>1 DEF ToggleFlag, outputVars
  <2> QED
    BY <2>1, Zenon DEF Atomically!ViewsNext, Atomically!Toggle
<1>2. CASE Refuse
  <2>1. /\ view.actor \in Actors /\ view.pawn \in BOOLEAN /\ view.paused \in BOOLEAN
        /\ ~(enabled /\ view.pawn /\ ~view.paused)
    BY <1>2 DEF Refuse, LeftAlone, IInv, TypeOK, Views
  <2>2. enabled' = enabled /\ cleanScene' = None /\ ~crosshair'
    BY <1>2 DEF Refuse, hotkeyVars
  <2>3. Atomically!View(view.actor, view.pawn, view.paused)
    BY <2>1, <2>2 DEF Atomically!View
  <2> QED
    BY <2>1, <2>3 DEF Atomically!ViewsNext
<1>3. CASE Pass
  <2>1. /\ view.actor \in Actors /\ view.pawn \in BOOLEAN /\ view.paused \in BOOLEAN
        /\ enabled /\ view.pawn /\ ~view.paused
    BY <1>3 DEF Pass, LeftAlone, IInv, TypeOK, Views
  <2>2. enabled' = enabled /\ cleanScene' = view.actor /\ crosshair'
    BY <1>3 DEF Pass, hotkeyVars
  <2>3. Atomically!View(view.actor, view.pawn, view.paused)
    BY <2>1, <2>2 DEF Atomically!View
  <2> QED
    BY <2>1, <2>3 DEF Atomically!ViewsNext
<1>4. CASE \E a \in Actors, pawn, paused \in BOOLEAN : BeginView(a, pawn, paused)
  BY <1>4 DEF BeginView, hotkeyVars, outputVars
<1>5. CASE ToggleReset \/ ResetLean \/ ViewAges
  BY <1>5 DEF ToggleReset, ResetLean, ViewAges, hotkeyVars, outputVars
<1>6. CASE ReadClock \/ Measure \/ Feed \/ ApplyPose
  BY <1>6 DEF ReadClock, Measure, Feed, ApplyPose, hotkeyVars, outputVars
<1>7. CASE UNCHANGED vars
  BY <1>7 DEF vars, hotkeyVars, outputVars
<1> QED
  BY <1>1, <1>2, <1>3, <1>4, <1>5, <1>6, <1>7 DEF Next, Toggle, BuildView

\* Every view is posed whole or left alone whole, by the flag as it was at one
\* instant while the view was built, for any number of controllers and wherever
\* the toggle falls (engine_hook.rs 525-536, 674).
THEOREM ViewsAlwaysAtomic == Spec => ViewsAreAtomic
<1>1. Init => Atomically!ViewsInit
  BY DEF Init, Atomically!ViewsInit
<1>2. IInv /\ [Next]_vars => [Atomically!ViewsNext]_(Atomically!viewVars)
  BY AtomicStep
<1> QED
  BY <1>1, <1>2, Inductive, PTL DEF Spec, ViewsAreAtomic, Atomically!ViewsSpec

=============================================================================
