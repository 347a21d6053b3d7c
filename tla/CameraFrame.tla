----------------------------- MODULE CameraFrame -----------------------------
(***************************************************************************)
(* One camera view on the game thread against the tracking toggle on the   *)
(* hotkey thread.                                                          *)
(*                                                                         *)
(* The engine builds every view through the detour                         *)
(* (src/src/engine_hook.rs camera_scene_node_detour).  A view whose player *)
(* is paused or has no pawn, or that finds tracking off, is left alone;    *)
(* any other ticks the smoothing pipeline, poses the camera and publishes  *)
(* the clean scene for the compass and the reticle for the draw hooks.     *)
(* tick_frame reads the clock, locks PIPELINE to measure the frame time    *)
(* against last_frame, and locks it again to feed the pipeline.  The       *)
(* toggle (src/src/tracking.rs) stores the enabled flag and then resets    *)
(* the pipeline; a pause change resets it from inside the view.            *)
(*                                                                         *)
(* Time is not a number here: what matters of a frame time is whether it   *)
(* was measured and what happened between its two ends, so an instant      *)
(* carries what has happened since.                                        *)
(***************************************************************************)

CONSTANTS
  Actors,       \* player controllers a view can be built for
  None          \* no actor

ASSUME ActorsAssumption == None \notin Actors

VARIABLES
  \* hotkey thread
  enabled,      \* ATOMIC_ENABLED
  hpc,          \* "reset" between the toggle's store and its reset, or "idle"
  \* game thread
  gpc,          \* the step the view takes next, "idle" between views
  view,         \* arguments and locals of the view being built
  lastActor,    \* LAST_ACTOR
  lastPaused,   \* LAST_PAUSED
  lean,         \* the actor the lean clamp holds a contact for, or None
  cleanScene,   \* CLEAN_SCENE: the actor its view is for, or None
  reticle,      \* RETICLE
  viewOld,      \* LAST_VIEW_MS lies more than 250 ms back
  \* pipeline
  lastFrame,    \* last_frame is Some
  seeded,       \* the interpolators hold a sample
  \* history
  offSince,     \* tracking has been off since the instant in last_frame
  pausedSince,  \* a paused view has been built since the one in last_frame
  now,          \* what lies between last_frame and the instant tick_frame read
  offSinceNow,  \* tracking has been off since that instant
  measured,     \* what lies inside the latest frame time
  offFed,       \* tracking has been off since the pipeline was last fed
  offView,      \* tracking has been off ever since this view began
  leanGap       \* since the lean clamp last ran a view has been built paused,
                \* without a pawn, or with tracking off from begin to end

hotkeyVars == <<enabled, hpc>>
viewVars == <<view, lastActor, lastPaused, viewOld>>
outputVars == <<lean, cleanScene, reticle>>
pipelineVars == <<lastFrame, seeded>>
leanHistory == <<offView, leanGap>>
historyVars == <<offSince, pausedSince, now, offSinceNow, measured, offFed, leanHistory>>
vars == <<hotkeyVars, gpc, viewVars, outputVars, pipelineVars, historyVars>>

Views == [actor : Actors, pawn : BOOLEAN, paused : BOOLEAN, changedActor : BOOLEAN]

TypeOK ==
  /\ enabled \in BOOLEAN
  /\ hpc \in {"idle", "reset"}
  /\ gpc \in {"idle", "lean", "gate", "clock", "measure", "feed", "pose"}
  /\ view \in Views \cup {None}
  /\ gpc # "idle" => view \in Views
  /\ lastActor \in Actors \cup {None}
  /\ lean \in Actors \cup {None}
  /\ cleanScene \in Actors \cup {None}
  /\ reticle \in {"inactive", "hidden", "position"}
  /\ {lastPaused, viewOld, lastFrame, seeded, offSince, pausedSince,
      offSinceNow, offFed, offView, leanGap} \subseteq BOOLEAN
  /\ now \subseteq {"off", "pause"}
  /\ measured \subseteq {"off", "pause"}

\* apply_startup has set the flag from EnableOnStartup; no view yet.
Init ==
  /\ enabled \in BOOLEAN
  /\ hpc = "idle"
  /\ gpc = "idle"
  /\ view = None
  /\ lastActor = None
  /\ lastPaused = FALSE
  /\ viewOld = FALSE
  /\ lean = None
  /\ cleanScene = None
  /\ reticle = "inactive"
  /\ lastFrame = FALSE
  /\ seeded = FALSE
  /\ offSince = FALSE
  /\ pausedSince = FALSE
  /\ now = {}
  /\ offSinceNow = FALSE
  /\ measured = {}
  /\ offFed = FALSE
  /\ offView = FALSE
  /\ leanGap = FALSE

\* The toggle has finished and left tracking off.
Off == hpc = "idle" /\ ~enabled

-----------------------------------------------------------------------------
(* Hotkey thread: TrackingState::toggle, under the GLOBAL_STATE write lock *)

ToggleFlag ==
  /\ hpc = "idle"
  /\ enabled' = ~enabled
  /\ hpc' = "reset"
  /\ offView' = FALSE
  /\ UNCHANGED <<gpc, viewVars, outputVars, pipelineVars, offSince, pausedSince, now,
                 offSinceNow, measured, offFed, leanGap>>

\* Mutant: only switching off resets the pipeline.
ToggleResetWhenDisabling ==
  /\ hpc = "reset"
  /\ hpc' = "idle"
  /\ IF enabled
       THEN UNCHANGED <<pipelineVars, offSince, pausedSince, offSinceNow, offFed>>
       ELSE /\ lastFrame' = FALSE
            /\ seeded' = FALSE
            /\ offSince' = TRUE
            /\ offSinceNow' = TRUE
            /\ pausedSince' = FALSE
            /\ offFed' = TRUE
  /\ UNCHANGED <<enabled, gpc, viewVars, outputVars, now, measured, leanHistory>>

\* smoothing::reset, and the lock is released.
ToggleReset ==
  /\ hpc = "reset"
  /\ hpc' = "idle"
  /\ lastFrame' = FALSE
  /\ seeded' = FALSE
  /\ offSince' = (offSince \/ ~enabled)
  /\ offSinceNow' = (offSinceNow \/ ~enabled)
  /\ offFed' = (offFed \/ ~enabled)
  /\ pausedSince' = FALSE
  /\ UNCHANGED <<enabled, gpc, viewVars, outputVars, now, measured, leanHistory>>

-----------------------------------------------------------------------------
(* Game thread: camera_scene_node_detour, in the code's order              *)

\* Mutant: a view without a pawn does not note a pause change.
BeginViewPauseNeedsPawn(a, pawn, paused) ==
  /\ gpc = "idle"
  /\ gpc' = "lean"
  /\ view' = [actor |-> a, pawn |-> pawn, paused |-> paused,
              changedActor |-> lastActor # a]
  /\ lastActor' = a
  /\ lastPaused' = IF pawn THEN paused ELSE lastPaused
  /\ viewOld' = FALSE
  /\ IF pawn /\ paused # lastPaused
       THEN lastFrame' = FALSE /\ seeded' = FALSE /\ pausedSince' = FALSE
       ELSE pausedSince' = (pausedSince \/ paused) /\ UNCHANGED pipelineVars
  /\ offView' = ~enabled
  /\ leanGap' = (leanGap \/ paused \/ ~pawn)
  /\ UNCHANGED <<hotkeyVars, outputVars, offSince, now, offSinceNow, measured, offFed>>

\* The view is built, the statics that describe it are swapped, and a pause
\* change resets the pipeline.
BeginView(a, pawn, paused) ==
  /\ gpc = "idle"
  /\ gpc' = "lean"
  /\ view' = [actor |-> a, pawn |-> pawn, paused |-> paused,
              changedActor |-> lastActor # a]
  /\ lastActor' = a
  /\ lastPaused' = paused
  /\ viewOld' = FALSE
  /\ IF paused # lastPaused
       THEN lastFrame' = FALSE /\ seeded' = FALSE /\ pausedSince' = FALSE
       ELSE pausedSince' = (pausedSince \/ paused) /\ UNCHANGED pipelineVars
  /\ offView' = ~enabled
  /\ leanGap' = (leanGap \/ paused \/ ~pawn)
  /\ UNCHANGED <<hotkeyVars, outputVars, offSince, now, offSinceNow, measured, offFed>>

\* Mutant: the lean clamp keeps its contact while tracking is off.
MustResetLeanWhenOn == view.changedActor \/ ~view.pawn \/ view.paused
MustResetLean == view.changedActor \/ ~enabled \/ ~view.pawn \/ view.paused

\* First read of the enabled flag.
ResetLean ==
  /\ gpc = "lean"
  /\ gpc' = "gate"
  /\ lean' = IF MustResetLean THEN None ELSE lean
  /\ UNCHANGED <<hotkeyVars, viewVars, cleanScene, reticle, pipelineVars, historyVars>>

\* Mutant: the early return tests the pawn and the pause alone.
LeftAloneWhenOn == ~view.pawn \/ view.paused
LeftAlone == ~enabled \/ ~view.pawn \/ view.paused

\* Mutant: the early return leaves the reticle of an earlier view up.
RefuseKeepsReticle ==
  /\ gpc = "gate"
  /\ LeftAlone
  /\ gpc' = "idle"
  /\ cleanScene' = None
  /\ UNCHANGED <<hotkeyVars, viewVars, lean, reticle, pipelineVars, historyVars>>

\* Second read of the enabled flag: the view is left alone.
Refuse ==
  /\ gpc = "gate"
  /\ LeftAlone
  /\ gpc' = "idle"
  /\ cleanScene' = None
  /\ reticle' = "inactive"
  /\ leanGap' = (leanGap \/ offView)
  /\ UNCHANGED <<hotkeyVars, viewVars, lean, pipelineVars, offSince, pausedSince, now,
                 offSinceNow, measured, offFed, offView>>

\* Second read of the enabled flag: the view will be posed.
Pass ==
  /\ gpc = "gate"
  /\ ~LeftAlone
  /\ gpc' = "clock"
  /\ cleanScene' = view.actor
  /\ UNCHANGED <<hotkeyVars, viewVars, lean, reticle, pipelineVars, historyVars>>

\* tick_frame reads the clock before it locks anything.
ReadClock ==
  /\ gpc = "clock"
  /\ gpc' = "measure"
  /\ now' = (IF offSince THEN {"off"} ELSE {})
            \cup (IF pausedSince THEN {"pause"} ELSE {})
  /\ offSinceNow' = Off
  /\ UNCHANGED <<hotkeyVars, viewVars, outputVars, pipelineVars, offSince,
                 pausedSince, measured, offFed, leanHistory>>

\* PIPELINE locked, the frame time taken, PIPELINE unlocked.
Measure ==
  /\ gpc = "measure"
  /\ gpc' = "feed"
  /\ measured' = IF lastFrame THEN now ELSE {}
  /\ lastFrame' = TRUE
  /\ offSince' = offSinceNow
  /\ pausedSince' = FALSE
  /\ UNCHANGED <<hotkeyVars, viewVars, outputVars, seeded, now, offSinceNow,
                 offFed, leanHistory>>

\* PIPELINE locked again for tick_with_dt.
Feed ==
  /\ gpc = "feed"
  /\ gpc' = "pose"
  /\ seeded' = TRUE
  /\ offFed' = Off
  /\ measured' = {}
  /\ UNCHANGED <<hotkeyVars, viewVars, outputVars, lastFrame, offSince, pausedSince,
                 now, offSinceNow, leanHistory>>

\* The camera takes the pose.  The lean goes through the clamp, which may or
\* may not be left in contact, when positional tracking and collision are on,
\* and resets it otherwise.  The aim point projects or is hidden.
ApplyPose ==
  /\ gpc = "pose"
  /\ gpc' = "idle"
  /\ lean' \in {None, view.actor}
  /\ leanGap' = FALSE
  /\ reticle' \in {"hidden", "position"}
  /\ UNCHANGED <<hotkeyVars, viewVars, cleanScene, pipelineVars, offSince, pausedSince,
                 now, offSinceNow, measured, offFed, offView>>

\* 250 ms pass without a view.
ViewAges ==
  /\ gpc = "idle"
  /\ ~viewOld
  /\ viewOld' = TRUE
  /\ UNCHANGED <<hotkeyVars, gpc, view, lastActor, lastPaused, outputVars,
                 pipelineVars, historyVars>>

-----------------------------------------------------------------------------

Toggle == ToggleFlag \/ ToggleReset

BuildView ==
  \/ \E a \in Actors, pawn, paused \in BOOLEAN : BeginView(a, pawn, paused)
  \/ ResetLean \/ Refuse \/ Pass \/ ReadClock \/ Measure \/ Feed \/ ApplyPose

Next == Toggle \/ BuildView \/ ViewAges

Spec == Init /\ [][Next]_vars

\* The engine keeps building views and runs each to its end, and a toggle that
\* has stored the flag goes on to reset.  Nothing obliges a key press.
FairSpec == Spec /\ WF_vars(BuildView) /\ WF_vars(ToggleReset)

-----------------------------------------------------------------------------
(* Properties                                                              *)

\* What the draw hook gets from reticle_state between views.
ReticleState == IF ~enabled \/ viewOld THEN "inactive" ELSE reticle

\* A frame time never spans a paused view: the first tick after a pause is
\* measured as a first frame, even when the pause began or ended in a view
\* that could not tick (engine_hook.rs 506-511).
NoFrameTimeAcrossPause == "pause" \notin measured

\* Once a toggle has finished and left tracking on, nothing in the pipeline was
\* fed before tracking was last off, although a view that had passed the gate
\* may have fed it while tracking was off (tracking.rs 158-166).
FreshAfterToggle == (enabled /\ hpc = "idle" /\ seeded) => ~offFed

\* A lean is clamped from a contact of its own controller, and since the clamp
\* last ran no view has been paused, without a pawn, or built with tracking off
\* from begin to end.  A view that finds tracking on where it decides on the
\* contact and off at the gate does leave it: the toggle fell between the two
\* reads (engine_hook.rs 522-529).
LeanNotCarried ==
  (gpc = "pose" /\ lean # None) => (lean = view.actor /\ ~leanGap)

\* Between views the compass has clean matrices exactly as long as the crosshair is
\* the mod's, and whatever the draw hook still does about the crosshair, it does
\* for the view built last, of its controller and not paused
\* (engine_hook.rs 525-529, 536, 674; 248-253).
OverlaysMatchView ==
  gpc = "idle" =>
    /\ ReticleState # "inactive" => cleanScene = lastActor /\ ~lastPaused
    /\ (cleanScene = None) <=> (reticle = "inactive")

\* If the player leaves tracking off, the views stop being posed for good, even
\* when a view was past the gate as the key was pressed.
OffSettles == <>[](~enabled) => <>[](cleanScene = None /\ reticle = "inactive")

\* A frame time never spans a period with tracking off: the reset from the
\* toggle is there "so a long disabled period doesn't leave a giant dt waiting
\* on the next tick" (smoothing.rs 531-532; tracking.rs 162-165).
NoFrameTimeAcrossOff == "off" \notin measured

\* Once past the gate the crosshair is the mod's, although its state is stored later.
Atomically == INSTANCE AtomicViews WITH
  on <- enabled,
  scene <- cleanScene,
  crosshair <- gpc \in {"clock", "measure", "feed", "pose"} \/ reticle # "inactive"

\* A view is posed whole or left alone whole, for its own player, by what the flag
\* says at one instant while the view is built, wherever in it the toggle falls:
\* the view's steps implement a view built in one (engine_hook.rs 525-536, 674).
ViewsAreAtomic == Atomically!ViewsSpec

=============================================================================
