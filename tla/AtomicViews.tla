----------------------------- MODULE AtomicViews -----------------------------
(***************************************************************************)
(* What the mod promises of a view and its overlays against the toggle, as *)
(* if each view were built in one step.                                    *)
(*                                                                         *)
(* The view of a player who has a pawn and is not paused is posed exactly  *)
(* if tracking is on at that step; the compass then has the clean scene of *)
(* this view's player and the crosshair is the mod's to move or hide.  Any *)
(* other view takes both back.                                             *)
(***************************************************************************)

CONSTANTS
  Actors,  \* player controllers a view can be built for
  None     \* no clean scene

VARIABLES
  on,         \* tracking is on
  scene,      \* the actor of the clean scene, or None
  crosshair   \* the crosshair is the mod's

viewVars == <<on, scene, crosshair>>

ViewsInit ==
  /\ on \in BOOLEAN
  /\ scene = None
  /\ crosshair = FALSE

Toggle ==
  /\ on' = ~on
  /\ UNCHANGED <<scene, crosshair>>

View(actor, pawn, paused) ==
  /\ IF on /\ pawn /\ ~paused
       THEN scene' = actor /\ crosshair' = TRUE
       ELSE scene' = None /\ crosshair' = FALSE
  /\ UNCHANGED on

ViewsNext == Toggle \/ \E actor \in Actors, pawn, paused \in BOOLEAN : View(actor, pawn, paused)

ViewsSpec == ViewsInit /\ [][ViewsNext]_viewVars

=============================================================================
