----------------------------- MODULE RenderHooks -----------------------------
(***************************************************************************)
(* The hooks: installed one by one by the init thread, run by the game     *)
(* thread from the moment each is enabled.                                 *)
(*                                                                         *)
(* install_hook (src/src/hook_util.rs) creates a MinHook hook, fills the   *)
(* cell the detour takes its original from, and enables every hook created *)
(* so far.  Creating and enabling may fail, which ends the hook's group;   *)
(* filling the cell fails only where it is full, and each hook is          *)
(* installed once.  The engine's four hooks form one group and the two of  *)
(* Direct3D another (src/src/lib.rs).  A hook that was created and not     *)
(* enabled stays behind and is enabled by the next install that gets that  *)
(* far.                                                                    *)
(*                                                                         *)
(* The detours of the draws change the renderer for one call and put it    *)
(* back: the flag that marks a crosshair's HUD primitive, the viewports    *)
(* and the compass's two transforms, which it takes from the view the      *)
(* camera detour kept, for the scene of that view only.  Draws nest.  A    *)
(* call that was entered before its hook was enabled returns past the      *)
(* detour.                                                                 *)
(*                                                                         *)
(* MinHook is external.  It suspends the other threads while it enables,   *)
(* in the order of creation, and stops at the first hook that fails.       *)
(***************************************************************************)
EXTENDS Naturals, Sequences

CONSTANTS
  MaxDepth,  \* bound: HUD primitives, or mesh draws, inside each other
  Scenes,    \* the scene nodes views are drawn from
  None       \* no scene

ASSUME DepthAssumption == MaxDepth \in Nat \ {0}
ASSUME NoneAssumption == None \notin Scenes

InstallOrder == <<"camera", "mesh", "lit", "primitive", "present", "draw">>
Hooks == {InstallOrder[i] : i \in DOMAIN InstallOrder}
D3DHooks == {"present", "draw"}
Group(h) == IF h \in D3DHooks THEN "d3d" ELSE "engine"

\* The cells filled before the hook is created, beside its original.
Prepared(h) ==
  CASE h = "camera" -> {"point region", "update matrices"}
    [] h = "mesh" -> {"arrow vtable"}
    [] OTHER -> {}

\* The cells the detour unwraps; hooked_present looks into its own first.
Unwrapped(h) ==
  CASE h = "camera" -> {h} \cup Prepared("camera")
    [] h \in {"mesh", "lit"} -> {h} \cup Prepared("mesh")
    [] h = "present" -> {}
    [] OTHER -> {h}

Cells == Hooks \cup UNION {Prepared(h) : h \in Hooks}

\* Mutant: the hook is enabled before its original is kept.
HookProgramLateSlot == <<"create", "enable", "slot">>

\* Program order of install_hook.
HookProgram == <<"create", "slot", "enable">>

VARIABLES
  \* init thread
  at,         \* the hook of InstallOrder being installed
  step,       \* what is next: "find", "vtable", "prepare", 1 .. 3, or "done"
  cells,      \* the cells that are set
  created,    \* hooks MinHook has created
  enabled,    \* hooks it has enabled
  failed,     \* groups whose failure was logged
  \* game thread
  cleanScene, \* CLEAN_SCENE: the scene whose clean matrices it keeps, or None
  reticle,    \* RETICLE
  renderer,   \* what the detours change
  stack       \* the draw calls the game thread is in

initVars == <<at, step, cells, created, enabled, failed>>
gameVars == <<cleanScene, reticle, renderer, stack>>
vars == <<initVars, gameVars>>

\* view and projection: the scene whose clean matrix is set, or None for the game's.
Renderers == [reticleDraw : BOOLEAN, viewports : {"game", "shifted"},
              view : Scenes \cup {None}, projection : Scenes \cup {None}]
Calls == [call : {"mesh", "lit", "primitive", "draw"}, detoured : BOOLEAN,
          scene : Scenes \cup {None}, crosshair : BOOLEAN,
          effect : {"none", "drop", "shift", "steady"}, found : Renderers]

\* What the draw detour does for a state of the reticle.
Effect == [inactive |-> "none", hidden |-> "drop", position |-> "shift"]

\* The renderer with nothing of the mod in it.
Untouched == [reticleDraw |-> FALSE, viewports |-> "game",
              view |-> None, projection |-> None]

TypeOK ==
  /\ at \in 1 .. Len(InstallOrder)
  /\ step \in {"find", "vtable", "prepare", "done"} \cup {HookProgram[i] : i \in 1 .. 3}
  /\ cells \subseteq Cells
  /\ created \subseteq Hooks
  /\ enabled \subseteq created
  /\ failed \subseteq {"engine", "d3d"}
  /\ cleanScene \in Scenes \cup {None}
  /\ reticle \in {"inactive", "hidden", "position"}
  /\ renderer \in Renderers
  /\ stack \in Seq(Calls)

Init ==
  /\ at = 1
  /\ step = "find"
  /\ cells = {}
  /\ created = {}
  /\ enabled = {}
  /\ failed = {}
  /\ cleanScene = None
  /\ reticle = "inactive"
  /\ renderer = Untouched
  /\ stack = <<>>

-----------------------------------------------------------------------------
(* Init thread                                                             *)

Hook == InstallOrder[at]

\* Mutant: an error of the engine's hooks keeps the Direct3D hooks out.
GiveUpEverything(group) ==
  /\ failed' = failed \cup {group}
  /\ step' = "done"
  /\ UNCHANGED at

\* The group's error is logged, and the other group's turn comes.
GiveUp(group) ==
  /\ failed' = failed \cup {group}
  /\ IF group = "engine" THEN step' = "vtable" /\ at' = 5
                         ELSE step' = "done" /\ UNCHANGED at

\* find_render_hooks: an executable that is not the known one has no hooks.
FindHooks ==
  /\ step = "find"
  /\ \/ step' = "prepare" /\ UNCHANGED <<at, failed>>
     \/ GiveUp("engine")
  /\ UNCHANGED <<cells, created, enabled, gameVars>>

\* get_vtable_addrs, with its throwaway window and device.
ReadVtables ==
  /\ step = "vtable"
  /\ \/ step' = "prepare" /\ UNCHANGED <<at, failed>>
     \/ GiveUp("d3d")
  /\ UNCHANGED <<cells, created, enabled, gameVars>>

\* What the hook's own install sets up first.
Prepare ==
  /\ step = "prepare"
  /\ cells' = cells \cup Prepared(Hook)
  /\ step' = HookProgram[1]
  /\ UNCHANGED <<at, created, enabled, failed, gameVars>>

\* On to the next instruction of HookProgram, the next hook, or the next group.
StepOver ==
  \/ \E i \in 1 .. 2 : step = HookProgram[i] /\ step' = HookProgram[i + 1] /\ UNCHANGED at
  \/ /\ step = HookProgram[3]
     /\ IF at = Len(InstallOrder)
          THEN step' = "done" /\ UNCHANGED at
          ELSE /\ at' = at + 1
               /\ step' = IF at = 4 THEN "vtable" ELSE "prepare"

CreateHook ==
  /\ step = "create"
  /\ \/ created' = created \cup {Hook} /\ StepOver /\ UNCHANGED failed
     \/ GiveUp(Group(Hook)) /\ UNCHANGED created
  /\ UNCHANGED <<cells, enabled, gameVars>>

SetSlot ==
  /\ step = "slot"
  /\ cells' = cells \cup {Hook}
  /\ StepOver
  /\ UNCHANGED <<created, enabled, failed, gameVars>>

\* enable_all_hooks succeeds, or enables the hooks created before one it cannot.
EnableHooks ==
  /\ step = "enable"
  /\ \/ enabled' = created /\ StepOver /\ UNCHANGED failed
     \/ /\ \E i \in 1 .. at :
             /\ InstallOrder[i] \in created \ enabled
             /\ enabled' = enabled \cup (created \cap {InstallOrder[j] : j \in 1 .. i - 1})
        /\ GiveUp(Group(Hook))
  /\ UNCHANGED <<cells, created, gameVars>>

-----------------------------------------------------------------------------
(* Game thread                                                             *)

\* The camera detour poses a scene's view or leaves the view alone.
BuildView ==
  /\ stack = <<>>
  /\ "camera" \in enabled
  /\ \/ cleanScene' \in Scenes /\ reticle' \in {"hidden", "position"}
     \/ cleanScene' = None /\ reticle' = "inactive"
  /\ UNCHANGED <<initVars, renderer, stack>>

Top == stack[Len(stack)]

\* A call of one of the kinds, from the frame or from inside one of them.
CanCall(kinds) == Len(stack) < MaxDepth /\ (stack # <<>> => Top.call \in kinds)

Push(call, scene, crosshair, effect) ==
  stack' = Append(stack, [call |-> call, detoured |-> call \in enabled, scene |-> scene,
                          crosshair |-> crosshair, effect |-> effect,
                          found |-> renderer])

Pop == stack' = SubSeq(stack, 1, Len(stack) - 1)

\* Mutant: a primitive inside a crosshair's leaves the flag up.
EnterPrimitiveKeepsFlag(crosshair) ==
  /\ CanCall({"primitive"})
  /\ Push("primitive", None, crosshair, "none")
  /\ renderer' = IF "primitive" \in enabled /\ crosshair
                   THEN [renderer EXCEPT !.reticleDraw = TRUE] ELSE renderer
  /\ UNCHANGED <<initVars, cleanScene, reticle>>

\* draw_primitive, for a small shape around the screen's centre or another.
EnterPrimitive(crosshair) ==
  /\ CanCall({"primitive"})
  /\ Push("primitive", None, crosshair, "none")
  /\ renderer' = IF "primitive" \in enabled
                   THEN [renderer EXCEPT !.reticleDraw = crosshair] ELSE renderer
  /\ UNCHANGED <<initVars, cleanScene, reticle>>

\* Mutant: the flag is cleared, whatever primitive this one is inside.
LeavePrimitiveClearsFlag ==
  /\ stack # <<>>
  /\ Top.call = "primitive"
  /\ renderer' = IF Top.detoured
                   THEN [renderer EXCEPT !.reticleDraw = FALSE] ELSE renderer
  /\ Pop
  /\ UNCHANGED <<initVars, cleanScene, reticle>>

LeavePrimitive ==
  /\ stack # <<>>
  /\ Top.call = "primitive"
  /\ renderer' = IF Top.detoured
                   THEN [renderer EXCEPT !.reticleDraw = Top.found.reticleDraw]
                   ELSE renderer
  /\ Pop
  /\ UNCHANGED <<initVars, cleanScene, reticle>>

\* hooked_draw: inside a crosshair's primitive it asks for the reticle, which an
\* old view or the toggle makes inactive, and moves or drops the draw.
EnterDraw ==
  /\ Len(stack) <= MaxDepth
  /\ stack # <<>> => Top.call # "draw"
  /\ LET mine == "draw" \in enabled /\ renderer.reticleDraw
     IN \E state \in IF mine THEN {reticle, "inactive"} ELSE {"inactive"} :
          /\ Push("draw", None, FALSE, Effect[state])
          /\ renderer' = [renderer EXCEPT !.viewports =
                            IF Effect[state] = "shift" THEN "shifted" ELSE @]
  /\ UNCHANGED <<initVars, cleanScene, reticle>>

\* The original draw, if any, is done; a moved one gets the viewports back.
LeaveDraw ==
  /\ stack # <<>>
  /\ Top.call = "draw"
  /\ renderer' = IF Top.effect = "shift"
                   THEN [renderer EXCEPT !.viewports = Top.found.viewports]
                   ELSE renderer
  /\ Pop
  /\ UNCHANGED <<initVars, cleanScene, reticle>>

\* Mutant: the matrices are handed out for whatever scene asks.
CleanMatricesOfAny(scene) == cleanScene

\* clean_scene: the scene whose clean matrices a draw in a scene gets.
CleanMatrices(scene) == IF cleanScene = scene THEN scene ELSE None

\* with_camera, for the compass arrow or another mesh of a scene.
EnterMesh(call, scene, arrow) ==
  /\ CanCall({"mesh", "lit"})
  /\ LET clean == IF call \in enabled /\ arrow THEN CleanMatrices(scene) ELSE None
     IN  IF clean # None
           THEN /\ Push(call, scene, FALSE, "steady")
                /\ renderer' = [renderer EXCEPT !.view = clean, !.projection = clean]
           ELSE Push(call, scene, FALSE, "none") /\ UNCHANGED renderer
  /\ UNCHANGED <<initVars, cleanScene, reticle>>

LeaveMesh ==
  /\ stack # <<>>
  /\ Top.call \in {"mesh", "lit"}
  /\ renderer' = IF Top.effect = "steady"
                   THEN [renderer EXCEPT !.view = Top.found.view,
                                         !.projection = Top.found.projection]
                   ELSE renderer
  /\ Pop
  /\ UNCHANGED <<initVars, cleanScene, reticle>>

-----------------------------------------------------------------------------

InitThread ==
  FindHooks \/ ReadVtables \/ Prepare \/ CreateHook \/ SetSlot \/ EnableHooks

GameThread ==
  \/ BuildView
  \/ \E crosshair \in BOOLEAN : EnterPrimitive(crosshair)
  \/ LeavePrimitive \/ EnterDraw \/ LeaveDraw
  \/ \E call \in {"mesh", "lit"}, scene \in Scenes, arrow \in BOOLEAN :
       EnterMesh(call, scene, arrow)
  \/ LeaveMesh

Next == InitThread \/ GameThread

Spec == Init /\ [][Next]_vars

-----------------------------------------------------------------------------
(* Properties                                                              *)

\* A hook that is enabled, by its own install or by a later one after its own
\* failed, finds every cell its detour unwraps; an empty one would abort the
\* game on the next frame (hook_util.rs 54-60, hud.rs 193, compass.rs 34).
DetoursFindOriginals == \A h \in enabled : Unwrapped(h) \subseteq cells

\* When the init thread is done, each group either runs whole or has its failure
\* in the log, and neither group's failure keeps the other out (lib.rs 259-278).
CompleteOrLogged ==
  step = "done" =>
    \A h \in Hooks : h \in enabled \/ Group(h) \in failed

\* The flag is up for a Direct3D draw exactly when it comes straight from a
\* detoured crosshair primitive, whatever primitives ran inside that one before
\* and whichever hooks were enabled meanwhile; only such a draw is moved or
\* dropped, and only for a moved one are the viewports shifted
\* (reticle.rs 43-67, hud.rs 188-205).
OnlyCrosshairMoves ==
  (stack # <<>> /\ Top.call = "draw") =>
    LET below == Len(stack) - 1
        hooked == {k \in 1 .. below : stack[k].call = "primitive" /\ stack[k].detoured}
        inCrosshair == \E k \in hooked : stack[k].crosshair /\ \A j \in hooked : j <= k
    IN /\ Top.found.reticleDraw = inCrosshair
       /\ Top.effect # "none" => inCrosshair /\ Top.detoured
       /\ renderer.viewports = "shifted" <=> Top.effect = "shift"

\* A mesh drawn with clean matrices belongs to the scene of the last view posed,
\* and inside it, at any depth, the renderer has that scene's; every other draw,
\* in an auxiliary view or after a view that was left alone, has the game's own
\* (engine_hook.rs 217-223, 526, 536; compass.rs 35-55).
CompassInOwnScene ==
  LET steady == {k \in 1 .. Len(stack) : stack[k].effect = "steady"}
      set == IF steady = {} THEN None ELSE cleanScene
  IN  /\ \A k \in steady : stack[k].scene = cleanScene
      /\ renderer.view = set
      /\ renderer.projection = set

\* Between draws the renderer is as the game left it, also when a hook was
\* enabled inside a draw (reticle.rs 58-61, 80-117; compass.rs 43-55).
RendererAsFound == stack = <<>> => renderer = Untouched

\* A call that returns leaves the renderer exactly as it found it, at any depth:
\* what the calls around it set up is there again for the rest of them, whatever
\* it drew itself and whichever hooks were enabled inside it (reticle.rs 58-61,
\* 111-116; compass.rs 43-55).
EachCallRestores == [][Len(stack') < Len(stack) => renderer' = Top.found]_vars

=============================================================================
