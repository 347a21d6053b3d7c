---------------------------- MODULE TrackingModes ----------------------------
(***************************************************************************)
(* The tracking mode and the yaw mode: set by hotkeys, read by every view, *)
(* saved to CameraUnlock.ini and read back at the next start.              *)
(*                                                                         *)
(* A hotkey action changes TrackingState under the GLOBAL_STATE write lock *)
(* and stores each changed field in its atomic mirror before it unlocks    *)
(* (src/src/tracking.rs); the mode cycle and the yaw toggle then save what *)
(* they set, after the lock is gone (src/src/hotkeys.rs).  A view reads    *)
(* the mirrors one at a time with no lock (src/src/engine_hook.rs).  All   *)
(* three actions run on core's one poller thread, so nothing else changes  *)
(* the state between an unlock and the save that follows it.               *)
(*                                                                         *)
(* The game can die at any step and start again from the files, which      *)
(* ConfigOwner loads and saves.                                            *)
(***************************************************************************)
EXTENDS ConfigOwner

\* TrackingState::cycle_tracking_mode.
NextMode(m) ==
  CASE m = <<TRUE, TRUE>> -> <<TRUE, FALSE>>
    [] m = <<TRUE, FALSE>> -> <<FALSE, TRUE>>
    [] OTHER -> <<TRUE, TRUE>>

VARIABLES
  up,        \* the game is running with the mod started
  state,     \* TrackingState, under GLOBAL_STATE
  mirror,    \* its atomic mirrors
  hpc,       \* the hotkey thread's next step
  vpc,       \* the view's next step
  seen,      \* the flags the view has read
  \* history
  startOn,   \* how the file said at the last start that tracking starts
  modeLost,  \* a save of the mode did not report Saved in this session
  yawLost,   \* a save of the yaw mode did not report Saved in this session
  moved      \* the view overlaps a change of what it reads

vars == <<configVars, up, state, mirror, hpc, vpc, seen, startOn, modeLost, yawLost, moved>>

TypeOK ==
  /\ ConfigTypeOK
  /\ up \in BOOLEAN
  /\ state \in Settings /\ Mode(state) \in Modes
  /\ mirror \in Settings
  /\ hpc \in {"idle", "storeOn", "storeRot", "storePos", "storeYaw", "saveMode", "saveYaw"}
  /\ vpc \in {"idle", "rot", "yaw", "pos", "done"}
  /\ seen \in Settings
  /\ startOn \in Row
  /\ {modeLost, yawLost, moved} \subseteq BOOLEAN

\* The statics before apply_startup, over any files.
Init ==
  /\ ConfigInit
  /\ up = FALSE
  /\ state = Defaults
  /\ mirror = Defaults
  /\ hpc = "idle"
  /\ vpc = "idle"
  /\ seen = Defaults
  /\ startOn = Default
  /\ modeLost = FALSE
  /\ yawLost = FALSE
  /\ moved = FALSE

-----------------------------------------------------------------------------
(* Start and end of the game                                               *)

\* config::load reads the legacy file, where it has to, line by line.
ReadLegacy ==
  /\ ~up
  /\ OpenLegacy \/ \E line \in Lines : ReadLegacyLine(line)
  /\ UNCHANGED <<up, state, mirror, hpc, vpc, seen, startOn, modeLost, yawLost, moved>>

\* config::load and apply_startup, before the hotkeys and the hooks exist.
Start ==
  /\ ~up
  /\ Load
  /\ up' = TRUE
  /\ state' = Loaded
  /\ mirror' = Loaded
  /\ startOn' = IF file' = NoFile THEN Default ELSE file'.on
  /\ modeLost' = FALSE
  /\ yawLost' = FALSE
  /\ UNCHANGED <<hpc, vpc, seen, moved>>

\* The process ends, between any two steps of any thread.
Die ==
  /\ up \/ reader # Closed
  /\ Unload
  /\ up' = FALSE
  /\ state' = Defaults
  /\ mirror' = Defaults
  /\ hpc' = "idle"
  /\ vpc' = "idle"
  /\ seen' = Defaults
  /\ startOn' = Default
  /\ modeLost' = FALSE
  /\ yawLost' = FALSE
  /\ moved' = FALSE

\* The player edits the files while the game is not running.
Edit ==
  /\ ~up
  /\ EditFiles
  /\ UNCHANGED <<up, state, mirror, hpc, vpc, seen, startOn, modeLost, yawLost, moved>>

-----------------------------------------------------------------------------
(* Hotkey thread                                                           *)

PressToggle ==
  /\ up
  /\ hpc = "idle"
  /\ state' = [state EXCEPT !.on = ~@]
  /\ hpc' = "storeOn"
  /\ UNCHANGED <<configVars, up, mirror, vpc, seen, startOn, modeLost, yawLost, moved>>

PressCycle ==
  /\ up
  /\ hpc = "idle"
  /\ state' = [state EXCEPT !.rot = NextMode(Mode(state))[1],
                            !.pos = NextMode(Mode(state))[2]]
  /\ hpc' = "storeRot"
  /\ moved' = (moved \/ vpc # "idle")
  /\ UNCHANGED <<configVars, up, mirror, vpc, seen, startOn, modeLost, yawLost>>

PressYaw ==
  /\ up
  /\ hpc = "idle"
  /\ state' = [state EXCEPT !.yaw = ~@]
  /\ hpc' = "storeYaw"
  /\ moved' = (moved \/ vpc # "idle")
  /\ UNCHANGED <<configVars, up, mirror, vpc, seen, startOn, modeLost, yawLost>>

\* One atomic store of a mirror, on the way to the next step.
StoreMirror(field, from, to) ==
  /\ hpc = from
  /\ mirror' = [mirror EXCEPT ![field] = state[field]]
  /\ hpc' = to
  /\ UNCHANGED <<configVars, up, state, vpc, seen, startOn, modeLost, yawLost, moved>>

StoreOn == StoreMirror("on", "storeOn", "idle")

\* Mutant: the cycle leaves the position mirror alone when rotation stays on.
StoreRotSkipsPos ==
  \/ ~state.rot /\ StoreMirror("rot", "storeRot", "storePos")
  \/ state.rot /\ StoreMirror("rot", "storeRot", "saveMode")
StoreRot == StoreMirror("rot", "storeRot", "storePos")
StorePos == StoreMirror("pos", "storePos", "saveMode")
StoreYaw == StoreMirror("yaw", "storeYaw", "saveYaw")

\* save_tracking_mode.
SaveMode ==
  /\ hpc = "saveMode"
  /\ hpc' = "idle"
  /\ modeLost' \in BOOLEAN
  /\ SaveRows({"rot", "pos"}, state, modeLost')
  /\ UNCHANGED <<up, state, mirror, vpc, seen, startOn, yawLost, moved>>

\* Mutant: the save writes every row as the session has it.
SaveYawWithAllRows ==
  /\ hpc = "saveYaw"
  /\ hpc' = "idle"
  /\ yawLost' \in BOOLEAN
  /\ SaveRows(Fields, state, yawLost')
  /\ UNCHANGED <<up, state, mirror, vpc, seen, startOn, modeLost, moved>>

\* save_world_space_yaw.
SaveYaw ==
  /\ hpc = "saveYaw"
  /\ hpc' = "idle"
  /\ yawLost' \in BOOLEAN
  /\ SaveRows({"yaw"}, state, yawLost')
  /\ UNCHANGED <<up, state, mirror, vpc, seen, startOn, modeLost, moved>>

-----------------------------------------------------------------------------
(* Game thread: the reads of one view, in the detour's order               *)

\* The gate; a view that finds tracking off reads nothing else.
BeginView ==
  /\ up
  /\ vpc = "idle"
  /\ mirror.on
  /\ vpc' = "rot"
  /\ seen' = [seen EXCEPT !.on = TRUE]
  /\ moved' = (hpc \in {"storeRot", "storePos", "storeYaw"})
  /\ UNCHANGED <<configVars, up, state, mirror, hpc, startOn, modeLost, yawLost>>

\* The yaw mode is read only when rotation is applied.
ReadFlag(field, from, to) ==
  /\ vpc = from
  /\ vpc' = to
  /\ seen' = [seen EXCEPT ![field] = mirror[field]]
  /\ UNCHANGED <<configVars, up, state, mirror, hpc, startOn, modeLost, yawLost, moved>>

ReadRot == ReadFlag("rot", "rot", IF mirror.rot THEN "yaw" ELSE "pos")
ReadYaw == ReadFlag("yaw", "yaw", "pos")
ReadPos == ReadFlag("pos", "pos", "done")

EndView ==
  /\ vpc = "done"
  /\ vpc' = "idle"
  /\ seen' = Defaults
  /\ moved' = FALSE
  /\ UNCHANGED <<configVars, up, state, mirror, hpc, startOn, modeLost, yawLost>>

-----------------------------------------------------------------------------

Hotkeys ==
  \/ PressToggle \/ PressCycle \/ PressYaw
  \/ StoreOn \/ StoreRot \/ StorePos \/ StoreYaw
  \/ SaveMode \/ SaveYaw

View == BeginView \/ ReadRot \/ ReadYaw \/ ReadPos \/ EndView

Next == ReadLegacy \/ Start \/ Die \/ Edit \/ Hotkeys \/ View

Spec == Init /\ [][Next]_vars

-----------------------------------------------------------------------------
(* Properties                                                              *)

\* The hotkey thread holds the GLOBAL_STATE write lock.
Locked == hpc \in {"storeOn", "storeRot", "storePos", "storeYaw"}

\* Whoever takes the lock finds the mirrors equal to the state, on every path
\* through the three actions and after every start (tracking.rs 158-241).
MirrorsAgree == (up /\ ~Locked) => mirror = state

\* A view poses in the mode and the yaw mode the state names, unless it overlaps
\* the locked part of an action that changes them: the mixture a view can read
\* halfway through a cycle, neither rotation nor position among them, outlives
\* the cycle's two stores by that one view (engine_hook.rs 546-555,
\* tracking.rs 188-189).
ViewPosesInMode ==
  vpc = "done" =>
    \/ moved
    \/ /\ Mode(seen) = Mode(state)
       /\ seen.rot => seen.yaw = state.yaw

\* No death between two steps, no failed save and no change of Defaults.ini leaves
\* rows that name no mode: apply_startup calls that unreachable
\* (tracking.rs 229-234).
FileNamesMode == Mode(FileSettings) \in Modes

\* Between hotkeys the file names the session's mode and yaw mode unless the
\* latest save of that one failed, so the next start picks up where the player
\* left off; toggling tracking never changes how the next start begins
\* (README.md 125-127, hotkeys.rs 7-8).
NextStartResumes ==
  (up /\ hpc = "idle") =>
    /\ modeLost \/ Mode(FileSettings) = Mode(state)
    /\ yawLost \/ FileSettings.yaw = state.yaw
    /\ file # NoFile => file.on = startOn

\* What a player chose, of the settings of a session or of the next one.
Choices(s) == [mode |-> Mode(s), yaw |-> s.yaw]

\* What the mod promises a player, of the running session and of the file.
Player == INSTANCE Preferences WITH
  None <- NoFile,
  held <- IF up THEN Choices(state) ELSE NoFile,
  kept <- IF file = NoFile THEN NoFile ELSE Choices(FileSettings)

\* The session and the file implement the player's preferences: what is kept is
\* never half a choice nor one that was not in effect, whenever the game dies and
\* whichever saves fail, and a session begins with what was kept or with what it
\* keeps from its start on (hotkeys.rs 6-10, tracking.rs 216-241,
\* config_owner.cpp 90-139).
ImplementsPreferences == Player!PreferencesSpec

=============================================================================
