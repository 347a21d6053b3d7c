# Verification of the BioShock Remastered head-tracking mod

TLA+ models of the mod in `src/`, the TLC configurations that check them, and
proofs that TLAPS checks. Line numbers are those of the files under
`src/src/`.

## 1. The system

The mod is a DLL that stands in for the game's `xinput1_3.dll`. It receives
head poses over UDP from an OpenTrack-style tracker and turns the game's camera
by them, with the crosshair and the compass corrected for it.

Threads that meet in it:

| thread | runs | code |
|---|---|---|
| loader (`DllMain`) | attach, unload, process exit | `lib.rs` |
| init thread | log, settings, receiver, hotkeys, hooks | `lib.rs` |
| UDP receiver | bind, receive, publish | `opentrack.rs` |
| hotkey poller (core, C++) | the three key actions and their saves | `hotkeys.rs`, `config_owner.cpp` |
| game / render thread | camera, draw and present detours | `engine_hook.rs`, `compass.rs`, `d3d/` |

What they share: `GLOBAL_STATE` (an `RwLock` over `TrackingState`), the atomic
mirrors of its fields, the pose statics and `ATOMIC_SAMPLE_SEQ`, the `PIPELINE`
mutex, the camera hook's `CLEAN_SCENE` and `RETICLE`, and `CameraUnlock.ini`.

### Components

| component | state | operations | what makes it correct | model |
|---|---|---|---|---|
| UDP receiver (`opentrack.rs`) | socket, remote flag | bind with retry, decode or discard, publish, back off, stop | a discarded datagram changes nothing; it stops promptly when told, and only then; a port that comes free is used | `PoseChannel`, `Lifecycle` |
| pose statics (`tracking.rs`) | seven cells and a counter | store in order, load in order | a reader that sees a count sees the values that go with it, or newer | `PoseChannel`, `PoseFeed` |
| smoothing pipeline (`smoothing.rs`) | interpolators, smoothers, last values, last frame | tick, reset | every pose is fed once, a torn one is corrected; a stall is noticed; nothing survives a reset; angles go the short way; predictions are held, expire and never add up; the limits do not wind the smoother up | `PoseChannel`, `CameraFrame`, `AngularAxis`, `PositionAxis` |
| tracking state (`tracking.rs`) | five flags, four mirrors | toggle, cycle, yaw toggle, startup | mirrors equal the state outside the lock; the mode is one of three | `TrackingModes` |
| hotkeys (`hotkeys.rs`) | none | apply under the lock, then save | what is saved is what was applied | `TrackingModes` |
| camera hook (`engine_hook.rs`) | last actor, last pause, lean contact, clean scene, reticle | build a view | a view left alone leaves no overlay; nothing is carried over a pause, a toggle or a change of controller | `CameraFrame` |
| settings (`config.rs`, `config_owner.cpp`) | the file, its owner | load, save mode, save yaw, import of the old file | the next start is in the mode the player left, and always in one that exists; a file that cannot be imported is left for the player to fix | `ConfigOwner`, `TrackingModes` |
| lifecycle (`lib.rs`) | shutdown flag, lock | attach, init, unload, exit | `DllMain` returns; the receiver ends | `Lifecycle` |
| hook installation (`hook_util.rs`) | original slots, created and enabled hooks | create, set slot, enable | a detour never runs without its original; a failure ends its group, is logged, and keeps the other group in | `RenderHooks` |
| overlays (`compass.rs`, `d3d/reticle.rs`, `d3d/hud.rs`) | nested draw flag, transforms, viewports | replace, draw, restore | a crosshair's draw moves and no other; the compass is steadied in its own scene alone; the renderer is as before after every draw | `RenderHooks`, `CameraFrame` |
| window placement (`window.rs`) | phase, layout | settle, move, confirm | one move until the layout or how the window is shown changes, at rest and to within reach; it is confirmed or given up | `WindowPlacement` |
| legacy reader (`legacy_config/`) | section and settings so far | read the v0.5.0 file line by line | every key gets the value of the last line that sets it in its section | `LegacyConfig`, `ConfigOwner` |
| render-hook discovery (`memory.rs`, `rtti.rs`) | none | scan the game image | a pure function of memory | not modelled |
| projection, rotation (`projection.rs`) | none | matrices | floating point | not modelled |
| XInput exports (`lib.rs`), conformance harness, build scripts | none | forward, test, package | | not modelled |
| cameraunlock-core | its own | `ConfigOwner`, `HotkeyPoller`, `LeanClamp` | an empty submodule here | external, from its uses |

Every hazard found in reading the code is listed at its line in `PROJECT.json`,
with the properties that would show it going wrong, or the reason none does.

## 2. The modules

| module | models | checked by | proofs |
|---|---|---|---|
| `PoseFeed` | what the pose statics promise, abstractly | as a property of `PoseChannel` | |
| `PoseChannel` | `receive_loop`, `tick_with_dt`, `smoothing::reset`, one atomic access a step | `MCPoseChannel` | `PoseChannelProofs` |
| `CameraFrame` | `camera_scene_node_detour`, `tick_frame`, `toggle` | `CameraFrame.cfg`, `CameraFrameGap.cfg` | `CameraFrameProofs` |
| `AtomicViews` | what a view and its overlays promise, as if built in one step | as a property of `CameraFrame` | |
| `Preferences` | what the mod promises a player about the mode, abstractly | as a property of `TrackingModes` | |
| `LegacyConfig` | the frozen reader of v0.5.0's settings file, a pure fold over its lines | through `TrackingModes` | `TrackingModesProofs` |
| `ConfigOwner` | the settings files: load, import, save, and the player's edits | through `TrackingModes` | `TrackingModesProofs` |
| `TrackingModes` | the hotkey actions, their mirrors and saves, the flags a view reads; composes the two above | `TrackingModes.cfg` | `TrackingModesProofs` |
| `Lifecycle` | `DllMain`, the init thread, `start_receiver`, the lock | `Lifecycle*.cfg` | `LifecycleProofs` |
| `AngularAxis` | `normalize_angle`, `shortest_angle_delta`, `interpolate`, the segments of one `Interpolator` | `MCAngularAxis` | `AngularAxisProofs` |
| `PositionAxis` | `segment_position`, `Interpolator::update`, `Smoother::update`, `PositionAxis::update` | `PositionAxis.cfg` | `PositionAxisProofs` |
| `RenderHooks` | `install_hook` and its six uses, the draw detours | `RenderHooks.cfg` | `RenderHooksProofs` |
| `WindowPlacement` | `window::center`, `hooked_present` | `MCWindowPlacement` | `WindowPlacementProofs` |

The modules cut the system by what its hazards need: each keeps the whole
control of the code it models and drops the data that its properties do not
tell apart. The variables of each are commented with the static, field or local
they stand for; variables under "history" exist in the model only and are what
the properties measure with. No action's guard reads one.

**PoseChannel.** `WriterProgram` and `ReaderProgram` are the program orders of
the receiver and of the tick. `wpc` and `rpc` index them, `mem` holds the cells
with the number of the datagram each came from. The stores are Release and the
loads Acquire, and neither thread does both on one location, so each access is
one step of an interleaving. `Feed` is the rest of the tick: both groups'
duplicate filter, the segment targets and the stall clock. A segment is reduced
to the value it aims at; its clock counts ticks since the last sample.

**CameraFrame.** One view is a sequence of steps `gpc`, cut wherever another
thread can come between: the two reads of the enabled flag, the clock read and
the two locks of `tick_frame`. An instant is represented by what has happened
since (`offSince`, `pausedSince`), so that "a frame time spans a pause" can be
said without a clock. The lean clamp is reduced to whose contact it holds.
`AtomicViews` is the same without places: a view is one step, and posed exactly
if tracking is on at that step. `CameraFrame` implements it with the crosshair
counted as the mod's from the moment a view is past the gate.

**LegacyConfig, ConfigOwner.** `TrackingModes` extends `ConfigOwner`, which
extends `LegacyConfig`. A line of the legacy file is a header, or a key with a
value that its parser takes or turns down; lines the reader passes over are left
out. Two of the four keys are kept, in different sections, so that every kind of
misplacement exists; one of the two ends up in `CameraUnlock.ini` as a row that a
hotkey changes. `CameraUnlock.ini` is a row per setting, `"true"`, `"false"` or
`"default"`, or `NoFile`. What the mod decides is what it tells core of the
legacy file: `LegacyText` is what reading gives, where a file that is text may
still fail to be read once, `Outcome` is `read_legacy` and `Import` the result
of `ConfigLegacyImport`. `Imported` is `MapLegacy`: a value the player never
changed, or that Defaults.ini has anyway, becomes a row that follows
Defaults.ini. What core then does, the four outcomes of a load and the three of
a save, is external and follows what this code, its tests
(`tests/config_owner.rs`) and the changelog say of it: after an import that
could not be decoded there is no file and a save is never Saved, and an
uncertain save leaves the file either way. Between sessions the player deletes
`CameraUnlock.ini`, changes Defaults.ini, or saves an unreadable legacy file as
text.

**TrackingModes.** The hotkey thread's actions are cut at each mirror store and
at the save; the view at each mirror it reads. `Die` may come at any step, the
middle of an import included, and `Start` loads whatever files are then there.
`Preferences` says what all of this is for: a session holds two choices and the
file keeps two. `TrackingModes` implements it with the session's flags as what
is held, none between sessions, and what the rows mean as what is kept, none
without `CameraUnlock.ini`.

**Lifecycle.** `GLOBAL_STATE` is a lock with an owner. `Exit` stops every thread
where it stands, so the lock may stay taken. A bind fails while another process
holds the port, the one cause that is modelled. `bind_with_retry` waits in slices
and reads the shutdown flag through the lock before each. Reads of the lock are
one step, since no reader holds it across anything that waits.

**AngularAxis.** Whole degrees, and segment positions in quarters up to the
extrapolation cap of 1.5. `Rem` is Rust's `%`. What an interpolation rounds away
here the code keeps as a fraction; both endpoints are exact in either.

**PositionAxis.** Times are whole milliseconds and segment positions thousandths,
rounded down where the code keeps a fraction; positions are whole units, which
stand for any length. Progress is kept as the time travelled on the segment,
since its interval does not change under way, and divided where the code
divides. The smoother's exponential is abstracted to its bounds: after a frame
it is nearer its target, by anything from one unit to all of the way. A frame with no
sample is one action, a sample another; several frames of no length make a burst
of datagrams between two ticks. What rounding takes away never decides a
property: the bounds that are checked are on whole units, and the fade is exact
at both of its ends.

**RenderHooks.** The init thread's `at` and `step` walk `InstallOrder`, with
`HookProgram` for the three steps of `install_hook`. Creating and enabling may
fail; the slot's filling fails only where it is full, which never happens, since
each install runs once, and the check at the head is left out for the same
reason. The game thread runs meanwhile: `stack` holds the draw calls it is in,
with the renderer as each call found it, which stands for the locals the detours
save. A call made before its hook was enabled keeps `detoured = FALSE` to its end.
A mesh is drawn in a scene, and `cleanScene` is the scene whose matrices the
camera detour kept, so `CleanMatrices` looks up by scene as `clean_scene` does; whose view they
are is kept in `CameraFrame`, which draws nothing and needs no scenes. Game and
render thread are one here: `RETICLE_DRAW` is thread-local, and the draws the
detours pair run on the thread that set it.

**WindowPlacement.** One action per outcome of a check; `See(elapsed)` is what a
check that reaches the placement has in common. `since` is the phase's instant,
told as the time since. The window's thread applies or refuses queued moves when
it likes; the player and the game disturb the window. What a window looks like,
its work area included, is one `layout`, as in the code, so a change of layout
may be a taskbar that moved. Two histories carry the properties: `asked` counts
the moves asked for since the layout or how the window is shown last changed, and
`ours` says that the mod and not the player has the last word on where the window
lands.

### Bounds

| bound | value | why it is enough |
|---|---|---|
| `MaxDatagrams` | 2 | two to be torn or repeated, with resets between them; all but `SettlesOnLastPose` is proved for any number |
| `Datagrams` | three poses from two senders | between two of them both groups change, one of them does, or none, and the sender changes or not |
| `AgeCap` | 2 | one more than the clock may be behind; saturating |
| `Actors` | two controllers (one in the gap run) | a change of controller and a return |
| `LateCap` | 2 | one more than the property allows |
| `SliceMs`, `RetryIntervalMs` | 100, 500 | the code's own constants |
| `Samples` | 19 angles | both sides of the seam and of zero, beyond a turn either way; the proofs hold for any integers |
| `MaxLines` | 4 | a header, a value, another header or value, and one that undoes it; the proof holds for files of any length |
| `Samples`, `LimitBelow`, `LimitAbove` of `PositionAxis` | 0 and 6; 1 and 4 | a swing beyond both limits once a prediction overshoots; the proofs hold for any |
| `Frames` | 0, 50, 100 ms | no time between two samples, an ordinary slow frame and MAX_FRAME_DT; sums reach the hold and the decay exactly; the proofs hold for any up to 100 |
| `SinceCap` | 700 ms | beyond hold and decay (600 ms) and beyond any gap the interval's clamp tells apart |
| `TravelledCap` | 300 ms | the extrapolation cap on the longest interval, 1.5 x 200 ms |
| `MaxDepth` | 2 | a draw inside a primitive inside a primitive; the proofs hold for any |
| `Scenes` | two | the scene of the view that was posed and another; the proofs hold for any |
| `Layouts`, `Places` | two, two | a window that fits its work area, and one that does not fit another, on a monitor with a negative corner; the place of either is out of the other's reach or off its centre; the proofs hold for any |
| `Elapsed` | 0.1 s, 0.6 s | a check in time, and one after a stall longer than the wait for rest; the proofs hold for any |
| `MaxDisturbances` | 2 | a change while settling and another while moving; safety is proved for any number |
| `TimeCap` | 2.1 s | beyond both waits; clocks saturate |

But for `MaxLines`, `TrackingModes` needs no bounds, and `Lifecycle` none: their
state is finite.

## 3. The runs

| run | shows |
|---|---|
| `PoseChannel` | `FreshSample`: a tick never uses a value older than the counter it read. `Healed`: once the receiver rests and a tick has seen the counter, both groups aim at the last pose, whatever was torn. `StallClockRuns`: repeats do not restart the stall clock, the other group neither. `CellsFromAccepted`: discarded datagrams leave no trace, the remote flag included. `SettlesOnLastPose`: after the tracker goes quiet, ticks return to its last pose through any number of resets. `ImplementsPoseFeed`: refinement of `PoseFeed`. |
| `CameraFrame` | `NoFrameTimeAcrossPause`, `FreshAfterToggle`. `LeanNotCarried`: no contact outlasts a view of another controller, one paused or without a pawn, or one built with tracking off from begin to end; a view the toggle overtakes between the reset and the gate is exempt, since it does leave the contact. `OverlaysMatchView`: the compass data and the crosshair come and go together and belong to the last view. And `OffSettles`: views stop being posed when tracking is left off. `ViewsAreAtomic`: refinement of `AtomicViews`, so no toggle leaves half a view. |
| `CameraFrameGap` | violation, see the findings |
| `TrackingModes` | `ViewPosesInMode`, `NextStartResumes` over failing saves, deaths, edits of the files and restarts. `ReadsLastSetting`: the reader's one pass agrees with a definition of what a file means by line numbers. `LegacyNotSuperseded`: beside a legacy file `CameraUnlock.ini` comes into being only from a text that was read, with the player's yaw mode; one that cannot be read is never taken for none. `ImplementsPreferences`: refinement of `Preferences`. |
| `LegacyUnusable` | violation, see the findings |
| `Lifecycle` | `EndsOnlyWhenTold`, `ShutdownEndsReceiver`, `ExitCompletes`, `UnloadCompletes`, `PortLeftTrackingBack`; `NoStepInVain`: a receiver that is told to stop is at most three of its steps from its end, and one that waits for a free port comes nearer to it with each |
| `LifecycleRetry`, `LifecyclePoller` | violations, see the findings |
| `AngularAxis` | `TakesShorterArc`, `ArrivesWhereReported` |
| `PositionAxis` | `LearnsSteadyRate`: bursts and the default interval leave no trace in a steady feed's interval. `HoldsPrediction`, `FadesToReported`: a late sample does not pull the camera back, a missing one lets the prediction expire. `OvershootBounded`: predictions do not add up. `NoWindUp`: the output leaves a limit as soon as the head does. |
| `RenderHooks` | `DetoursFindOriginals`: an enabled hook has every cell its detour unwraps, also one whose own enabling failed and that a later install enabled. `CompleteOrLogged`: a hook that does not run is of a group whose error was logged. `OnlyCrosshairMoves`: nested draws, also across the enabling of a hook. `CompassInOwnScene`: clean matrices reach draws in the scene of the last posed view, and are set inside those draws only. `EachCallRestores`: a call at any depth leaves the renderer as it found it. |
| `WindowPlacement` | `MovedOnlyAtRest`. `OneMovePerLayout`: one move until the player changes the layout or how the window is shown, however he drags it; after such a change the same layout may be moved again. `TitleBarReachable`: a window the mod placed comes to rest within reach in the layout it then has, however late its moves and those for earlier layouts are applied. `PlacedOrGivenUp`: a window left alone ends confirmed or given up, even if its thread never applies the move. `EachStepAdvances`: every check and every late move leaves less to do, so centring cannot go round in circles. |

Each property of a passing run has a mutant in `PROJECT.json`: an operator
beside the one it replaces that changes it as a plausible slip in that code
would, and for which TLC finds the property violated.

Type invariants are not among the runs' properties: `TypeOK` is proved in every
module that has one, for all values of the constants, and each proof of the
other invariants rests on it. Four more invariants are proved and in no run,
since a run checks something that says more: `RendererAsFound` is what
`EachCallRestores` gives for the outermost call, `OneLateCall` what
`NoStepInVain` gives for the receiver's socket calls, `FileNamesMode` what
`ImplementsPreferences` gives for the mode the file keeps, and where the mirrors
do not agree (`MirrorsAgree`) a view that begins there is not posed in the mode
of `ViewPosesInMode`; the mirror of the enabled flag, which that property does
not read, is the theorem's alone.

`Lifecycle` is checked without deadlock checking, since the process really
ends. Everywhere else a deadlock would be an error.

### Fairness

| module | assumed | because |
|---|---|---|
| `PoseChannel` | weak fairness of the tick and of the receiver's stores | the game keeps rendering frames; stores do not block |
| `CameraFrame` | weak fairness of a view's steps and of the toggle's reset | the engine builds views all the time; `PIPELINE` is held for one tick at most |
| `WindowPlacement` | weak fairness of `Present` | the game goes on presenting; nothing is asked of the window's thread |
| `Lifecycle` | weak fairness of the loader and of a key action's end, strong fairness of those who wait for `GLOBAL_STATE` | every thread is scheduled, and parking_lot's `RwLock` hands itself over fairly, so no one starves while others come and go |

Never assumed: that a tracker sends, a key is pressed, a port is left, a DLL is
unloaded or a process exits.

### Findings

1. `CameraFrameGap`. A view that has passed the gate when tracking goes off
   ticks after the toggle's reset and leaves its instant in `last_frame`. The
   toggle back on stores the flag before it resets (tracking.rs 161, 166), and a
   view that ticks in between measures the whole time off. The comments at
   smoothing.rs 531-532 and tracking.rs 162-165 say that the reset prevents
   this. The effect is one frame of 0.1 s, the clamp of smoothing.rs 458.
2. `LifecycleRetry`. opentrack.rs 206-207 says the bind is retried every 5 s;
   the constant is 500 ms.
3. `LifecyclePoller`. lib.rs 280 says that shutdown stops the threads; the
   hotkey poller is never stopped, on purpose by config_owner.cpp 241-243.
4. `LegacyUnusable`. For a value it cannot use the legacy reader warns "using
   default" (legacy_config/mod.rs 100, 111, 122, 133) and leaves the setting as
   it is: after an earlier usable line of the same key that is not the default.
   `ReadsLastSetting` states what the code does.

## 4. The proofs

`PoseChannelProofs`, for every set of datagrams and every bound:

- `TypeCorrect`, from the step-by-step `TypeNext`.
- `Inductive`: the invariant the rest follows from. `FreshSample` is not
  inductive: it says nothing of cells not loaded yet, nor of what the receiver
  has stored. `IInv` adds them. `Rank` gives a cell its place in both program
  orders. `WriterInv`: the receiver's position decides from which datagram each
  cell is, the last accepted before the position and the one before that after
  it, and the counter is one behind exactly while it is publishing.
  `ReaderInv`: the tick's position decides which loaded values are as new as its
  counter, and no loaded value is newer than its cell. `SegmentInv`: between
  ticks each group's target is the last raw value of that group.
- `TicksAreFresh`, `TornReadsHeal`, `CellsComeFromAccepted`: `[]FreshSample`,
  `[]Healed`, `[]CellsFromAccepted`.
- `StallClockAlwaysRuns`: `[]StallClockRuns`, which relates two counts of ticks
  and needs to know why a repeat is not taken for a change. `ChangeInv`: while
  no datagram that changes a group is on its way out, memory agrees with the
  last datagram in that group, torn as memory may be, and so does what a tick
  has loaded since the counter moved. `SeenInv`: once the counter has been seen,
  such a group is up to date in the duplicate filter. `RestInv`: a tick counts
  for a group only if it loads what the filter has, so it cannot restart the
  clock.
- `ChannelImplementsFeed`: the refinement that TLC checks too,
  with the counter as `published`, the last counter seen as `started` and the
  datagram of each loaded cell as `used`.

`AngularAxisProofs`, for every set of integer angles: the helpers bring any
angle onto the circle and by whole turns only (`NormalizeOntoCircle`,
`NormalizeByTurns`), the difference is the shortest (`DeltaIsShortest`), a full
segment arrives (`InterpolateArrives`), and with them `AxisTypes`,
`AxisTakesShorterArc` and `AxisArrives` for every behaviour of an axis.

`RenderHooksProofs`, for any nesting of draws: `DetoursAlwaysFindOriginals`,
`AlwaysCompleteOrLogged`, `OnlyCrosshairAlwaysMoves`, `CompassAlwaysInOwnScene`,
`RendererAlwaysAsFound`, `CallsAlwaysRestore` and `TypeCorrect`. None of the
properties is inductive. `PlaceInv` says where the init thread can be, `CellsInv` that hooks are created only once what they need is
prepared and have their slot from the next step on, `PassedInv` that a hook
behind `at` runs or its group has failed. For the draws `Nested` speaks of the
whole stack: each call found the renderer that the call below it makes
(`Entered`), and the crosshair flag at each depth is that of the innermost
detoured primitive. A push and a pop keep both (`PushNested`, `PopNested`), a
hook that becomes enabled in between concerns neither, and with an empty stack
the renderer is what the first call found. `SceneInv` adds that a call at any
depth found clean matrices set exactly if one of the calls below set them, so a
return takes away no more than its own. What a call takes back when it
returns is exactly what it did (`LeaveRestores`), which is the action property.

`CameraFrameProofs`, for any set of controllers: `NeverFrameTimeAcrossPause`,
`AlwaysFreshAfterToggle`, `LeanNeverCarried`, `OverlaysAlwaysMatchView`. The
invariant says for each place of a view what the checks on the way there have
left in the statics: `ViewInv` that they describe the view under way, `LeanInv`
whose contact can be left, `PauseInv` that a pause is known until the pipeline
has been reset, `OverlayInv` that past the gate the clean matrices are the
view's own. `ViewsAlwaysAtomic`: of a view's steps one is the abstract view, the
gate, whether it lets the view past or not; the rest are stutters, and so is the
toggle but for the store of the flag.

`TrackingModesProofs`, for legacy files of any length. `MirrorInv`: the mirrors
lag the state by exactly the stores still to come (`ToStore`). `ViewInv`: what a
view that overlaps no change has read is still so. `ResumeInv`: the file has what
the session has, but for a save that is due or was lost. With them
`MirrorsAlwaysAgree`, `ViewsPoseInMode`, `FileAlwaysNamesMode`,
`NextStartAlwaysResumes` and `LegacyNeverSuperseded`, which rests on what the
reader's state means, since the file is made of it. `AlwaysReadsLastSetting`
needs no induction over the file: one more line changes the last header and the
last setting line in a known way, so the reader's state stays what the file
means (`ReaderInv`). `SessionImplementsPreferences` maps each hotkey's step under
the lock to a choice, each save to what it keeps or to nothing, a death to the
end of the session, and the end of a start to its beginning, with the four
outcomes of a load as cases; the rows mean the mode and the yaw mode apart, so a
save of one keeps the other.

`LifecycleProofs`: `AtMostOneLateCall`, `AlwaysEndsOnlyWhenTold`. `LateInv` says
that after a late call the receiver is at a place where the flag is read before
the next one; `LockInv` gives each holder of `GLOBAL_STATE` its section of code;
`StartInv` that no thread runs before the one that starts it.
`ReceiverNeverInVain`: each step of the receiver lowers `StepsLeft`, its distance
from its end or, until it is told, from the port.

`PositionAxisProofs`, for any samples, frame times and limits:
`AlwaysLearnsSteadyRate`, `AlwaysFadesToReported`, `NeverWindsUp` from `IInv`;
`AlwaysHoldsPrediction` and `OvershootAlwaysBounded` from lemmas about the operators: the fade is monotone, a segment position moves
towards the end as the silence lasts and never crosses it, and what is shown is
monotone in that position. `OvershootBounded` is strengthened to `StartsBounded`,
which bounds where a segment starts: half a segment beyond its end, from a start
as far out as the bound allows, is again within the bound.

`WindowPlacementProofs`, for all layouts, places, gaps between checks and any
number of disturbances: `TypeCorrect`, `MovesOnlyAtRest`, `MovesOncePerLayout`,
`TitleBarStaysReachable` and `PlacementAlwaysAdvances`. `MovedOnlyAtRest` looks
at the past wait when a move is asked for; `SettlingInv` carries it there: while settling, the placement
holds what the last check saw, for no longer than that has been so.
`AskedInv`: once a move has been asked for, the placement is past the wait until
the layout or how the window is shown changes. `LandingInv`: a window whose place
is the mod's lands on the centred place of the layout it has, since a move for
another layout is never the last in the queue unless the player has meanwhile
taken over. `CenteredInReach` is the arithmetic of `centered_position`.
`PlacementAlwaysAdvances` has a case for each outcome of a check: each lowers
`LeftToDo` in the order of words, or ends the placement.

The two action properties with a measure are what can be proved of liveness
here: `NoStepInVain` is the safety half of `ShutdownEndsReceiver` and `PortLeftTrackingBack`, `EachStepAdvances` that of
`PlacedOrGivenUp`. What is left of each is that the steps are taken, which is the
fairness assumed above, and that a measure cannot fall for ever, which is an
induction. TLC checks the properties themselves.

They rest on the named assumptions of the modules alone (`DatagramsAssumption`,
`BoundsAssumption`, `ActorsAssumption`, `SamplesAssumption`, `FramesAssumption`,
`LimitsAssumption`,
`MaxLinesAssumption`, `DepthAssumption`, `NoneAssumption`, `LayoutsAssumption`,
`PlacesAssumption`, `TimeAssumption`), which TLC evaluates on every run.

Every invariant and every action property of a passing run is a theorem, and so
are the three refinements. Model-checked only: the liveness properties
`SettlesOnLastPose`, `OffSettles`, `ShutdownEndsReceiver`, `ExitCompletes`,
`UnloadCompletes`, `PortLeftTrackingBack` and `PlacedOrGivenUp`. Liveness under
fairness and `ENABLED` are out of the prover's reach, and so is what a recursive
definition computes for every input, since the induction theorems take an
operator the provers cannot instantiate; no module here uses `RECURSIVE`.

## 5. Not modelled

- The bytes of a datagram, the Headcam trailer (only logged), log lines and
  their latches, the splitting of a settings line into key and value.
- Floating point: the smoother's exponential, projections, rotations, the lean
  clamp's geometry and the choice of a box or a ray for its query. Their control
  is in `CameraFrame`, and what the exponential may do in `PositionAxis`.
- The two settings of smoothing and which of them a tick takes: a value read
  afresh in each tick, with no state of its own.
- Render-hook discovery (`rtti.rs`, most of `memory.rs`): scans of the game's
  image, a pure function of bytes. `RenderHooks` takes it as found or not.
- What unmapping the DLL does to threads that still run in it (lib.rs 295): it
  is the loader's, and no state of the mod tells it.
- The XInput exports, the conformance harness, build and packaging scripts.

## 6. What could follow

- The lean clamp's query (`engine_hook.rs`), box or ray by stance, and its
  contact over several views, against an abstract clamp.
- The fold of `LegacyConfig` for all four keys, should the reader ever differ
  between them.
