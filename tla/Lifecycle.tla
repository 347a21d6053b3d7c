------------------------------ MODULE Lifecycle ------------------------------
(***************************************************************************)
(* The threads of the mod from DLL attach to unload or process exit, and   *)
(* the UDP receiver's waiting, binding and receiving in between.           *)
(*                                                                         *)
(* DllMain (src/src/lib.rs) loads the real XInput and spawns the init      *)
(* thread, which applies the startup state, spawns the receiver and starts *)
(* the hotkey poller.  Unloading the DLL sets shutdown_requested under the *)
(* GLOBAL_STATE write lock; process exit stops every other thread where it *)
(* stands first.  The receiver (src/src/opentrack.rs) keeps trying to bind *)
(* while another process holds the port, and reads the shutdown flag       *)
(* through the same lock before every wait.                                *)
(*                                                                         *)
(* GLOBAL_STATE is held across steps by writers only: a read is one step.  *)
(* The XInput loader, the port, the socket and the poller thread are the   *)
(* environment's.  Unloading is modelled up to DllMain's return; the pages *)
(* the threads run from stay mapped.                                       *)
(***************************************************************************)
EXTENDS Naturals

\* Milliseconds: BIND_RETRY_INTERVAL_MS and the slice the wait is cut into.
RetryIntervalMs == 500
SliceMs == 100
Slices == RetryIntervalMs \div SliceMs

LateCap == 2   \* bound: binds and receives counted after the shutdown signal

VARIABLES
  phase,         \* where the DLL is: see Phases
  lock,          \* who holds GLOBAL_STATE for writing
  shutdown,      \* shutdown_requested
  ipc,           \* the init thread's next step
  kpc,           \* the hotkey thread: not started, polling or in an action
  rpc,           \* the receiver thread's next step
  slept,         \* slices slept since the last failed bind
  port,          \* who has the UDP port
  \* history
  late,          \* binds and receives that returned after the signal
  deaf           \* set_read_timeout failed

vars == <<phase, lock, shutdown, ipc, kpc, rpc, slept, port, late, deaf>>

Phases == {"attaching", "rejected", "loaded", "detaching", "signalling", "detached",
           "exiting", "exited"}
Bound == {"timeout", "check", "recv", "backoff"}

TypeOK ==
  /\ phase \in Phases
  /\ lock \in {"free", "init", "hotkey", "dll"}
  /\ shutdown \in BOOLEAN
  /\ ipc \in {"none", "config", "startup", "apply", "receiver", "hotkeys", "done"}
  /\ kpc \in {"none", "polling", "acting"}
  /\ rpc \in {"none", "bind", "slice", "rebind", "ended"} \cup Bound
  /\ slept \in 0 .. Slices
  /\ port \in {"free", "other", "ours"}
  /\ late \in 0 .. LateCap
  /\ deaf \in BOOLEAN
  /\ port = "ours" <=> rpc \in Bound

Init ==
  /\ phase = "attaching"
  /\ lock = "free"
  /\ shutdown = FALSE
  /\ ipc = "none"
  /\ kpc = "none"
  /\ rpc = "none"
  /\ slept = 0
  /\ port \in {"free", "other"}
  /\ late = 0
  /\ deaf = FALSE

\* Process exit has stopped every thread but the one in DllMain.
Running == phase \in {"loaded", "detaching", "signalling", "detached"}

-----------------------------------------------------------------------------
(* DllMain                                                                 *)

\* PROCESS_ATTACH, with the real XInput found.
Attach ==
  /\ phase = "attaching"
  /\ phase' = "loaded"
  /\ ipc' = "config"
  /\ UNCHANGED <<lock, shutdown, kpc, rpc, slept, port, late, deaf>>

\* PROCESS_ATTACH, without it: the loader drops the DLL.
Reject ==
  /\ phase = "attaching"
  /\ phase' = "rejected"
  /\ UNCHANGED <<lock, shutdown, ipc, kpc, rpc, slept, port, late, deaf>>

\* PROCESS_DETACH with a null `reserved`.
Unload ==
  /\ phase = "loaded"
  /\ phase' = "detaching"
  /\ UNCHANGED <<lock, shutdown, ipc, kpc, rpc, slept, port, late, deaf>>

\* shutdown_mod takes the write lock.
ShutdownLock ==
  /\ phase = "detaching"
  /\ lock = "free"
  /\ lock' = "dll"
  /\ phase' = "signalling"
  /\ UNCHANGED <<shutdown, ipc, kpc, rpc, slept, port, late, deaf>>

\* shutdown_mod sets the flag and releases it.
ShutdownSignal ==
  /\ phase = "signalling"
  /\ phase' = "detached"
  /\ lock' = "free"
  /\ shutdown' = TRUE
  /\ UNCHANGED <<ipc, kpc, rpc, slept, port, late, deaf>>

\* The process exits: its other threads stop wherever they stand.
Exit ==
  /\ phase = "loaded"
  /\ phase' = "exiting"
  /\ UNCHANGED <<lock, shutdown, ipc, kpc, rpc, slept, port, late, deaf>>

\* Mutant: process exit signals the threads as an unload does.
ExitDetachSignals ==
  /\ phase = "exiting"
  /\ lock = "free"
  /\ phase' = "exited"
  /\ shutdown' = TRUE
  /\ UNCHANGED <<lock, ipc, kpc, rpc, slept, port, late, deaf>>

\* PROCESS_DETACH with a non-null `reserved`: nothing is touched.
ExitDetach ==
  /\ phase = "exiting"
  /\ phase' = "exited"
  /\ UNCHANGED <<lock, shutdown, ipc, kpc, rpc, slept, port, late, deaf>>

-----------------------------------------------------------------------------
(* Init thread                                                             *)

\* init_logging and config::load.
LoadConfig ==
  /\ Running
  /\ ipc = "config"
  /\ ipc' = "startup"
  /\ UNCHANGED <<phase, lock, shutdown, kpc, rpc, slept, port, late, deaf>>

\* apply_startup takes the write lock.
StartupLock ==
  /\ Running
  /\ ipc = "startup"
  /\ lock = "free"
  /\ lock' = "init"
  /\ ipc' = "apply"
  /\ UNCHANGED <<phase, shutdown, kpc, rpc, slept, port, late, deaf>>

\* Mutant: apply_startup starts from a fresh TrackingState.
ApplyStartupFresh ==
  /\ Running
  /\ ipc = "apply"
  /\ ipc' = "receiver"
  /\ lock' = "free"
  /\ shutdown' = FALSE
  /\ UNCHANGED <<phase, kpc, rpc, slept, port, late, deaf>>

\* apply_startup sets its four fields, not the flag, and releases the lock.
ApplyStartup ==
  /\ Running
  /\ ipc = "apply"
  /\ ipc' = "receiver"
  /\ lock' = "free"
  /\ UNCHANGED <<phase, shutdown, kpc, rpc, slept, port, late, deaf>>

StartReceiver ==
  /\ Running
  /\ ipc = "receiver"
  /\ ipc' = "hotkeys"
  /\ rpc' = "bind"
  /\ UNCHANGED <<phase, lock, shutdown, kpc, slept, port, late, deaf>>

\* hotkeys::start, then the hooks, which no other thread here waits for.
StartHotkeys ==
  /\ Running
  /\ ipc = "hotkeys"
  /\ ipc' = "done"
  /\ kpc' = "polling"
  /\ UNCHANGED <<phase, lock, shutdown, rpc, slept, port, late, deaf>>

-----------------------------------------------------------------------------
(* Hotkey thread: each action runs under the write lock                    *)

PressKey ==
  /\ Running
  /\ kpc = "polling"
  /\ lock = "free"
  /\ lock' = "hotkey"
  /\ kpc' = "acting"
  /\ UNCHANGED <<phase, shutdown, ipc, rpc, slept, port, late, deaf>>

\* Mutant: an action saves before it unlocks, which needs the loader lock.
FinishKeySaves ==
  /\ Running
  /\ kpc = "acting"
  /\ phase # "detaching"
  /\ lock' = "free"
  /\ kpc' = "polling"
  /\ UNCHANGED <<phase, shutdown, ipc, rpc, slept, port, late, deaf>>

FinishKey ==
  /\ Running
  /\ kpc = "acting"
  /\ lock' = "free"
  /\ kpc' = "polling"
  /\ UNCHANGED <<phase, shutdown, ipc, rpc, slept, port, late, deaf>>

-----------------------------------------------------------------------------
(* Receiver thread                                                         *)

\* A bind or a receive returns.
SocketCall(from, to) ==
  /\ Running
  /\ rpc = from
  /\ rpc' = to
  /\ late' = IF shutdown /\ late < LateCap THEN late + 1 ELSE late
  /\ UNCHANGED <<phase, lock, shutdown, ipc, kpc>>

\* UdpSocket::bind, the first attempt or a retry, gets the port.
BindOk ==
  /\ port = "free"
  /\ \E from \in {"bind", "rebind"} : SocketCall(from, "timeout")
  /\ port' = "ours"
  /\ slept' = 0
  /\ UNCHANGED deaf

\* Mutant: a receiver that cannot bind at once gives up.
BindFailsGivesUp ==
  /\ port = "other"
  /\ \E from \in {"bind", "rebind"} : SocketCall(from, "ended")
  /\ slept' = 0
  /\ UNCHANGED <<port, deaf>>

\* UdpSocket::bind finds the port taken.
BindFails ==
  /\ port = "other"
  /\ \E from \in {"bind", "rebind"} : SocketCall(from, "slice")
  /\ slept' = 0
  /\ UNCHANGED <<port, deaf>>

\* Mutant: the wait starts over without another bind.
SliceForever ==
  /\ Running
  /\ rpc = "slice"
  /\ lock = "free"
  /\ ~shutdown
  /\ slept' = (slept + 1) % Slices
  /\ UNCHANGED <<phase, lock, shutdown, ipc, kpc, rpc, port, late, deaf>>

\* Mutant: the flag is read before the first slice alone.
SliceReadsOnce ==
  /\ Running
  /\ rpc = "slice"
  /\ slept = 0 => lock = "free" /\ ~shutdown
  /\ slept' = slept + 1
  /\ rpc' = IF slept + 1 = Slices THEN "rebind" ELSE "slice"
  /\ UNCHANGED <<phase, lock, shutdown, ipc, kpc, port, late, deaf>>

\* The flag is read, and a slice slept, until the interval is over.
Slice ==
  /\ Running
  /\ rpc = "slice"
  /\ lock = "free"
  /\ ~shutdown
  /\ slept' = slept + 1
  /\ rpc' = IF slept + 1 = Slices THEN "rebind" ELSE "slice"
  /\ UNCHANGED <<phase, lock, shutdown, ipc, kpc, port, late, deaf>>

SetReadTimeout ==
  /\ Running
  /\ rpc = "timeout"
  /\ rpc' = "check"
  /\ UNCHANGED <<phase, lock, shutdown, ipc, kpc, slept, port, late, deaf>>

\* The thread returns, and the socket closes.
SetReadTimeoutFails ==
  /\ Running
  /\ rpc = "timeout"
  /\ rpc' = "ended"
  /\ port' = "free"
  /\ deaf' = TRUE
  /\ UNCHANGED <<phase, lock, shutdown, ipc, kpc, slept, late>>

\* The shutdown flag at the head of receive_loop.
CheckShutdown ==
  /\ Running
  /\ rpc = "check"
  /\ lock = "free"
  /\ ~shutdown
  /\ rpc' = "recv"
  /\ UNCHANGED <<phase, lock, shutdown, ipc, kpc, slept, port, late, deaf>>

\* recv_from returns: a datagram, accepted or not, or the read timeout.
Receive ==
  /\ SocketCall("recv", "check")
  /\ UNCHANGED <<slept, port, deaf>>

\* recv_from returns any other error.
ReceiveFails ==
  /\ SocketCall("recv", "backoff")
  /\ UNCHANGED <<slept, port, deaf>>

Backoff ==
  /\ Running
  /\ rpc = "backoff"
  /\ rpc' = "check"
  /\ UNCHANGED <<phase, lock, shutdown, ipc, kpc, slept, port, late, deaf>>

\* The flag is set as the loop, or the wait for the port, reads it.
StopReceiver ==
  /\ Running
  /\ rpc \in {"slice", "check"}
  /\ lock = "free"
  /\ shutdown
  /\ rpc' = "ended"
  /\ port' = IF port = "ours" THEN "free" ELSE port
  /\ UNCHANGED <<phase, lock, shutdown, ipc, kpc, slept, late, deaf>>

-----------------------------------------------------------------------------
(* Other processes                                                         *)

TakePort ==
  /\ port = "free"
  /\ port' = "other"
  /\ UNCHANGED <<phase, lock, shutdown, ipc, kpc, rpc, slept, late, deaf>>

LeavePort ==
  /\ port = "other"
  /\ port' = "free"
  /\ UNCHANGED <<phase, lock, shutdown, ipc, kpc, rpc, slept, late, deaf>>

-----------------------------------------------------------------------------

DllDetach == ShutdownLock \/ ShutdownSignal \/ ExitDetach
DllMain == Attach \/ Reject \/ Unload \/ Exit \/ DllDetach
InitThread == LoadConfig \/ StartupLock \/ ApplyStartup \/ StartReceiver \/ StartHotkeys
HotkeyThread == PressKey \/ FinishKey
ReceiverThread ==
  \/ BindOk \/ BindFails \/ Slice \/ SetReadTimeout \/ SetReadTimeoutFails
  \/ CheckShutdown \/ Receive \/ ReceiveFails \/ Backoff \/ StopReceiver
OtherProcesses == TakePort \/ LeavePort

Next == DllMain \/ InitThread \/ HotkeyThread \/ ReceiverThread \/ OtherProcesses

Spec == Init /\ [][Next]_vars

\* The loader and every running thread make progress, and whoever waits for
\* GLOBAL_STATE gets it: parking_lot's RwLock hands itself over fairly.  No key
\* is pressed and no DLL unloaded of necessity.
FairSpec ==
  /\ Spec
  /\ WF_vars(Attach \/ Reject)
  /\ SF_vars(DllDetach)
  /\ SF_vars(InitThread)
  /\ WF_vars(FinishKey)
  /\ SF_vars(ReceiverThread)

-----------------------------------------------------------------------------
(* Properties                                                              *)

\* After the shutdown signal the receiver completes at most the bind or the
\* receive it was about to make, whatever the tracker sends: neither a datagram
\* nor an error nor a failed bind gets a second one past the flag
\* (opentrack.rs 45-47, 248-253, 285-288).
OneLateCall == late <= 1

\* The receiver gives up only when told to, or when the socket refuses a read
\* timeout: neither a taken port nor a receive error ends tracking for the
\* session (opentrack.rs 206-222, 348-357).
EndsOnlyWhenTold == rpc = "ended" => (shutdown \/ deaf)

\* An unload ends the receiver from any state, an unload before the receiver or
\* even the init thread's startup included (lib.rs 281-283, 302-304).
ShutdownEndsReceiver == shutdown ~> rpc = "ended"

\* Process exit gets through DllMain, whichever thread was stopped inside the
\* GLOBAL_STATE lock (lib.rs 299-304).
ExitCompletes == phase = "exiting" ~> phase = "exited"

\* An unload gets through DllMain although hotkeys go on taking the lock.
UnloadCompletes == phase = "detaching" ~> phase = "detached"

\* Closing the program that holds the port brings tracking to life without a
\* restart of the game (opentrack.rs 208-210).
PortLeftTrackingBack ==
  <>[](port # "other") =>
    <>(rpc \in Bound \cup {"ended"} \/ phase \in {"rejected", "exiting"})

\* The steps the receiver has left: to its end once told, to the port until then.
StepsLeft ==
  CASE rpc = "ended" -> 0
    [] shutdown /\ rpc \in {"slice", "check"} -> 1
    [] shutdown /\ rpc \in {"backoff", "timeout"} -> 2
    [] shutdown /\ rpc \in {"none", "bind", "rebind", "recv"} -> 3
    [] ~shutdown /\ rpc = "slice" -> 1 + Slices - slept
    [] ~shutdown /\ rpc \in {"none", "bind", "rebind"} -> 1
    [] OTHER -> 0

\* Once told to stop, the receiver is at most three of its own steps from its end,
\* in the middle of a wait for the port too, and goes back to no bind, receive or
\* wait it has left; before that each step it takes while nobody else holds the
\* port brings it nearer to having it (opentrack.rs 208-253, 285-288).
NoStepInVain ==
  [][ReceiverThread /\ (shutdown \/ (port # "other" /\ rpc \notin Bound)) =>
       StepsLeft' < StepsLeft]_vars

\* "If another process is holding the port, it retries every 5s"
\* (opentrack.rs 206-207).
RetriesEvery5s == rpc = "rebind" => slept * SliceMs = 5000

\* "Shutdown the mod: stop threads, cleanup" (lib.rs 280).
ShutdownStopsThreads == shutdown ~> (rpc = "ended" /\ kpc = "none")

=============================================================================
