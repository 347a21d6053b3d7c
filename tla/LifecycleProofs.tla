--------------------------- MODULE LifecycleProofs ---------------------------
(***************************************************************************)
(* The threads' safety, over any lifetime of the DLL.                      *)
(*                                                                         *)
(* The receiver reads the flag before each call it makes, so the count of  *)
(* late calls is decided by where the receiver stood at the signal.        *)
(***************************************************************************)
EXTENDS Lifecycle, TLAPS

\* No late call without the signal, and after one the receiver is at a place
\* where the flag is read before the next.
LateInv ==
  /\ late \in 0 .. 1
  /\ late > 0 => shutdown
  /\ late > 0 => rpc \notin {"none", "bind", "rebind", "recv"}

\* GLOBAL_STATE is held by whoever is in the section of code that holds it.
LockInv ==
  /\ lock = "dll" <=> phase = "signalling"
  /\ lock = "init" <=> ipc = "apply"
  /\ lock = "hotkey" <=> kpc = "acting"

\* The wait is over with its last slice.
WaitInv == rpc = "slice" => slept < Slices

\* No thread runs before the one that starts it.
StartInv ==
  /\ ipc \in {"none", "config", "startup", "apply", "receiver"} => rpc = "none"
  /\ ipc # "done" => kpc = "none"
  /\ phase \in {"attaching", "rejected"} => ipc = "none"

IInv == TypeOK /\ LateInv /\ LockInv /\ WaitInv /\ StartInv /\ EndsOnlyWhenTold

LEMMA InitInv == Init => IInv
<1>1. Slices = 5
  BY DEF Slices, RetryIntervalMs, SliceMs
<1>2. Init => TypeOK
  <2> SUFFICES ASSUME Init PROVE TypeOK
    OBVIOUS
  <2>1. phase \in Phases /\ rpc \notin Bound /\ port # "ours" /\ port \in {"free", "other", "ours"}
    BY DEF Init, Phases, Bound
  <2>2. slept \in 0 .. Slices /\ late \in 0 .. LateCap
    BY <1>1 DEF Init, LateCap
  <2> QED
    BY <2>1, <2>2 DEF Init, TypeOK
<1> QED
  BY <1>2 DEF Init, IInv, LateInv, LockInv, WaitInv, StartInv, EndsOnlyWhenTold

\* A step of the receiver that makes no call.
LEMMA ReceiverMoves ==
  ASSUME IInv, UNCHANGED <<phase, lock, shutdown, ipc, kpc, late>>, rpc # "none",
         rpc' \in {"rebind", "slice", "check", "recv", "ended"},
         rpc' \in {"rebind", "recv"} => ~shutdown,
         rpc' = "ended" => shutdown \/ deaf',
         slept' \in 0 .. Slices, rpc' = "slice" => slept' < Slices,
         port' \in {"free", "other", "ours"}, deaf' \in BOOLEAN,
         deaf => deaf', port' = "ours" <=> rpc' \in Bound
  PROVE  IInv'
BY DEF IInv, TypeOK, LateInv, LockInv, WaitInv, StartInv, EndsOnlyWhenTold, Bound

\* A call that returns leads to a place where the flag is read.
LEMMA CallReturns ==
  ASSUME IInv, NEW from \in {"bind", "rebind", "recv"}, NEW to \in {"timeout", "slice", "check", "backoff"},
         SocketCall(from, to), UNCHANGED deaf,
         slept' \in 0 .. Slices, to = "slice" => slept' < Slices,
         port' \in {"free", "other", "ours"}, port' = "ours" <=> to \in Bound
  PROVE  IInv'
<1>1. late = 0
  BY DEF IInv, TypeOK, LateInv, SocketCall, LateCap
<1>2. late' \in 0 .. 1 /\ (late' > 0 => shutdown)
  BY <1>1 DEF SocketCall
<1> QED
  BY <1>2
  DEF IInv, TypeOK, LateInv, LockInv, WaitInv, StartInv, EndsOnlyWhenTold, SocketCall, LateCap, Bound

LEMMA NextInv == IInv /\ [Next]_vars => IInv'
<1> SUFFICES ASSUME IInv, [Next]_vars PROVE IInv'
  OBVIOUS
<1>0. Slices = 5 /\ slept \in 0 .. 5
  BY DEF IInv, TypeOK, Slices, RetryIntervalMs, SliceMs
<1>1. CASE DllMain
  <2>1. CASE Attach
    BY <2>1
    DEF Attach, IInv, TypeOK, Phases, LateInv, LockInv, WaitInv, StartInv, EndsOnlyWhenTold
  <2>2. CASE Reject \/ Unload \/ Exit \/ ExitDetach
    BY <2>2
    DEF Reject, Unload, Exit, ExitDetach, IInv, TypeOK, Phases, LateInv, LockInv, WaitInv,
        StartInv, EndsOnlyWhenTold
  <2>3. CASE ShutdownLock
    BY <2>3
    DEF ShutdownLock, IInv, TypeOK, Phases, LateInv, LockInv, WaitInv, StartInv,
        EndsOnlyWhenTold
  <2>4. CASE ShutdownSignal
    BY <2>4
    DEF ShutdownSignal, IInv, TypeOK, Phases, LateInv, LockInv, WaitInv, StartInv,
        EndsOnlyWhenTold
  <2> QED
    BY <1>1, <2>1, <2>2, <2>3, <2>4 DEF DllMain, DllDetach
<1>2. CASE InitThread
  <2>1. CASE StartReceiver
    BY <2>1 DEF StartReceiver, IInv, TypeOK, LateInv, LockInv, WaitInv, StartInv, EndsOnlyWhenTold, Bound
  <2>2. CASE LoadConfig \/ StartupLock \/ ApplyStartup \/ StartHotkeys
    BY <2>2
    DEF LoadConfig, StartupLock, ApplyStartup, StartHotkeys, IInv, TypeOK, LateInv, LockInv,
        WaitInv, StartInv, EndsOnlyWhenTold
  <2> QED
    BY <1>2, <2>1, <2>2 DEF InitThread
<1>3. CASE HotkeyThread
  BY <1>3
  DEF HotkeyThread, PressKey, FinishKey, IInv, TypeOK, LateInv, LockInv, WaitInv, StartInv,
      EndsOnlyWhenTold
<1>4. CASE BindOk
  <2>1. PICK from \in {"bind", "rebind"} : SocketCall(from, "timeout")
    BY <1>4 DEF BindOk
  <2> QED
    BY <1>0, <1>4, <2>1, CallReturns DEF BindOk, Bound
<1>5. CASE BindFails
  <2>1. PICK from \in {"bind", "rebind"} : SocketCall(from, "slice")
    BY <1>5 DEF BindFails
  <2> QED
    BY <1>0, <1>5, <2>1, CallReturns DEF BindFails, Bound
<1>6. CASE Receive \/ ReceiveFails
  <2>1. PICK to \in {"check", "backoff"} : SocketCall("recv", to) /\ UNCHANGED <<slept, port, deaf>>
    BY <1>6 DEF Receive, ReceiveFails
  <2>2. rpc = "recv" /\ port = "ours"
    BY <2>1 DEF SocketCall, IInv, TypeOK, Bound
  <2> QED
    BY <1>0, <2>1, <2>2, CallReturns DEF Bound
<1>7. CASE Slice
  <2>1. rpc = "slice" /\ port # "ours" /\ slept < Slices
    BY <1>7 DEF Slice, IInv, TypeOK, WaitInv, Bound
  <2> QED
    BY <1>0, <1>7, <2>1, ReceiverMoves DEF Slice, Bound, IInv, TypeOK
<1>8. CASE SetReadTimeout \/ SetReadTimeoutFails \/ CheckShutdown \/ Backoff \/ StopReceiver
  BY <1>0, <1>8, ReceiverMoves
  DEF SetReadTimeout, SetReadTimeoutFails, CheckShutdown, Backoff, StopReceiver, Bound, IInv, TypeOK
<1>9. CASE OtherProcesses
  BY <1>9
  DEF OtherProcesses, TakePort, LeavePort, IInv, TypeOK, LateInv, LockInv, WaitInv, StartInv,
      EndsOnlyWhenTold
<1>10. CASE UNCHANGED vars
  BY <1>10 DEF vars, IInv, TypeOK, LateInv, LockInv, WaitInv, StartInv, EndsOnlyWhenTold
<1> QED
  BY <1>1, <1>2, <1>3, <1>4, <1>5, <1>6, <1>7, <1>8, <1>9, <1>10 DEF Next, ReceiverThread

-----------------------------------------------------------------------------

\* The invariant of the threads.
THEOREM Inductive == Spec => []IInv
BY InitInv, NextInv, PTL DEF Spec

\* The threads' places, the lock and the port keep their types, and the port is
\* ours exactly while the receiver holds a socket (opentrack.rs 214-288).
THEOREM TypeCorrect == Spec => []TypeOK
<1>1. IInv => TypeOK
  BY DEF IInv
<1> QED
  BY Inductive, <1>1, PTL

\* The receiver completes at most one bind or receive after the signal
\* (opentrack.rs 45-47, 248-253, 285-288).
THEOREM AtMostOneLateCall == Spec => []OneLateCall
<1>1. ASSUME IInv PROVE OneLateCall
  BY <1>1 DEF IInv, OneLateCall, LateInv
<1> QED
  BY Inductive, <1>1, PTL

\* The receiver ends only when told to, or without a read timeout
\* (opentrack.rs 206-222, 348-357).
THEOREM AlwaysEndsOnlyWhenTold == Spec => []EndsOnlyWhenTold
<1>1. IInv => EndsOnlyWhenTold
  BY DEF IInv
<1> QED
  BY Inductive, <1>1, PTL

\* A step of the receiver once it has been told.
LEMMA ToldStepAdvances ==
  ASSUME IInv, ReceiverThread, shutdown
  PROVE  StepsLeft' < StepsLeft
<1>1. shutdown'
  BY DEF ReceiverThread, BindOk, BindFails, Slice, SetReadTimeout, SetReadTimeoutFails,
         CheckShutdown, Receive, ReceiveFails, Backoff, StopReceiver, SocketCall
<1>2. CASE BindOk \/ BindFails
  <2>1. rpc \in {"bind", "rebind"} /\ rpc' \in {"timeout", "slice"}
    BY <1>2 DEF BindOk, BindFails, SocketCall
  <2> QED
    BY <1>1, <2>1 DEF StepsLeft
<1>3. CASE Receive \/ ReceiveFails
  <2>1. rpc = "recv" /\ rpc' \in {"check", "backoff"}
    BY <1>3 DEF Receive, ReceiveFails, SocketCall
  <2> QED
    BY <1>1, <2>1 DEF StepsLeft
<1>4. CASE SetReadTimeout \/ SetReadTimeoutFails \/ Backoff
  <2>1. rpc \in {"timeout", "backoff"} /\ rpc' \in {"check", "ended"}
    BY <1>4 DEF SetReadTimeout, SetReadTimeoutFails, Backoff
  <2> QED
    BY <1>1, <2>1 DEF StepsLeft
<1>5. CASE StopReceiver
  <2>1. rpc \in {"slice", "check"} /\ rpc' = "ended"
    BY <1>5 DEF StopReceiver
  <2> QED
    BY <1>1, <2>1 DEF StepsLeft
<1>6. CASE Slice \/ CheckShutdown
  BY <1>6 DEF Slice, CheckShutdown
<1> QED
  BY <1>2, <1>3, <1>4, <1>5, <1>6 DEF ReceiverThread

\* A step of the receiver towards a port that can be had.
LEMMA BindingStepAdvances ==
  ASSUME IInv, ReceiverThread, ~shutdown, port # "other", rpc \notin Bound
  PROVE  StepsLeft' < StepsLeft
<1>1. CASE BindOk
  <2>1. rpc \in {"bind", "rebind"} /\ rpc' = "timeout" /\ ~shutdown'
    BY <1>1 DEF BindOk, SocketCall
  <2> QED
    BY <2>1 DEF StepsLeft
<1>2. CASE Slice
  <2>1. /\ rpc = "slice" /\ ~shutdown' /\ slept' = slept + 1
        /\ rpc' = IF slept + 1 = Slices THEN "rebind" ELSE "slice"
    BY <1>2 DEF Slice
  <2>2. Slices = 5 /\ slept \in 0 .. 5 /\ slept < 5
    BY <2>1 DEF IInv, TypeOK, WaitInv, Slices, RetryIntervalMs, SliceMs
  <2>3. CASE slept + 1 = Slices
    BY <2>1, <2>2, <2>3 DEF StepsLeft
  <2>4. CASE slept + 1 # Slices
    <3>1. StepsLeft = 1 + Slices - slept /\ StepsLeft' = 1 + Slices - (slept + 1)
      BY <2>1, <2>4 DEF StepsLeft
    <3> QED
      BY <2>2, <3>1
  <2> QED
    BY <2>3, <2>4
<1> QED
  BY <1>1, <1>2
  DEF ReceiverThread, BindFails, SetReadTimeout, SetReadTimeoutFails, CheckShutdown, Receive,
      ReceiveFails, Backoff, StopReceiver, SocketCall, Bound

\* Once told to stop, the receiver is never further from its end than three of its
\* own steps, and while nobody else holds the port no wait starts over: whatever
\* keeps it running ends it or gives it the port (opentrack.rs 208-253, 285-288).
THEOREM ReceiverNeverInVain == Spec => NoStepInVain
<1>1. ASSUME IInv, [Next]_vars
      PROVE  [ReceiverThread /\ (shutdown \/ (port # "other" /\ rpc \notin Bound)) =>
                StepsLeft' < StepsLeft]_vars
  BY <1>1, ToldStepAdvances, BindingStepAdvances
<1> QED
  BY <1>1, Inductive, PTL DEF Spec, NoStepInVain

=============================================================================
