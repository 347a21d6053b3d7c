----------------------------- MODULE PoseChannel -----------------------------
(***************************************************************************)
(* How a tracker datagram reaches the head-tracking pipeline.              *)
(*                                                                         *)
(* The UDP receiver thread publishes each accepted datagram through eight  *)
(* separate atomic stores (src/src/opentrack.rs receive_loop): the remote  *)
(* flag, yaw, pitch, roll, x, y, z, then the sample-sequence counter.  The *)
(* game thread ticks the smoothing pipeline once per frame                 *)
(* (src/src/smoothing.rs tick_with_dt) under the PIPELINE mutex, loading   *)
(* the counter first and the cells after it, and hands the interpolators a *)
(* new sample only when the counter moved AND the values differ from the   *)
(* last datagram's.  The hotkey thread and a pause change reset the        *)
(* pipeline between ticks.                                                 *)
(*                                                                         *)
(* Each atomic access is one step.  The writer only stores (Release) and   *)
(* the reader only loads (Acquire), both in program order, so the steps    *)
(* interleave as under sequential consistency.                             *)
(*                                                                         *)
(* A stored value carries the number of the datagram it came from, which   *)
(* the code does not keep: it is what staleness is measured against.       *)
(***************************************************************************)
EXTENDS Integers, Sequences

CONSTANTS
  Datagrams,      \* well-formed datagrams: functions from Cells to Int
  MaxDatagrams,   \* bound: datagrams accepted in a behaviour
  AgeCap,         \* bound: ages and tick counts saturate here
  NoSample        \* None, for the last raw sample and an unseeded segment

Cells == {"remote", "yaw", "pitch", "roll", "x", "y", "z"}
Groups == {"rot", "pos"}

ASSUME DatagramsAssumption ==
  /\ Datagrams \subseteq [Cells -> Int]
  /\ \A d \in Datagrams : d["remote"] \in {0, 1}
ASSUME BoundsAssumption ==
  /\ MaxDatagrams \in Nat
  /\ AgeCap \in Nat \ {0}

\* Mutant: the counter is bumped between the rotation and the position.
WriterProgramEarlyBump ==
  <<"remote", "yaw", "pitch", "roll", "seq", "x", "y", "z">>

\* Program order of receive_loop for an accepted datagram.
WriterProgram == <<"remote", "yaw", "pitch", "roll", "x", "y", "z", "seq">>

\* Mutant: the counter is read after the values.
ReaderProgramLateSeq == <<"remote", "yaw", "pitch", "roll", "x", "y", "z", "seq">>

\* Program order of tick_with_dt.
ReaderProgram == <<"seq", "remote", "yaw", "pitch", "roll", "x", "y", "z">>

\* The statics before any datagram: zero pose, not remote.
ZeroDatagram == [c \in Cells |-> 0]

Stored(val, from) == [val |-> val, from |-> from]

\* A group of loaded cells as the tuple the pipeline compares and feeds on.
\* get_position_atomic turns OpenTrack's frame into (right, up, forward).
Raw(g, m) ==
  IF g = "rot" THEN <<m["yaw"], m["pitch"], m["roll"]>>
               ELSE <<-m["x"], m["y"], -m["z"]>>

\* The values of a set of loaded cells.
Values(m) == [c \in Cells |-> m[c].val]

Capped(n) == IF n > AgeCap THEN AgeCap ELSE n

Older(n) == Capped(n + 1)

VARIABLES
  \* the statics
  mem,        \* per cell, the stored value and the datagram it came from
  seq,        \* ATOMIC_SAMPLE_SEQ
  \* receiver thread
  wpc,        \* 0: blocked in recv_from; k: about to do WriterProgram[k]
  dgram,      \* the last datagram that decoded
  accepted,   \* how many were accepted
  \* pipeline, owned by whoever holds PIPELINE
  rpc,        \* 1: unlocked; k: about to do ReaderProgram[k]; 9: about to feed
  got,        \* cells as loaded by the running tick, or by the one before
  lastSeen,   \* last_seen_seq
  isNew,      \* is_new_packet
  lastRaw,    \* last_raw_rot and last_raw_pos, NoSample when None
  target,     \* per group, `to` of its three interpolators, NoSample if unseeded
  age,        \* per group, time_since_last_sample in ticks
  \* history
  turning,    \* per group, the datagram being published changes it
  steady,     \* per group, the running tick started with the group at rest
  quiet       \* per group, ticks started and finished since it last changed

receiverVars == <<wpc, dgram, accepted>>
pipelineVars == <<rpc, got, lastSeen, isNew, lastRaw, target, age>>
historyVars == <<turning, steady, quiet>>
vars == <<mem, seq, receiverVars, pipelineVars, historyVars>>

TypeOK ==
  /\ mem \in [Cells -> [val : Int, from : Nat]]
  /\ seq \in Nat
  /\ wpc \in 0 .. 8
  /\ dgram \in [Cells -> Int]
  /\ accepted \in Nat
  /\ rpc \in 1 .. 9
  /\ got \in [Cells -> [val : Int, from : Nat]]
  /\ lastSeen \in Nat
  /\ isNew \in BOOLEAN
  /\ lastRaw \in [Groups -> (Int \X Int \X Int) \cup {NoSample}]
  /\ target \in [Groups -> (Int \X Int \X Int) \cup {NoSample}]
  /\ age \in [Groups -> 0 .. AgeCap]
  /\ turning \in [Groups -> BOOLEAN]
  /\ steady \in [Groups -> BOOLEAN]
  /\ quiet \in [Groups -> 0 .. AgeCap]

Init ==
  /\ mem = [c \in Cells |-> Stored(0, 0)]
  /\ seq = 0
  /\ wpc = 0
  /\ dgram = ZeroDatagram
  /\ accepted = 0
  /\ rpc = 1
  /\ got = [c \in Cells |-> Stored(0, 0)]
  /\ lastSeen = 0
  /\ isNew = FALSE
  /\ lastRaw = [g \in Groups |-> NoSample]
  /\ target = [g \in Groups |-> NoSample]
  /\ age = [g \in Groups |-> 0]
  /\ turning = [g \in Groups |-> FALSE]
  /\ steady = [g \in Groups |-> FALSE]
  /\ quiet = [g \in Groups |-> 0]

-----------------------------------------------------------------------------
(* Receiver thread                                                         *)

\* Mutant: the sender's flag is stored before the datagram is decoded.
DiscardAfterFlag ==
  /\ wpc = 0
  /\ \E remote \in {0, 1} :
       mem' = [mem EXCEPT !["remote"] = Stored(remote, accepted)]
  /\ UNCHANGED <<seq, receiverVars, pipelineVars, historyVars>>

\* A datagram is dropped whole when it is short or has a field that is not
\* finite as an f32.
Discard ==
  /\ wpc = 0
  /\ UNCHANGED vars

\* recv_from returns a datagram that decodes.
Accept(d) ==
  /\ wpc = 0
  /\ accepted < MaxDatagrams
  /\ dgram' = d
  /\ accepted' = accepted + 1
  /\ wpc' = 1
  /\ turning' = [g \in Groups |-> accepted = 0 \/ Raw(g, d) # Raw(g, dgram)]
  /\ steady' = [g \in Groups |-> steady[g] /\ ~turning'[g]]
  /\ quiet' = [g \in Groups |-> IF turning'[g] THEN 0 ELSE quiet[g]]
  /\ UNCHANGED <<mem, seq, pipelineVars>>

\* The next store of the accepted datagram, in program order.
StoreCell ==
  /\ wpc # 0
  /\ WriterProgram[wpc] # "seq"
  /\ mem' = [mem EXCEPT ![WriterProgram[wpc]] =
               Stored(dgram[WriterProgram[wpc]], accepted)]
  /\ wpc' = (wpc + 1) % 9
  /\ UNCHANGED <<seq, dgram, accepted, pipelineVars, historyVars>>

\* fetch_add on the sample-sequence counter.
BumpSeq ==
  /\ wpc # 0
  /\ WriterProgram[wpc] = "seq"
  /\ seq' = seq + 1
  /\ wpc' = (wpc + 1) % 9
  /\ turning' = [g \in Groups |-> FALSE]
  /\ UNCHANGED <<mem, dgram, accepted, pipelineVars, steady, quiet>>

-----------------------------------------------------------------------------
(* Game thread, inside tick_with_dt with PIPELINE locked                   *)

\* Locks PIPELINE; compares the counter with the last one seen and keeps it.
LoadSeq ==
  /\ rpc < 9
  /\ ReaderProgram[rpc] = "seq"
  /\ isNew' = (seq # lastSeen)
  /\ lastSeen' = seq
  /\ rpc' = rpc + 1
  /\ steady' = [g \in Groups |-> ~turning[g]]
  /\ UNCHANGED <<mem, seq, receiverVars, got, lastRaw, target, age, turning, quiet>>

\* The next cell load, in program order.
LoadCell ==
  /\ rpc < 9
  /\ ReaderProgram[rpc] # "seq"
  /\ got' = [got EXCEPT ![ReaderProgram[rpc]] = mem[ReaderProgram[rpc]]]
  /\ rpc' = rpc + 1
  /\ UNCHANGED <<mem, seq, receiverVars, lastSeen, isNew, lastRaw, target, age,
                 historyVars>>

\* Mutant: every new packet is a new sample.
IsNewSampleEveryPacket(g) == isNew

\* The duplicate filter: a group has a new sample when the packet is new and
\* its values differ from the ones the last packet carried.
IsNewSample(g) == isNew /\ lastRaw[g] # Raw(g, Values(got))

\* The tick feeds its samples to the interpolators and unlocks PIPELINE.
Feed ==
  /\ rpc = 9
  /\ lastRaw' = [g \in Groups |-> IF isNew THEN Raw(g, Values(got))
                                             ELSE lastRaw[g]]
  /\ target' = [g \in Groups |-> IF IsNewSample(g) THEN Raw(g, Values(got))
                                                  ELSE target[g]]
  /\ age' = [g \in Groups |-> IF IsNewSample(g) THEN 0 ELSE Older(age[g])]
  /\ rpc' = 1
  /\ isNew' = FALSE
  /\ quiet' = [g \in Groups |-> IF steady[g] THEN Older(quiet[g]) ELSE quiet[g]]
  /\ steady' = [g \in Groups |-> FALSE]
  /\ UNCHANGED <<mem, seq, receiverVars, got, lastSeen, turning>>

\* Mutant: the reset keeps the duplicate filter's last values.
ResetKeepsLastRaw ==
  /\ rpc = 1
  /\ lastSeen' = 0
  /\ target' = [g \in Groups |-> NoSample]
  /\ age' = [g \in Groups |-> 0]
  /\ quiet' = [g \in Groups |-> 0]
  /\ UNCHANGED <<mem, seq, receiverVars, rpc, got, isNew, lastRaw, turning, steady>>

\* smoothing::reset, from the toggle hotkey or a pause change.
Reset ==
  /\ rpc = 1
  /\ lastSeen' = 0
  /\ lastRaw' = [g \in Groups |-> NoSample]
  /\ target' = [g \in Groups |-> NoSample]
  /\ age' = [g \in Groups |-> 0]
  /\ quiet' = [g \in Groups |-> 0]
  /\ UNCHANGED <<mem, seq, receiverVars, rpc, got, isNew, turning, steady>>

-----------------------------------------------------------------------------

Receiver ==
  \/ Discard
  \/ \E d \in Datagrams : Accept(d)
  \/ StoreCell
  \/ BumpSeq

Tick == LoadSeq \/ LoadCell \/ Feed

Next == Receiver \/ Tick \/ Reset

Spec == Init /\ [][Next]_vars

\* The game keeps rendering frames, and the receiver, once it has accepted a
\* datagram, runs to the counter bump without blocking.  Nothing obliges a
\* tracker to send or a player to press a key.
FairSpec == Spec /\ WF_vars(Tick) /\ WF_vars(StoreCell) /\ WF_vars(BumpSeq)

-----------------------------------------------------------------------------
(* Properties                                                              *)

\* Every cell a tick has loaded is at least as new as the sequence number it
\* started from.  This is what the counter bump after the value writes is for
\* (opentrack.rs 313-318), and it covers the flag that picks the smoothing.
FreshSample ==
  \A k \in 2 .. rpc - 1 : got[ReaderProgram[k]].from >= lastSeen

\* Torn reads heal.  Once the receiver is idle and the last tick started at the
\* current counter, both groups' segments aim at exactly the last datagram,
\* however its stores interleaved with earlier ticks and whatever resets came
\* between (smoothing.rs 476-510).
Healed ==
  (wpc = 0 /\ rpc = 1 /\ seq > 0 /\ lastSeen = seq) =>
    \A g \in Groups : target[g] = Raw(g, dgram)

\* The stall clock of a group runs whenever the tracker reports the group
\* unchanged, however many datagrams repeat it and whatever the other group
\* does, so the extrapolation can expire (smoothing.rs 492-506).
StallClockRuns ==
  \A g \in Groups : age[g] + 1 >= quiet[g]

\* A malformed datagram selects nothing and moves nothing: every cell holds
\* what the accepted datagram it is tagged with carried (opentrack.rs 292-297).
CellsFromAccepted ==
  \A c \in Cells :
    /\ mem[c].from \in {accepted, accepted - 1}
    /\ mem[c].from = accepted => mem[c].val = IF accepted = 0 THEN 0 ELSE dgram[c]

\* When the tracker goes quiet after at least one pose, ticks keep bringing
\* the segments to that pose, even if the player resets the pipeline over and
\* over: no reset leaves it waiting for a pose that will not be resent.
SettlesOnLastPose ==
  <>[](wpc = 0 /\ seq > 0) =>
    []<>(\A g \in Groups : target[g] = Raw(g, dgram))

\* The statics implement the abstract feed: a tick never runs backwards in any
\* cell and never uses a value older than the counter it started from.
Feeds == INSTANCE PoseFeed WITH
  published <- seq,
  started <- lastSeen,
  used <- [c \in Cells |-> got[c].from]

ImplementsPoseFeed == Feeds!FeedSpec

=============================================================================
