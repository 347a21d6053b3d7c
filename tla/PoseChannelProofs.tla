-------------------------- MODULE PoseChannelProofs --------------------------
(***************************************************************************)
(* What PoseChannel guarantees for every set of datagrams and every bound. *)
(*                                                                         *)
(* The invariant follows the two program orders.  Rank gives each cell its *)
(* place in them: the receiver stores a cell before the next one and the   *)
(* counter last, a tick reads the counter first and the cells after it.    *)
(***************************************************************************)
EXTENDS PoseChannel, TLAPS

Rank == [remote |-> 1, yaw |-> 2, pitch |-> 3, roll |-> 4, x |-> 5, y |-> 6, z |-> 7]

LEMMA RankType == \A c \in Cells : Rank[c] \in Nat /\ 1 <= Rank[c] /\ Rank[c] <= 7
BY DEF Cells, Rank

LEMMA RankInjective == \A c, d \in Cells : Rank[c] = Rank[d] => c = d
BY DEF Cells, Rank

\* A program's steps, one by one.
LEMMA Steps ==
  ASSUME NEW k \in 1 .. 8
  PROVE  k = 1 \/ k = 2 \/ k = 3 \/ k = 4 \/ k = 5 \/ k = 6 \/ k = 7 \/ k = 8
OBVIOUS

\* A counter that steps past k passes no other number.
LEMMA PassesOne ==
  ASSUME NEW r \in Nat, NEW k \in Nat, r # k
  PROVE  r < k + 1 <=> r < k
OBVIOUS

\* The receiver stores the cells in the order of their ranks, then bumps.
LEMMA WriterOrder ==
  ASSUME NEW k \in 1 .. 8
  PROVE  /\ WriterProgram[k] = "seq" <=> k = 8
         /\ k # 8 => WriterProgram[k] \in Cells /\ Rank[WriterProgram[k]] = k
BY Steps DEF WriterProgram, Cells, Rank

\* No store before the bump wraps the program around.
LEMMA NoWrap ==
  ASSUME NEW k \in 1 .. 7
  PROVE  (k + 1) % 9 = k + 1
OBVIOUS

\* A tick reads the counter, then loads the cells in the order of their ranks.
LEMMA ReaderOrder ==
  ASSUME NEW k \in 1 .. 8
  PROVE  /\ ReaderProgram[k] = "seq" <=> k = 1
         /\ k # 1 => ReaderProgram[k] \in Cells /\ Rank[ReaderProgram[k]] = k - 1
BY Steps DEF ReaderProgram, Cells, Rank

\* A group of cells is a triple of integers.
LEMMA RawType ==
  ASSUME NEW g \in Groups, NEW m \in [Cells -> Int]
  PROVE  Raw(g, m) \in Int \X Int \X Int
BY DEF Raw, Cells

\* The values a tick has loaded are a function from cells to integers.
LEMMA ValuesType ==
  ASSUME NEW m \in [Cells -> [val : Int, from : Nat]]
  PROVE  /\ Values(m) \in [Cells -> Int]
         /\ \A c \in Cells : Values(m)[c] = m[c].val
BY DEF Values

\* An age is capped.
LEMMA OlderType ==
  ASSUME NEW n \in 0 .. AgeCap
  PROVE  Older(n) \in 0 .. AgeCap
BY BoundsAssumption DEF Older, Capped

-----------------------------------------------------------------------------
(* Types                                                                   *)

\* The types are inductive on their own.
LEMMA TypeInit == Init => TypeOK
<1> SUFFICES ASSUME Init PROVE TypeOK
  OBVIOUS
<1> USE DEF Init
<1>1. 0 \in 0 .. AgeCap
  BY BoundsAssumption
<1>2. [c \in Cells |-> Stored(0, 0)] \in [Cells -> [val : Int, from : Nat]]
  BY DEF Stored
<1>3. dgram \in [Cells -> Int]
  BY DEF ZeroDatagram
<1>4. /\ age \in [Groups -> 0 .. AgeCap]
      /\ quiet \in [Groups -> 0 .. AgeCap]
  BY <1>1
<1>5. lastRaw \in [Groups -> (Int \X Int \X Int) \cup {NoSample}]
  OBVIOUS
<1>6. target \in [Groups -> (Int \X Int \X Int) \cup {NoSample}]
  OBVIOUS
<1>7. /\ turning \in [Groups -> BOOLEAN]
      /\ steady \in [Groups -> BOOLEAN]
  OBVIOUS
<1>8. mem \in [Cells -> [val : Int, from : Nat]] /\ got \in [Cells -> [val : Int, from : Nat]]
  BY <1>2
<1>9. seq \in Nat /\ wpc \in 0 .. 8 /\ accepted \in Nat /\ rpc \in 1 .. 9 /\ lastSeen \in Nat
  OBVIOUS
<1>10. isNew \in BOOLEAN
  OBVIOUS
<1> QED
  BY <1>3, <1>4, <1>5, <1>6, <1>7, <1>8, <1>9, <1>10 DEF TypeOK

LEMMA TypeNext == TypeOK /\ [Next]_vars => TypeOK'
<1> SUFFICES ASSUME TypeOK, [Next]_vars PROVE TypeOK'
  OBVIOUS
<1> USE DEF TypeOK
<1>1. CASE Discard
  BY <1>1 DEF Discard, vars, receiverVars, pipelineVars, historyVars
<1>2. ASSUME NEW d \in Datagrams, Accept(d) PROVE TypeOK'
  <2>1. d \in [Cells -> Int]
    BY DatagramsAssumption
  <2>2. turning' \in [Groups -> BOOLEAN]
    BY <1>2 DEF Accept
  <2>3. steady' \in [Groups -> BOOLEAN]
    BY <1>2, <2>2 DEF Accept
  <2>4. quiet' \in [Groups -> 0 .. AgeCap]
    BY <1>2, <2>2, BoundsAssumption DEF Accept
  <2> QED
    BY <1>2, <2>1, <2>2, <2>3, <2>4 DEF Accept, pipelineVars
<1>3. CASE StoreCell
  <2> DEFINE c == WriterProgram[wpc]
  <2>1. wpc \in 1 .. 7 /\ c \in Cells
    BY <1>3, WriterOrder DEF StoreCell
  <2>2. Stored(dgram[c], accepted) \in [val : Int, from : Nat]
    BY <2>1 DEF Stored
  <2>3. mem' \in [Cells -> [val : Int, from : Nat]]
    BY <1>3, <2>1, <2>2 DEF StoreCell
  <2>4. wpc' \in 0 .. 8
    BY <1>3, <2>1 DEF StoreCell
  <2> QED
    BY <1>3, <2>3, <2>4 DEF StoreCell, pipelineVars, historyVars
<1>4. CASE BumpSeq
  BY <1>4 DEF BumpSeq, pipelineVars
<1>5. CASE LoadSeq
  BY <1>5 DEF LoadSeq, receiverVars
<1>6. CASE LoadCell
  <2>1. rpc \in 2 .. 8 /\ ReaderProgram[rpc] \in Cells
    BY <1>6, ReaderOrder DEF LoadCell
  <2>2. got' \in [Cells -> [val : Int, from : Nat]]
    BY <1>6, <2>1 DEF LoadCell
  <2> QED
    BY <1>6, <2>1, <2>2 DEF LoadCell, receiverVars, historyVars
<1>7. CASE Feed
  <2>1. \A g \in Groups : Raw(g, Values(got)) \in Int \X Int \X Int
    BY ValuesType, RawType
  <2>2. \A g \in Groups : Older(age[g]) \in 0 .. AgeCap /\ Older(quiet[g]) \in 0 .. AgeCap
    BY OlderType
  <2>3. lastRaw' \in [Groups -> (Int \X Int \X Int) \cup {NoSample}]
    BY <1>7, <2>1 DEF Feed
  <2>4. target' \in [Groups -> (Int \X Int \X Int) \cup {NoSample}]
    BY <1>7, <2>1 DEF Feed
  <2>5. age' \in [Groups -> 0 .. AgeCap]
    BY <1>7, <2>2, BoundsAssumption DEF Feed
  <2>6. quiet' \in [Groups -> 0 .. AgeCap]
    BY <1>7, <2>2 DEF Feed
  <2>7. steady' \in [Groups -> BOOLEAN] /\ turning' \in [Groups -> BOOLEAN]
    BY <1>7 DEF Feed
  <2>8. /\ mem' \in [Cells -> [val : Int, from : Nat]]
        /\ got' \in [Cells -> [val : Int, from : Nat]]
        /\ dgram' \in [Cells -> Int]
    BY <1>7 DEF Feed, receiverVars
  <2>9. seq' \in Nat /\ wpc' \in 0 .. 8 /\ accepted' \in Nat /\ rpc' \in 1 .. 9 /\ lastSeen' \in Nat
    BY <1>7 DEF Feed, receiverVars
  <2>10. isNew' \in BOOLEAN
    BY <1>7 DEF Feed
  <2> QED
    BY <2>3, <2>4, <2>5, <2>6, <2>7, <2>8, <2>9, <2>10
<1>8. CASE Reset
  <2>1. 0 \in 0 .. AgeCap
    BY BoundsAssumption
  <2>2. age' \in [Groups -> 0 .. AgeCap] /\ quiet' \in [Groups -> 0 .. AgeCap]
    BY <1>8, <2>1 DEF Reset
  <2>3. lastRaw' \in [Groups -> (Int \X Int \X Int) \cup {NoSample}]
    BY <1>8 DEF Reset
  <2>4. target' \in [Groups -> (Int \X Int \X Int) \cup {NoSample}]
    BY <1>8 DEF Reset
  <2> QED
    BY <1>8, <2>2, <2>3, <2>4 DEF Reset, receiverVars
<1>9. CASE UNCHANGED vars
  BY <1>9 DEF vars, receiverVars, pipelineVars, historyVars
<1> QED
  BY <1>1, <1>2, <1>3, <1>4, <1>5, <1>6, <1>7, <1>8, <1>9 DEF Next, Receiver, Tick

\* Every behaviour keeps to the types: cells carry integers and the number of
\* an accepted datagram, and no count goes below zero or past its cap.
THEOREM TypeCorrect == Spec => []TypeOK
<1>1. Init => TypeOK
  BY TypeInit
<1>2. TypeOK /\ [Next]_vars => TypeOK'
  BY TypeNext
<1> QED
  BY <1>1, <1>2, PTL DEF Spec

-----------------------------------------------------------------------------
(* The inductive invariant                                                 *)

\* The statics hold a prefix of the datagram being published over the datagram
\* before it, and the counter is behind by one exactly while there is a prefix.
WriterInv ==
  /\ accepted = seq + (IF wpc = 0 THEN 0 ELSE 1)
  /\ accepted = 0 => dgram = ZeroDatagram
  /\ \A c \in Cells :
       /\ mem[c].from = IF wpc # 0 /\ Rank[c] < wpc THEN accepted ELSE seq
       /\ mem[c].from = accepted => mem[c].val = dgram[c]

\* A tick is behind the counter, holds no cell newer than memory, and has loaded
\* no cell older than the counter it read.
ReaderInv ==
  /\ lastSeen <= seq
  /\ \A c \in Cells :
       /\ got[c].from <= mem[c].from
       /\ got[c].from = mem[c].from => got[c].val = mem[c].val
       /\ Rank[c] + 1 < rpc => got[c].from >= lastSeen

\* The segment aims at the values the duplicate filter holds, and those are the
\* last datagram's once a tick has started from its sequence number.
SegmentInv ==
  \A g \in Groups :
    /\ target[g] = lastRaw[g]
    /\ (wpc = 0 /\ seq > 0 /\ lastSeen = seq /\ (rpc = 1 \/ ~isNew)) =>
         lastRaw[g] = Raw(g, dgram)

IInv == TypeOK /\ WriterInv /\ ReaderInv /\ SegmentInv

\* Groups of equal cells are equal.
LEMMA RawEqual ==
  ASSUME NEW g \in Groups, NEW m, NEW n, \A c \in Cells : m[c] = n[c]
  PROVE  Raw(g, m) = Raw(g, n)
BY DEF Raw, Cells

LEMMA InvInit == Init => IInv
<1> SUFFICES ASSUME Init PROVE IInv
  OBVIOUS
<1>1. TypeOK
  BY TypeInit
<1>2. \A c \in Cells : mem[c].val = 0 /\ mem[c].from = 0 /\ got[c].val = 0 /\ got[c].from = 0
  BY DEF Init, Stored
<1>3. WriterInv
  BY <1>2 DEF Init, WriterInv, ZeroDatagram
<1>4. ReaderInv
  BY <1>2 DEF Init, ReaderInv
<1>5. SegmentInv
  BY DEF Init, SegmentInv
<1> QED
  BY <1>1, <1>3, <1>4, <1>5 DEF IInv

\* Only the receiver disturbs the statics.
LEMMA WriterNext ==
  ASSUME IInv, [Next]_vars
  PROVE  WriterInv'
<1> USE DEF IInv, TypeOK, WriterInv
<1>1. CASE \/ Discard \/ LoadSeq \/ LoadCell \/ Feed \/ Reset \/ UNCHANGED vars
  BY <1>1 DEF Discard, LoadSeq, LoadCell, Feed, Reset, vars, receiverVars
<1>2. ASSUME NEW d \in Datagrams, Accept(d) PROVE WriterInv'
  <2>1. \A c \in Cells : mem[c].from = seq /\ ~(Rank[c] < 1)
    BY <1>2, RankType DEF Accept
  <2>2. mem' = mem /\ seq' = seq /\ wpc' = 1 /\ accepted' = seq + 1
    BY <1>2 DEF Accept
  <2> QED
    BY <2>1, <2>2
<1>3. CASE StoreCell
  <2> DEFINE s == WriterProgram[wpc]
  <2>1. wpc \in 1 .. 7 /\ s \in Cells /\ Rank[s] = wpc
    BY <1>3, WriterOrder DEF StoreCell
  <2>2. /\ mem'[s].from = accepted
        /\ mem'[s].val = dgram[s]
        /\ \A c \in Cells \ {s} : mem'[c] = mem[c]
    BY <1>3, <2>1 DEF StoreCell, Stored
  <2>3. wpc' = wpc + 1 /\ seq' = seq /\ dgram' = dgram /\ accepted' = accepted
    <3>1. (wpc + 1) % 9 = wpc + 1
      BY <2>1, NoWrap
    <3> QED
      BY <1>3, <3>1 DEF StoreCell
  <2>4. \A c \in Cells : Rank[c] \in Nat /\ (c # s => Rank[c] # wpc)
    BY <2>1, RankType, RankInjective
  <2>5. ASSUME NEW c \in Cells
        PROVE  /\ mem'[c].from = IF wpc' # 0 /\ Rank[c] < wpc' THEN accepted' ELSE seq'
               /\ mem'[c].from = accepted' => mem'[c].val = dgram'[c]
    <3>1. CASE c = s
      <4>1. mem'[c].from = accepted' /\ mem'[c].val = dgram'[c]
        BY <3>1, <2>2, <2>3
      <4>2. Rank[c] < wpc' /\ wpc' # 0
        BY <3>1, <2>1, <2>3
      <4> QED
        BY <4>1, <4>2
    <3>2. CASE c # s
      <4>1. mem'[c] = mem[c]
        BY <3>2, <2>2
      <4>2. Rank[c] < wpc' <=> Rank[c] < wpc
        <5>1. Rank[c] \in Nat /\ Rank[c] # wpc
          BY <3>2, <2>4
        <5>2. wpc \in Nat
          OBVIOUS
        <5> QED
          BY ONLY <5>1, <5>2, <2>3, PassesOne
      <4>3. wpc # 0 /\ wpc' # 0
        BY <2>1, <2>3
      <4> QED
        BY <2>3, <4>1, <4>2, <4>3
    <3> QED
      BY <3>1, <3>2
  <2>6. accepted' = seq' + (IF wpc' = 0 THEN 0 ELSE 1) /\ (accepted' = 0 => dgram' = ZeroDatagram)
    BY <2>1, <2>3
  <2> QED
    BY <2>5, <2>6
<1>4. CASE BumpSeq
  <2>1. wpc = 8
    BY <1>4, WriterOrder DEF BumpSeq
  <2>2. /\ mem' = mem /\ seq' = accepted /\ wpc' = 0
        /\ dgram' = dgram /\ accepted' = accepted
    BY <1>4, <2>1 DEF BumpSeq
  <2>3. \A c \in Cells : Rank[c] < 8
    BY RankType
  <2> QED
    BY <2>1, <2>2, <2>3
<1> QED
  BY <1>1, <1>2, <1>3, <1>4 DEF Next, Receiver, Tick

\* Memory only moves on, the counter only up, and loads follow the counter.
LEMMA ReaderNext ==
  ASSUME IInv, [Next]_vars
  PROVE  ReaderInv'
<1> USE DEF IInv, TypeOK, WriterInv, ReaderInv
<1>1. CASE Discard \/ UNCHANGED vars
  BY <1>1 DEF Discard, vars, receiverVars, pipelineVars
<1>2. ASSUME NEW d \in Datagrams, Accept(d) PROVE ReaderInv'
  BY <1>2 DEF Accept, pipelineVars
<1>3. CASE StoreCell
  <2> DEFINE s == WriterProgram[wpc]
  <2>1. wpc \in 1 .. 7 /\ s \in Cells /\ Rank[s] = wpc
    BY <1>3, WriterOrder DEF StoreCell
  <2>2. mem[s].from = seq /\ accepted = seq + 1
    BY <2>1
  <2>3. /\ mem'[s].from = accepted
        /\ \A c \in Cells \ {s} : mem'[c] = mem[c]
    BY <1>3, <2>1 DEF StoreCell, Stored
  <2>4. got' = got /\ seq' = seq /\ lastSeen' = lastSeen /\ rpc' = rpc
    BY <1>3 DEF StoreCell, pipelineVars
  <2>5. \A c \in Cells : got[c].from \in Nat /\ mem[c].from \in Nat
    OBVIOUS
  <2> QED
    BY <2>2, <2>3, <2>4, <2>5
<1>4. CASE BumpSeq
  BY <1>4 DEF BumpSeq, pipelineVars
<1>5. CASE LoadSeq
  <2>1. rpc = 1
    BY <1>5, ReaderOrder DEF LoadSeq
  <2>2. rpc' = 2 /\ lastSeen' = seq /\ mem' = mem /\ seq' = seq /\ got' = got
    BY <1>5, <2>1 DEF LoadSeq
  <2>3. \A c \in Cells : ~(Rank[c] + 1 < 2)
    BY RankType
  <2> QED
    BY <2>2, <2>3
<1>6. CASE LoadCell
  <2> DEFINE l == ReaderProgram[rpc]
  <2>1. rpc \in 2 .. 8 /\ l \in Cells /\ Rank[l] = rpc - 1
    BY <1>6, ReaderOrder DEF LoadCell
  <2>2. /\ got'[l] = mem[l]
        /\ \A c \in Cells \ {l} : got'[c] = got[c]
    BY <1>6, <2>1 DEF LoadCell
  <2>3. rpc' = rpc + 1 /\ lastSeen' = lastSeen /\ mem' = mem /\ seq' = seq
    BY <1>6 DEF LoadCell
  <2>4. mem[l].from >= seq /\ mem[l].from \in Nat
    BY <2>1
  <2>5. \A c \in Cells : Rank[c] \in Nat /\ (c # l => Rank[c] # rpc - 1)
    BY <2>1, RankType, RankInjective
  <2>6. ASSUME NEW c \in Cells
        PROVE  /\ got'[c].from <= mem'[c].from
               /\ got'[c].from = mem'[c].from => got'[c].val = mem'[c].val
               /\ Rank[c] + 1 < rpc' => got'[c].from >= lastSeen'
    <3>1. CASE c = l
      BY <3>1, <2>1, <2>2, <2>3, <2>4
    <3>2. CASE c # l
      <4>1. got'[c] = got[c]
        BY <3>2, <2>2
      <4>2. Rank[c] + 1 < rpc' => Rank[c] + 1 < rpc
        BY <3>2, <2>1, <2>3, <2>5
      <4> QED
        BY <2>3, <4>1, <4>2
    <3> QED
      BY <3>1, <3>2
  <2>7. lastSeen' <= seq'
    BY <2>3
  <2> QED
    BY <2>6, <2>7
<1>7. CASE Feed
  <2>1. rpc' = 1 /\ lastSeen' = lastSeen /\ mem' = mem /\ seq' = seq /\ got' = got
    BY <1>7 DEF Feed
  <2>2. \A c \in Cells : ~(Rank[c] + 1 < 1)
    BY RankType
  <2> QED
    BY <2>1, <2>2
<1>8. CASE Reset
  <2>1. rpc' = 1 /\ lastSeen' = 0 /\ mem' = mem /\ seq' = seq /\ got' = got
    BY <1>8 DEF Reset
  <2>2. \A c \in Cells : ~(Rank[c] + 1 < 1)
    BY RankType
  <2> QED
    BY <2>1, <2>2
<1> QED
  BY <1>1, <1>2, <1>3, <1>4, <1>5, <1>6, <1>7, <1>8 DEF Next, Receiver, Tick

\* The counter reaches the last one seen only through a tick that starts there.
LEMMA SegmentNext ==
  ASSUME IInv, [Next]_vars
  PROVE  SegmentInv'
<1> USE DEF IInv, TypeOK, SegmentInv
<1>1. CASE Discard \/ UNCHANGED vars
  BY <1>1 DEF Discard, vars, receiverVars, pipelineVars
<1>2. ASSUME NEW d \in Datagrams, Accept(d) PROVE SegmentInv'
  BY <1>2 DEF Accept, pipelineVars
<1>3. CASE StoreCell
  <2>1. wpc' # 0
    <3>1. wpc \in 1 .. 7
      BY <1>3, WriterOrder DEF StoreCell
    <3>2. (wpc + 1) % 9 = wpc + 1
      BY <3>1, NoWrap
    <3> QED
      BY <1>3, <3>1, <3>2 DEF StoreCell
  <2> QED
    BY <1>3, <2>1 DEF StoreCell, pipelineVars
<1>4. CASE BumpSeq
  <2>1. lastSeen' # seq'
    BY <1>4 DEF BumpSeq, pipelineVars, ReaderInv
  <2> QED
    BY <1>4, <2>1 DEF BumpSeq, pipelineVars
<1>5. CASE LoadSeq
  <2>1. rpc = 1
    BY <1>5, ReaderOrder DEF LoadSeq
  <2>2. rpc' = 2 /\ lastSeen' = seq
    BY <1>5, <2>1 DEF LoadSeq
  <2>3. ~isNew' => seq = lastSeen
    BY <1>5, Zenon DEF LoadSeq
  <2>4. /\ wpc' = wpc /\ seq' = seq /\ dgram' = dgram
        /\ target' = target /\ lastRaw' = lastRaw
    BY <1>5 DEF LoadSeq, receiverVars
  <2> QED
    BY <2>1, <2>2, <2>3, <2>4
<1>6. CASE LoadCell
  <2>1. rpc \in 2 .. 8
    BY <1>6, ReaderOrder DEF LoadCell
  <2>2. rpc' # 1 /\ rpc # 1
    BY <1>6, <2>1 DEF LoadCell
  <2>3. /\ wpc' = wpc /\ seq' = seq /\ dgram' = dgram /\ lastSeen' = lastSeen
        /\ isNew' = isNew /\ target' = target /\ lastRaw' = lastRaw
    BY <1>6 DEF LoadCell, receiverVars
  <2> QED
    BY <2>2, <2>3
<1>7. CASE Feed
  <2> SUFFICES ASSUME NEW g \in Groups
               PROVE  /\ target'[g] = lastRaw'[g]
                      /\ (wpc' = 0 /\ seq' > 0 /\ lastSeen' = seq') =>
                           lastRaw'[g] = Raw(g, dgram')
    OBVIOUS
  <2> DEFINE fed == Raw(g, Values(got))
  <2>1. /\ lastRaw'[g] = IF isNew THEN fed ELSE lastRaw[g]
        /\ target'[g] = IF isNew /\ lastRaw[g] # fed THEN fed ELSE target[g]
    BY <1>7 DEF Feed, IsNewSample
  <2>2. wpc' = wpc /\ seq' = seq /\ dgram' = dgram /\ lastSeen' = lastSeen
    BY <1>7 DEF Feed, receiverVars
  <2>3. ASSUME wpc = 0, seq > 0, lastSeen = seq
        PROVE  fed = Raw(g, dgram)
    <3>1. \A c \in Cells : got[c].from >= seq
      BY <1>7, <2>3, RankType DEF Feed, ReaderInv
    <3>2. \A c \in Cells : got[c].from <= mem[c].from /\ mem[c].from = seq /\ accepted = seq
      BY <2>3 DEF WriterInv, ReaderInv
    <3>3. \A c \in Cells : got[c].from \in Nat
      OBVIOUS
    <3>4. \A c \in Cells : got[c].from = mem[c].from /\ mem[c].from = accepted
      BY <3>1, <3>2, <3>3
    <3>5. \A c \in Cells : got[c].val = dgram[c]
      BY <3>4 DEF WriterInv, ReaderInv
    <3>6. \A c \in Cells : Values(got)[c] = dgram[c]
      BY <3>5 DEF Values
    <3> QED
      BY <3>6, RawEqual
  <2>4. CASE isNew
    <3>1. target'[g] = lastRaw'[g] /\ lastRaw'[g] = fed
      BY <2>1, <2>4
    <3> QED
      BY <2>2, <2>3, <3>1
  <2>5. CASE ~isNew
    <3>1. target'[g] = target[g] /\ lastRaw'[g] = lastRaw[g]
      BY <2>1, <2>5
    <3> QED
      BY <2>2, <2>5, <3>1
  <2> QED
    BY <2>4, <2>5
<1>8. CASE Reset
  <2>1. lastSeen' = 0 /\ seq' = seq
    BY <1>8 DEF Reset
  <2>2. \A g \in Groups : target'[g] = lastRaw'[g]
    BY <1>8 DEF Reset
  <2> QED
    BY <2>1, <2>2
<1> QED
  BY <1>1, <1>2, <1>3, <1>4, <1>5, <1>6, <1>7, <1>8 DEF Next, Receiver, Tick

\* The invariant holds in every state of every behaviour.
THEOREM Inductive == Spec => []IInv
<1>1. Init => IInv
  BY InvInit
<1>2. IInv /\ [Next]_vars => IInv'
  <2> SUFFICES ASSUME IInv, [Next]_vars PROVE IInv'
    OBVIOUS
  <2>1. TypeOK'
    BY TypeNext DEF IInv
  <2> QED
    BY <2>1, WriterNext, ReaderNext, SegmentNext DEF IInv
<1> QED
  BY <1>1, <1>2, PTL DEF Spec

-----------------------------------------------------------------------------
(* What follows from it                                                    *)

\* Every cell a tick has loaded is at least as new as the sequence number the
\* tick started from, for every feed and every interleaving.
THEOREM TicksAreFresh == Spec => []FreshSample
<1>1. IInv => FreshSample
  <2> SUFFICES ASSUME IInv, NEW k \in 2 .. rpc - 1
               PROVE  got[ReaderProgram[k]].from >= lastSeen
    BY DEF FreshSample
  <2>1. k \in 1 .. 8 /\ k # 1 /\ k < rpc
    BY DEF IInv, TypeOK
  <2>2. ReaderProgram[k] \in Cells /\ Rank[ReaderProgram[k]] = k - 1
    BY <2>1, ReaderOrder
  <2> QED
    BY <2>1, <2>2 DEF IInv, ReaderInv
<1> QED
  BY <1>1, Inductive, PTL

\* Whatever a tick tore, the first tick that starts at the counter of an idle
\* receiver aims both groups at exactly the last datagram.
THEOREM TornReadsHeal == Spec => []Healed
<1>1. IInv => Healed
  BY DEF IInv, SegmentInv, Healed
<1> QED
  BY <1>1, Inductive, PTL

\* A datagram that does not decode leaves every cell as an accepted one left it.
THEOREM CellsComeFromAccepted == Spec => []CellsFromAccepted
<1>1. IInv => CellsFromAccepted
  <2> SUFFICES ASSUME IInv, NEW c \in Cells
               PROVE  /\ mem[c].from \in {accepted, accepted - 1}
                      /\ mem[c].from = accepted =>
                           mem[c].val = IF accepted = 0 THEN 0 ELSE dgram[c]
    BY DEF CellsFromAccepted
  <2>1. mem[c].from \in {accepted, accepted - 1}
    BY DEF IInv, TypeOK, WriterInv
  <2>2. dgram[c] = 0 \/ accepted # 0
    BY DEF IInv, WriterInv, ZeroDatagram
  <2> QED
    BY <2>1, <2>2 DEF IInv, WriterInv
<1> QED
  BY <1>1, Inductive, PTL

-----------------------------------------------------------------------------
(* The stall clock                                                         *)

\* The cells a group is made of.
GroupCells == [rot |-> {"yaw", "pitch", "roll"}, pos |-> {"x", "y", "z"}]

\* The pipeline holds what the last datagram says of the group, or there has been
\* no datagram.
UpToDate(g) == accepted = 0 \/ lastRaw[g] = Raw(g, dgram)

\* A group is being changed only by a datagram on its way out, the first of all
\* changes both.  While a group is not being changed, memory agrees with the
\* last datagram in it, torn as memory may be, and so does all that a tick has
\* loaded since the counter's last move.
ChangeInv ==
  /\ wpc # 0 /\ seq = 0 => \A g \in Groups : turning[g]
  /\ \A g \in Groups :
       /\ wpc = 0 => ~turning[g]
       /\ ~turning[g] =>
            \A c \in GroupCells[g] :
              /\ mem[c].val = dgram[c]
              /\ got[c].from >= seq => got[c].val = dgram[c]

\* Once the last counter has been seen, a group that is not being changed is up to
\* date, be the receiver idle or repeating itself.
SeenInv ==
  /\ rpc = 1 => ~isNew
  /\ isNew => lastSeen > 0
  /\ \A g \in Groups :
       (~turning[g] /\ seq > 0 /\ lastSeen = seq /\ (rpc = 1 \/ ~isNew)) => UpToDate(g)

\* A tick that counts for a group loads what the last datagram says of it; a
\* tick that does not count runs while the group's count is at zero; and a count
\* beyond zero says that the group has come to rest in the pipeline as well.
RestInv ==
  \A g \in Groups :
    /\ steady[g] =>
         /\ rpc > 1 /\ ~turning[g]
         /\ \A c \in GroupCells[g] : Rank[c] + 1 < rpc => got[c].val = dgram[c]
         /\ ~isNew => UpToDate(g)
    /\ rpc > 1 /\ ~steady[g] => quiet[g] = 0
    /\ quiet[g] > 0 => ~turning[g] /\ UpToDate(g)
    /\ age[g] + 1 >= quiet[g]

StallInv == ChangeInv /\ SeenInv /\ RestInv

LEMMA GroupInCells == \A g \in Groups : GroupCells[g] \subseteq Cells
BY DEF Groups, GroupCells, Cells

\* A group's triple says what its cells hold, and nothing else.
LEMMA RawOfGroup ==
  ASSUME NEW g \in Groups, NEW m \in [Cells -> Int], NEW n \in [Cells -> Int]
  PROVE  Raw(g, m) = Raw(g, n) <=> \A c \in GroupCells[g] : m[c] = n[c]
<1>1. CASE g = "rot"
  <2>1. GroupCells[g] = {"yaw", "pitch", "roll"}
    BY <1>1 DEF GroupCells
  <2> QED
    BY <1>1, <2>1 DEF Raw
<1>2. CASE g = "pos"
  <2>1. GroupCells[g] = {"x", "y", "z"}
    BY <1>2 DEF GroupCells
  <2>2. /\ m["x"] \in Int /\ n["x"] \in Int
        /\ m["z"] \in Int /\ n["z"] \in Int
    BY DEF Cells
  <2>3. (-m["x"] = -n["x"] <=> m["x"] = n["x"]) /\ (-m["z"] = -n["z"] <=> m["z"] = n["z"])
    BY <2>2
  <2> QED
    BY <1>2, <2>1, <2>3 DEF Raw
<1> QED
  BY <1>1, <1>2 DEF Groups

\* What a tick feeds a group is the last datagram's when its loaded cells are.
LEMMA FedOfGroup ==
  ASSUME TypeOK, NEW g \in Groups, \A c \in GroupCells[g] : got[c].val = dgram[c]
  PROVE  Raw(g, Values(got)) = Raw(g, dgram)
<1>1. Values(got) \in [Cells -> Int] /\ \A c \in Cells : Values(got)[c] = got[c].val
  BY ValuesType DEF TypeOK
<1>2. \A c \in GroupCells[g] : Values(got)[c] = dgram[c]
  BY <1>1, GroupInCells
<1> QED
  BY <1>1, <1>2, RawOfGroup DEF TypeOK

\* An accepted datagram that leaves a group alone says of it what the one before
\* it said.
LEMMA RepeatedGroup ==
  ASSUME TypeOK, NEW d \in Datagrams, Accept(d), NEW g \in Groups, ~turning'[g]
  PROVE  /\ accepted # 0
         /\ \A c \in GroupCells[g] : dgram'[c] = dgram[c]
         /\ UpToDate(g) => UpToDate(g)'
<1>1. accepted # 0 /\ Raw(g, d) = Raw(g, dgram) /\ dgram' = d
  BY DEF Accept
<1>2. d \in [Cells -> Int] /\ dgram \in [Cells -> Int]
  BY DatagramsAssumption DEF TypeOK
<1>3. \A c \in GroupCells[g] : d[c] = dgram[c]
  BY <1>1, <1>2, RawOfGroup
<1>4. lastRaw' = lastRaw
  BY DEF Accept, pipelineVars
<1> QED
  BY <1>1, <1>3, <1>4 DEF UpToDate

LEMMA StallInit == Init => StallInv
<1> SUFFICES ASSUME Init PROVE StallInv
  OBVIOUS
<1>1. \A c \in Cells : mem[c].val = 0 /\ got[c].val = 0 /\ dgram[c] = 0
  BY DEF Init, Stored, ZeroDatagram
<1>2. ChangeInv
  BY <1>1, GroupInCells DEF Init, ChangeInv
<1>3. SeenInv
  BY DEF Init, SeenInv
<1>4. RestInv
  BY DEF Init, RestInv
<1> QED
  BY <1>2, <1>3, <1>4 DEF StallInv

\* Only a datagram that changes a group can part it from memory, and its bump
\* brings them together.
LEMMA ChangeNext ==
  ASSUME IInv, StallInv, [Next]_vars
  PROVE  ChangeInv'
<1> USE DEF IInv, TypeOK, StallInv, ChangeInv
<1>1. CASE \/ Discard \/ LoadSeq \/ Feed \/ Reset \/ UNCHANGED vars
  BY <1>1 DEF Discard, LoadSeq, Feed, Reset, vars, receiverVars, pipelineVars, historyVars
<1>2. ASSUME NEW d \in Datagrams, Accept(d) PROVE ChangeInv'
  <2>1. wpc = 0 /\ wpc' = 1 /\ mem' = mem /\ seq' = seq /\ got' = got
    BY <1>2 DEF Accept, pipelineVars
  <2>2. ASSUME seq = 0, NEW g \in Groups
        PROVE  turning'[g]
    <3>1. accepted = 0
      BY <2>1, <2>2 DEF WriterInv
    <3>2. turning' = [h \in Groups |-> accepted = 0 \/ Raw(h, d) # Raw(h, dgram)]
      BY <1>2 DEF Accept
    <3> QED
      BY <3>1, <3>2, Zenon
  <2>3. ASSUME NEW g \in Groups, ~turning'[g], NEW c \in GroupCells[g]
        PROVE  /\ mem'[c].val = dgram'[c]
               /\ got'[c].from >= seq' => got'[c].val = dgram'[c]
    <3>1. dgram'[c] = dgram[c]
      BY <1>2, <2>3, RepeatedGroup
    <3> QED
      BY <2>1, <2>3, <3>1
  <2> QED
    BY <2>1, <2>2, <2>3
<1>3. CASE StoreCell
  <2> DEFINE s == WriterProgram[wpc]
  <2>1. wpc \in 1 .. 7 /\ s \in Cells
    BY <1>3, WriterOrder DEF StoreCell
  <2>2. /\ mem'[s].val = dgram[s]
        /\ \A c \in Cells \ {s} : mem'[c] = mem[c]
    BY <1>3, <2>1 DEF StoreCell, Stored
  <2>3. /\ seq' = seq /\ dgram' = dgram /\ got' = got /\ turning' = turning
        /\ wpc # 0 /\ wpc' # 0
    <3>1. (wpc + 1) % 9 = wpc + 1
      BY <2>1, NoWrap
    <3> QED
      BY <1>3, <2>1, <3>1 DEF StoreCell, pipelineVars, historyVars
  <2>4. ASSUME NEW g \in Groups, ~turning[g], NEW c \in GroupCells[g]
        PROVE  mem'[c].val = dgram[c]
    <3>1. c \in Cells
      BY GroupInCells
    <3> QED
      BY <2>2, <2>4, <3>1
  <2> QED
    BY <2>3, <2>4
<1>4. CASE BumpSeq
  <2>1. wpc = 8
    BY <1>4, WriterOrder DEF BumpSeq
  <2>2. /\ mem' = mem /\ got' = got /\ dgram' = dgram /\ wpc' = 0
        /\ seq' = accepted /\ \A g \in Groups : turning'[g] = FALSE
    BY <1>4, <2>1 DEF BumpSeq, pipelineVars, WriterInv
  <2>3. \A c \in Cells : mem[c].from = accepted /\ mem[c].val = dgram[c]
    BY <2>1, RankType DEF WriterInv
  <2>4. ASSUME NEW c \in Cells, got[c].from >= accepted
        PROVE  got[c].val = dgram[c]
    <3>1. got[c].from <= mem[c].from /\ got[c].from \in Nat /\ mem[c].from = accepted
      BY <2>3 DEF ReaderInv
    <3>2. got[c].from = mem[c].from
      BY ONLY <2>4, <3>1, accepted \in Nat
    <3> QED
      BY <2>3, <3>2 DEF ReaderInv
  <2> QED
    BY <2>2, <2>3, <2>4, GroupInCells
<1>5. CASE LoadCell
  <2> DEFINE l == ReaderProgram[rpc]
  <2>1. rpc \in 2 .. 8 /\ l \in Cells
    BY <1>5, ReaderOrder DEF LoadCell
  <2>2. /\ got'[l] = mem[l]
        /\ \A c \in Cells \ {l} : got'[c] = got[c]
    BY <1>5, <2>1 DEF LoadCell
  <2>3. /\ mem' = mem /\ seq' = seq /\ dgram' = dgram /\ wpc' = wpc /\ turning' = turning
    BY <1>5 DEF LoadCell, receiverVars, historyVars
  <2>4. ASSUME NEW g \in Groups, ~turning[g], NEW c \in GroupCells[g], got'[c].from >= seq
        PROVE  got'[c].val = dgram[c]
    <3>1. c \in Cells
      BY GroupInCells
    <3> QED
      BY <2>2, <2>4, <3>1
  <2> QED
    BY <2>3, <2>4
<1> QED
  BY <1>1, <1>2, <1>3, <1>4, <1>5 DEF Next, Receiver, Tick

\* A tick that reads the last counter brings every group that is not being changed
\* up to date.
LEMMA SeenNext ==
  ASSUME IInv, StallInv, [Next]_vars
  PROVE  SeenInv'
<1> USE DEF IInv, TypeOK, StallInv, SeenInv
<1>1. CASE Discard \/ StoreCell \/ UNCHANGED vars
  BY <1>1 DEF Discard, StoreCell, vars, receiverVars, pipelineVars, historyVars, UpToDate
<1>2. ASSUME NEW d \in Datagrams, Accept(d) PROVE SeenInv'
  <2>1. /\ wpc = 0 /\ seq' = seq /\ rpc' = rpc /\ isNew' = isNew /\ lastSeen' = lastSeen
    BY <1>2 DEF Accept, pipelineVars
  <2>2. ASSUME NEW g \in Groups, ~turning'[g], seq > 0, lastSeen = seq, rpc = 1 \/ ~isNew
        PROVE  UpToDate(g)'
    <3>1. UpToDate(g)
      BY <2>1, <2>2 DEF ChangeInv
    <3> QED
      BY <1>2, <2>2, <3>1, RepeatedGroup
  <2> QED
    BY <2>1, <2>2
<1>3. CASE BumpSeq
  <2>1. seq' = seq + 1 /\ rpc' = rpc /\ isNew' = isNew /\ lastSeen' = lastSeen
    BY <1>3 DEF BumpSeq, pipelineVars
  <2>2. lastSeen' # seq'
    BY <2>1 DEF ReaderInv
  <2> QED
    BY <2>1, <2>2
<1>4. CASE LoadSeq
  <2>1. rpc = 1
    BY <1>4, ReaderOrder DEF LoadSeq
  <2>2. /\ rpc' = 2 /\ lastSeen' = seq /\ seq' = seq /\ turning' = turning
        /\ accepted' = accepted /\ dgram' = dgram /\ lastRaw' = lastRaw
    BY <1>4, <2>1 DEF LoadSeq, receiverVars
  <2>3. isNew' => seq # lastSeen
    BY <1>4, Zenon DEF LoadSeq
  <2>4. ~isNew' => seq = lastSeen
    BY <1>4, Zenon DEF LoadSeq
  <2>5. isNew' => lastSeen' > 0
    BY <2>2, <2>3 DEF ReaderInv
  <2>6. ASSUME NEW g \in Groups, ~turning[g], seq > 0, ~isNew'
        PROVE  UpToDate(g)'
    <3>1. UpToDate(g)
      BY <2>1, <2>4, <2>6
    <3> QED
      BY <2>2, <3>1 DEF UpToDate
  <2> QED
    BY <2>2, <2>5, <2>6
<1>5. CASE LoadCell
  <2>1. rpc \in 2 .. 8
    BY <1>5, ReaderOrder DEF LoadCell
  <2>2. rpc' # 1 /\ rpc # 1
    BY <1>5, <2>1 DEF LoadCell
  <2> QED
    BY <1>5, <2>2 DEF LoadCell, receiverVars, historyVars, UpToDate
<1>6. CASE Feed
  <2>1. /\ rpc = 9 /\ rpc' = 1 /\ isNew' = FALSE /\ lastSeen' = lastSeen /\ seq' = seq
        /\ turning' = turning /\ accepted' = accepted /\ dgram' = dgram
    BY <1>6 DEF Feed, receiverVars
  <2>2. ASSUME NEW g \in Groups, ~turning[g], seq > 0, lastSeen = seq
        PROVE  UpToDate(g)'
    <3>1. lastRaw'[g] = IF isNew THEN Raw(g, Values(got)) ELSE lastRaw[g]
      BY <1>6 DEF Feed
    <3>2. CASE isNew
      <4>1. \A c \in Cells : got[c].from >= seq
        BY <2>1, <2>2, RankType DEF ReaderInv
      <4>2. \A c \in GroupCells[g] : got[c].val = dgram[c]
        BY <2>2, <4>1, GroupInCells DEF ChangeInv
      <4>3. lastRaw'[g] = Raw(g, dgram)
        BY <3>1, <3>2, <4>2, FedOfGroup
      <4> QED
        BY <2>1, <4>3 DEF UpToDate
    <3>3. CASE ~isNew
      <4>1. UpToDate(g)
        BY <2>2, <3>3
      <4> QED
        BY <2>1, <3>1, <3>3, <4>1 DEF UpToDate
    <3> QED
      BY <3>2, <3>3
  <2> QED
    BY <2>1, <2>2
<1>7. CASE Reset
  <2>1. rpc = 1 /\ rpc' = 1 /\ isNew' = isNew /\ lastSeen' = 0 /\ seq' = seq
    BY <1>7 DEF Reset
  <2> QED
    BY <2>1
<1> QED
  BY <1>1, <1>2, <1>3, <1>4, <1>5, <1>6, <1>7 DEF Next, Receiver, Tick

\* Ageing keeps an age within one of a count that grows with it, and a count that
\* starts from zero is at most one.
LEMMA OlderKeepsPace ==
  ASSUME NEW a \in 0 .. AgeCap, NEW q \in 0 .. AgeCap, a + 1 >= q
  PROVE  /\ Older(a) + 1 >= Older(q)
         /\ Older(a) + 1 >= q
         /\ Older(0) <= 1
BY BoundsAssumption DEF Older, Capped

\* A tick that finds a new sample in a group does not count for it, or is the
\* first that does.
LEMMA RestFeed ==
  ASSUME IInv, StallInv, Feed, NEW g \in Groups
  PROVE  /\ quiet'[g] > 0 => ~turning'[g] /\ UpToDate(g)'
         /\ age'[g] + 1 >= quiet'[g]
<1> USE DEF IInv, TypeOK, StallInv
<1> DEFINE fed == Raw(g, Values(got))
<1>1. /\ rpc = 9
      /\ lastRaw'[g] = IF isNew THEN fed ELSE lastRaw[g]
      /\ age'[g] = IF isNew /\ lastRaw[g] # fed THEN 0 ELSE Older(age[g])
      /\ quiet'[g] = IF steady[g] THEN Older(quiet[g]) ELSE quiet[g]
      /\ turning' = turning /\ accepted' = accepted /\ dgram' = dgram
  BY DEF Feed, IsNewSample, receiverVars
<1>2. age[g] \in 0 .. AgeCap /\ quiet[g] \in 0 .. AgeCap /\ age[g] + 1 >= quiet[g]
  BY DEF RestInv
<1>3. CASE ~steady[g]
  <2>1. quiet'[g] = 0
    BY <1>1, <1>3 DEF RestInv
  <2>2. 0 \in 0 .. AgeCap
    BY BoundsAssumption
  <2>3. age'[g] \in Nat
    BY <1>1, <1>2, OlderType
  <2> QED
    BY <2>1, <2>3
<1>4. CASE steady[g]
  <2>1. \A c \in GroupCells[g] : got[c].val = dgram[c]
    BY <1>1, <1>4, GroupInCells, RankType DEF RestInv
  <2>2. fed = Raw(g, dgram)
    BY <2>1, FedOfGroup
  <2>3. ~turning[g] /\ (~isNew => UpToDate(g))
    BY <1>4 DEF RestInv
  <2>4. UpToDate(g)'
    <3>1. CASE isNew
      <4>1. lastRaw'[g] = Raw(g, dgram)
        BY <1>1, <2>2, <3>1
      <4> QED
        BY <1>1, <4>1 DEF UpToDate
    <3>2. CASE ~isNew
      <4>1. UpToDate(g) /\ lastRaw'[g] = lastRaw[g]
        BY <1>1, <2>3, <3>2
      <4> QED
        BY <1>1, <4>1 DEF UpToDate
    <3> QED
      BY <3>1, <3>2
  <2>5. ASSUME isNew, lastRaw[g] # fed
        PROVE  quiet[g] = 0
    <3>1. seq > 0
      BY <2>5 DEF SeenInv, ReaderInv
    <3>2. accepted # 0
      BY <3>1 DEF WriterInv
    <3>3. ~UpToDate(g)
      BY <2>2, <2>5, <3>2 DEF UpToDate
    <3> QED
      BY <1>2, <3>3 DEF RestInv
  <2>6. age'[g] + 1 >= quiet'[g]
    <3>1. CASE isNew /\ lastRaw[g] # fed
      <4>1. quiet'[g] = Older(0) /\ age'[g] = 0
        BY <1>1, <1>4, <2>5, <3>1
      <4> QED
        BY <1>2, <4>1, OlderKeepsPace
    <3>2. CASE ~(isNew /\ lastRaw[g] # fed)
      <4>1. quiet'[g] = Older(quiet[g]) /\ age'[g] = Older(age[g])
        BY <1>1, <1>4, <3>2
      <4> QED
        BY <1>2, <4>1, OlderKeepsPace
    <3> QED
      BY <3>1, <3>2
  <2> QED
    BY <1>1, <2>3, <2>4, <2>6
<1> QED
  BY <1>3, <1>4

\* A change takes a group's count to zero before any tick can see it.
LEMMA RestNext ==
  ASSUME IInv, StallInv, [Next]_vars
  PROVE  RestInv'
<1> USE DEF IInv, TypeOK, StallInv
<1>1. CASE Discard \/ StoreCell \/ UNCHANGED vars
  BY <1>1 DEF Discard, StoreCell, vars, receiverVars, pipelineVars, historyVars, UpToDate,
              RestInv
<1>2. ASSUME NEW d \in Datagrams, Accept(d) PROVE RestInv'
  <2> SUFFICES ASSUME NEW g \in Groups
               PROVE  /\ steady'[g] =>
                           /\ rpc' > 1 /\ ~turning'[g]
                           /\ \A c \in GroupCells[g] :
                                Rank[c] + 1 < rpc' => got'[c].val = dgram'[c]
                           /\ ~isNew' => UpToDate(g)'
                      /\ rpc' > 1 /\ ~steady'[g] => quiet'[g] = 0
                      /\ quiet'[g] > 0 => ~turning'[g] /\ UpToDate(g)'
                      /\ age'[g] + 1 >= quiet'[g]
    BY DEF RestInv
  <2>1. /\ rpc' = rpc /\ got' = got /\ isNew' = isNew /\ age' = age
        /\ quiet'[g] = IF turning'[g] THEN 0 ELSE quiet[g]
        /\ turning' \in [Groups -> BOOLEAN]
    BY <1>2 DEF Accept, pipelineVars
  <2>2. steady'[g] <=> steady[g] /\ ~turning'[g]
    BY <1>2, Zenon DEF Accept
  <2>3. age[g] + 1 >= quiet[g] /\ age[g] \in Nat
    BY DEF RestInv
  <2>4. CASE turning'[g]
    BY <2>1, <2>2, <2>3, <2>4
  <2>5. CASE ~turning'[g]
    <3>1. /\ \A c \in GroupCells[g] : dgram'[c] = dgram[c]
          /\ UpToDate(g) => UpToDate(g)'
      BY <1>2, <2>5, RepeatedGroup
    <3>2. quiet'[g] = quiet[g] /\ (steady'[g] <=> steady[g])
      BY <2>1, <2>2, <2>5
    <3>3. steady[g] =>
            /\ rpc > 1
            /\ \A c \in GroupCells[g] : Rank[c] + 1 < rpc => got[c].val = dgram[c]
            /\ ~isNew => UpToDate(g)
      BY DEF RestInv
    <3>4. (rpc > 1 /\ ~steady[g] => quiet[g] = 0) /\ (quiet[g] > 0 => UpToDate(g))
      BY DEF RestInv
    <3> QED
      BY <2>1, <2>3, <2>5, <3>1, <3>2, <3>3, <3>4
  <2> QED
    BY <2>4, <2>5
<1>3. CASE BumpSeq
  <2>1. /\ rpc' = rpc /\ got' = got /\ isNew' = isNew /\ age' = age /\ lastRaw' = lastRaw
        /\ dgram' = dgram /\ accepted' = accepted /\ steady' = steady /\ quiet' = quiet
        /\ \A g \in Groups : ~turning'[g]
    BY <1>3 DEF BumpSeq, pipelineVars
  <2> QED
    BY <2>1 DEF RestInv, UpToDate
<1>4. CASE LoadSeq
  <2> SUFFICES ASSUME NEW g \in Groups
               PROVE  /\ steady'[g] =>
                           /\ rpc' > 1 /\ ~turning'[g]
                           /\ \A c \in GroupCells[g] :
                                Rank[c] + 1 < rpc' => got'[c].val = dgram'[c]
                           /\ ~isNew' => UpToDate(g)'
                      /\ rpc' > 1 /\ ~steady'[g] => quiet'[g] = 0
                      /\ quiet'[g] > 0 => ~turning'[g] /\ UpToDate(g)'
                      /\ age'[g] + 1 >= quiet'[g]
    BY DEF RestInv
  <2>1. rpc = 1
    BY <1>4, ReaderOrder DEF LoadSeq
  <2>2. /\ rpc' = 2 /\ turning' = turning /\ quiet' = quiet /\ age' = age
        /\ accepted' = accepted /\ dgram' = dgram /\ lastRaw' = lastRaw
    BY <1>4, <2>1 DEF LoadSeq, receiverVars
  <2>3. steady'[g] <=> ~turning[g]
    BY <1>4, Zenon DEF LoadSeq
  <2>4. ~isNew' => seq = lastSeen
    BY <1>4, Zenon DEF LoadSeq
  <2>5. \A c \in GroupCells[g] : ~(Rank[c] + 1 < 2)
    BY GroupInCells, RankType
  <2>6. UpToDate(g)' <=> UpToDate(g)
    BY <2>2 DEF UpToDate
  <2>7. ASSUME ~turning[g], ~isNew'
        PROVE  UpToDate(g)
    <3>1. CASE seq > 0
      BY <2>1, <2>4, <2>7, <3>1 DEF SeenInv
    <3>2. CASE seq = 0
      <4>1. wpc = 0
        BY <2>7, <3>2 DEF ChangeInv
      <4>2. accepted = 0
        BY <3>2, <4>1 DEF WriterInv
      <4> QED
        BY <4>2 DEF UpToDate
    <3> QED
      BY <3>1, <3>2
  <2>8. /\ quiet[g] > 0 => ~turning[g] /\ UpToDate(g)
        /\ age[g] + 1 >= quiet[g]
        /\ quiet[g] \in Nat
    BY DEF RestInv
  <2> QED
    BY <2>2, <2>3, <2>5, <2>6, <2>7, <2>8
<1>5. CASE LoadCell
  <2> DEFINE l == ReaderProgram[rpc]
  <2>1. rpc \in 2 .. 8 /\ l \in Cells /\ Rank[l] = rpc - 1
    BY <1>5, ReaderOrder DEF LoadCell
  <2>2. /\ got'[l] = mem[l]
        /\ \A c \in Cells \ {l} : got'[c] = got[c]
    BY <1>5, <2>1 DEF LoadCell
  <2>3. /\ rpc' = rpc + 1 /\ turning' = turning /\ quiet' = quiet /\ age' = age
        /\ accepted' = accepted /\ dgram' = dgram /\ lastRaw' = lastRaw
        /\ isNew' = isNew /\ steady' = steady
    BY <1>5 DEF LoadCell, receiverVars, historyVars
  <2>4. ASSUME NEW g \in Groups, steady[g], NEW c \in GroupCells[g], Rank[c] + 1 < rpc'
        PROVE  got'[c].val = dgram[c]
    <3>1. c \in Cells /\ Rank[c] \in Nat /\ ~turning[g]
      BY <2>4, GroupInCells, RankType DEF RestInv
    <3>2. CASE c = l
      BY <2>2, <2>4, <3>1, <3>2 DEF ChangeInv
    <3>3. CASE c # l
      <4>1. Rank[c] # rpc - 1
        BY <2>1, <3>1, <3>3, RankInjective
      <4>2. Rank[c] + 1 < rpc
        BY ONLY <2>1, <2>3, <2>4, <3>1, <4>1
      <4> QED
        BY <2>2, <2>4, <3>1, <3>3, <4>2 DEF RestInv
    <3> QED
      BY <3>2, <3>3
  <2>5. rpc' > 1 /\ rpc > 1
    BY <2>1, <2>3
  <2> QED
    BY <2>3, <2>4, <2>5 DEF RestInv, UpToDate
<1>6. CASE Feed
  <2>1. rpc' = 1 /\ \A g \in Groups : ~steady'[g]
    BY <1>6 DEF Feed
  <2> QED
    BY <1>6, <2>1, RestFeed DEF RestInv
<1>7. CASE Reset
  <2>1. /\ rpc = 1 /\ rpc' = 1 /\ steady' = steady
        /\ \A g \in Groups : age'[g] = 0 /\ quiet'[g] = 0
    BY <1>7 DEF Reset
  <2>2. \A g \in Groups : ~steady[g]
    BY <2>1 DEF RestInv
  <2> QED
    BY <2>1, <2>2 DEF RestInv
<1> QED
  BY <1>1, <1>2, <1>3, <1>4, <1>5, <1>6, <1>7 DEF Next, Receiver, Tick

\* The stall clock of a group runs while the tracker reports the group unchanged,
\* for every feed and every interleaving (smoothing.rs 492-506).
THEOREM StallClockAlwaysRuns == Spec => []StallClockRuns
<1>1. Init => StallInv
  BY StallInit
<1>2. IInv /\ StallInv /\ [Next]_vars => StallInv'
  BY ChangeNext, SeenNext, RestNext DEF StallInv
<1>3. StallInv => StallClockRuns
  BY DEF StallInv, RestInv, StallClockRuns
<1> QED
  BY <1>1, <1>2, <1>3, Inductive, PTL DEF Spec

-----------------------------------------------------------------------------
(* The statics implement the abstract feed                                 *)

\* Each step of the channel is a step of the feed or leaves the feed alone.
LEMMA FeedStep ==
  ASSUME IInv, [Next]_vars
  PROVE  [Feeds!FeedNext]_(Feeds!feedVars)
<1> DEFINE used == [c \in Cells |-> got[c].from]
<1> SUFFICES \/ Feeds!FeedNext
             \/ seq' = seq /\ lastSeen' = lastSeen /\ used' = used
  BY DEF Feeds!feedVars
<1> USE DEF Feeds!FeedNext
<1>1. CASE Discard \/ StoreCell \/ Feed \/ UNCHANGED vars \/ (\E d \in Datagrams : Accept(d))
  BY <1>1 DEF Discard, StoreCell, Feed, Accept, vars, receiverVars, pipelineVars
<1>2. CASE BumpSeq
  BY <1>2 DEF BumpSeq, pipelineVars, Feeds!Publish
<1>3. CASE LoadSeq
  BY <1>3 DEF LoadSeq, Feeds!Begin
<1>4. CASE LoadCell
  <2>1. PICK l \in Cells : l = ReaderProgram[rpc]
    BY <1>4, ReaderOrder DEF LoadCell, IInv, TypeOK
  <2>2. used' = [used EXCEPT ![l] = mem[l].from]
    BY <1>4, <2>1 DEF LoadCell, IInv, TypeOK
  <2>3. mem[l].from \in lastSeen .. seq + 1
    BY <2>1 DEF IInv, TypeOK, WriterInv, ReaderInv
  <2>4. mem[l].from >= used[l]
    BY <2>1 DEF IInv, TypeOK, ReaderInv
  <2>5. seq' = seq /\ lastSeen' = lastSeen
    BY <1>4 DEF LoadCell
  <2>6. Feeds!Take(l)
    BY <2>2, <2>3, <2>4, <2>5 DEF Feeds!Take
  <2> QED
    BY <2>1, <2>6
<1>5. CASE Reset
  <2>1. seq' = seq /\ got' = got /\ lastSeen' = 0
    BY <1>5 DEF Reset
  <2>2. Feeds!Forget
    BY <2>1 DEF Feeds!Forget
  <2> QED
    BY <2>2
<1> QED
  BY <1>1, <1>2, <1>3, <1>4, <1>5 DEF Next, Receiver, Tick

\* No tick runs backwards in any cell or uses a value older than the counter it
\* started from: the channel implements the feed.
THEOREM ChannelImplementsFeed == Spec => ImplementsPoseFeed
<1>1. Init => Feeds!FeedInit
  BY DEF Init, Feeds!FeedInit, Stored
<1>2. IInv /\ [Next]_vars => [Feeds!FeedNext]_(Feeds!feedVars)
  BY FeedStep
<1> QED
  BY <1>1, <1>2, Inductive, PTL DEF Spec, ImplementsPoseFeed, Feeds!FeedSpec

=============================================================================
