----------------------- MODULE PipelineRuntimeProofs -----------------------
(***************************************************************************)
(* Proofs about the pipeline loop, for any number of cameras, any periods, *)
(* phases and thresholds, and any number of changes.                       *)
(***************************************************************************)
EXTENDS PipelineRuntime, SequenceTheorems, FiniteSetTheorems, TLAPS

USE TimeAssumption, CapacityAssumption

Packets == [cam : Cameras, age : Ages]

-----------------------------------------------------------------------------
(* Ages, packets and the slots they own.                                   *)

LEMMA CapType == Cap \in Nat /\ Ages \subseteq Nat /\ 0 \in Ages
<1>1. Cap \in Nat
  BY DEF Cap
<1> QED BY <1>1 DEF Ages

LEMMA OlderType ==
  ASSUME NEW a \in Ages
  PROVE  Older(a) \in Ages
BY CapType DEF Older, Ages

\* Two ages do not come to lie further apart.
LEMMA OlderTogether ==
  ASSUME NEW a \in Ages, NEW b \in Ages, a - b <= Tolerance
  PROVE  Older(a) - Older(b) <= Tolerance
BY CapType DEF Older, Ages

LEMMA EmptyDomain == DOMAIN <<>> = {}
BY EmptySeq

LEMMA HeadAndTail ==
  ASSUME NEW q \in Seq(Packets), q # <<>>
  PROVE  /\ Head(q) \in Packets /\ Tail(q) \in Seq(Packets)
         /\ Len(q) \in Nat \ {0} /\ Len(Tail(q)) = Len(q) - 1
BY HeadTailProperties, EmptySeq

\* What discard_camera leaves in the queue: no more than there was.
LEMMA KeptPackets ==
  ASSUME NEW q \in Seq(Packets), NEW S \in SUBSET (DOMAIN q), NEW kept \in Enumerations(S)
  PROVE  LET r == [i \in DOMAIN kept |-> q[kept[i]]]
         IN  r \in Seq(Packets) /\ Len(r) \in Nat /\ Len(r) <= Len(q)
<1> DEFINE n == Cardinality(S)
           r == [i \in DOMAIN kept |-> q[kept[i]]]
<1>1. Len(q) \in Nat /\ DOMAIN q = 1 .. Len(q) /\ \A i \in 1 .. Len(q) : q[i] \in Packets
  BY LenProperties, ElementOfSeq
<1>6. IsFiniteSet(1 .. Len(q)) /\ Cardinality(1 .. Len(q)) = Len(q)
  <2>1. Len(q) \in Int /\ 1 \in Int
    BY <1>1
  <2>2. /\ IsFiniteSet(1 .. Len(q))
        /\ Cardinality(1 .. Len(q)) = IF 1 > Len(q) THEN 0 ELSE Len(q) - 1 + 1
    BY ONLY <2>1, FS_Interval
  <2> QED BY <1>1, <2>2
<1>2. n \in Nat /\ n <= Len(q)
  BY <1>1, <1>6, FS_Subset, FS_CardinalityType
<1>3. kept \in [1 .. n -> S]
  BY DEF Enumerations
<1> HIDE DEF n
<1>4. r \in [1 .. n -> Packets]
  BY <1>1, <1>3
<1>5. r \in Seq(Packets) /\ Len(r) = n
  BY <1>2, <1>4, SeqDef, LenProperties
<1> QED BY <1>2, <1>5

LEMMA PublishedType ==
  ASSUME queue \in Seq(Packets), Len(queue) <= QueueSize, NEW c \in Cameras
  PROVE  Published(c) \in Seq(Packets) /\ Len(Published(c)) <= QueueSize
<1> DEFINE packet == [cam |-> c, age |-> 0]
<1>1. packet \in Packets /\ Len(queue) \in Nat /\ QueueSize \in Nat \ {0}
  BY CapType, LenProperties DEF Packets
<1>2. Published(c) = Append(IF Len(queue) < QueueSize THEN queue ELSE Tail(queue), packet)
  BY DEF Published
<1> HIDE DEF packet
<1>3. CASE Len(queue) < QueueSize
  BY <1>1, <1>2, <1>3, AppendProperties
<1>4. CASE Len(queue) >= QueueSize
  <2>1. queue # <<>>
    BY <1>1, <1>4, EmptySeq
  <2>2. Tail(queue) \in Seq(Packets) /\ Len(Tail(queue)) = Len(queue) - 1
    BY <2>1, HeadAndTail
  <2>3. /\ Append(Tail(queue), packet) \in Seq(Packets)
        /\ Len(Append(Tail(queue), packet)) = Len(Tail(queue)) + 1
    BY <1>1, <2>2, AppendProperties
  <2> QED BY <1>1, <1>2, <1>4, <2>2, <2>3
<1> QED BY <1>1, <1>3, <1>4

-----------------------------------------------------------------------------
(* Types.                                                                  *)

LEMMA InitType == Init => TypeOK
<1> SUFFICES ASSUME Init PROVE TypeOK
  OBVIOUS
<1>1. <<>> \in Seq(Packets) /\ Len(<<>>) = 0 /\ DOMAIN <<>> = {}
  BY EmptySeq
<1>3. target \in [cams : SUBSET Cameras, moved : SUBSET Cameras]
  BY DEF Init
<1>4. due \in BOOLEAN
  BY DEF Init
<1> QED BY <1>1, <1>3, <1>4, CamerasAssumption DEF Init, TypeOK, Packets

LEMMA WorldType ==
  ASSUME TypeOK, NEW c \in Cameras,
         Activate(c) \/ Deactivate(c) \/ EditSource(c) \/ Fail(c) \/ Recover(c)
  PROVE  TypeOK'
<1>1. changes' \in 0 .. MaxChanges /\ UNCHANGED <<capture, active, queue, sync, due, target, lpc, bundle>>
  BY DEF Activate, Deactivate, EditSource, Fail, Recover, Change, TypeOK
<1>2. records' \subseteq Cameras /\ edited' \subseteq Cameras /\ up' \subseteq Cameras
  BY DEF Activate, Deactivate, EditSource, Fail, Recover, TypeOK
<1> QED BY <1>1, <1>2 DEF TypeOK, capture, sync

LEMMA TickType ==
  ASSUME TypeOK, Tick
  PROVE  TypeOK'
<1>1. clock' \in 0 .. Period - 1
  BY DEF Tick, TypeOK
<1>2. Len(queue) \in Nat /\ DOMAIN queue = 1 .. Len(queue)
      /\ \A i \in DOMAIN queue : queue[i] \in Packets
  <2>1. queue \in Seq(Packets)
    BY DEF TypeOK, Packets
  <2>2. Len(queue) \in Nat /\ DOMAIN queue = 1 .. Len(queue)
    BY <2>1, LenProperties
  <2> QED BY <2>1, <2>2, ElementOfSeq
<1>3. queue' \in [1 .. Len(queue) -> Packets]
  <2>1. \A i \in DOMAIN queue : Older(queue[i].age) \in Ages
    BY <1>2, OlderType DEF Packets
  <2> QED BY <1>2, <2>1 DEF Tick, Packets
<1>4. queue' \in Seq(Packets) /\ Len(queue') = Len(queue)
  BY <1>2, <1>3, SeqDef, LenProperties
<1>5. DOMAIN latest' = DOMAIN latest /\ \A c \in DOMAIN latest' : latest'[c] \in Ages
  BY OlderType DEF Tick, TypeOK
<1>6. DOMAIN seen' = DOMAIN seen /\ \A c \in DOMAIN seen' : seen'[c] \in Ages
  BY OlderType DEF Tick, TypeOK
<1> QED BY <1>1, <1>4, <1>5, <1>6 DEF Tick, TypeOK, Packets, world

LEMMA CaptureType ==
  ASSUME TypeOK, NEW c \in Cameras, Capture(c) \/ PublishLate(c)
  PROVE  TypeOK'
<1>1. queue' = Published(c) /\ UNCHANGED <<world, clock, active, sync, due, target, lpc, bundle>>
  BY DEF Capture, PublishLate
<1>2. shot' \subseteq active /\ zombies' \subseteq Cameras
  BY DEF Capture, PublishLate, Delivering, TypeOK
<1>3. queue' \in Seq(Packets) /\ Len(queue') <= QueueSize
  BY <1>1, PublishedType DEF TypeOK, Packets
<1> QED BY <1>1, <1>2, <1>3 DEF TypeOK, world, sync, Packets

LEMMA ApplyType ==
  ASSUME TypeOK, ApplyRecords
  PROVE  TypeOK'
<1> DEFINE gone == {c \in active : c \notin target.cams \/ c \in target.moved}
           stay == active \ gone
           heard == Restrict(seen, DOMAIN seen \ gone)
<1>1. PICK kept \in Enumerations({i \in DOMAIN queue : queue[i].cam \notin gone}) :
        queue' = [i \in DOMAIN kept |-> queue[kept[i]]]
  BY DEF ApplyRecords
<1>2. queue' \in Seq(Packets) /\ Len(queue') \in Nat /\ Len(queue') <= Len(queue)
  BY <1>1, KeptPackets DEF TypeOK, Packets
<1>3. active' = stay \cup target.cams /\ shot' = shot \ gone /\ zombies' \subseteq zombies \cup gone
  BY DEF ApplyRecords
<1>4. active' \subseteq Cameras /\ shot' \subseteq active' /\ zombies' \subseteq Cameras
  BY <1>3 DEF TypeOK
<1>5. group' \subseteq Cameras
  BY <1>4 DEF ApplyRecords, Healthy, TypeOK
<1>6. DOMAIN seen' \subseteq Cameras /\ \A c \in DOMAIN seen' : seen'[c] \in Ages
  BY DEF ApplyRecords, Restrict, TypeOK
<1>7. latest' = <<>> \/ latest' = Restrict(latest, DOMAIN latest \ gone)
  BY DEF ApplyRecords, Retained
<1>8. DOMAIN latest' \subseteq DOMAIN latest /\ \A c \in DOMAIN latest' : latest'[c] \in Ages
  <2>1. CASE latest' = <<>>
    BY <2>1, EmptyDomain
  <2>2. CASE latest' = Restrict(latest, DOMAIN latest \ gone)
    BY <2>2 DEF Restrict, TypeOK
  <2> QED BY <1>7, <2>1, <2>2
<1>10. Len(queue) \in Nat
  BY LenProperties DEF TypeOK
<1>11. edited' \subseteq Cameras
  BY DEF ApplyRecords, TypeOK
<1>12. UNCHANGED <<records, up, changes, clock, due, target, bundle>> /\ lpc' = "get"
  BY DEF ApplyRecords
<1> HIDE DEF gone, stay, heard
<1> QED BY <1>2, <1>4, <1>5, <1>6, <1>8, <1>10, <1>11, <1>12 DEF TypeOK, Packets

LEMMA PutType ==
  ASSUME NEW d, DOMAIN d \subseteq Cameras, \A c \in DOMAIN d : d[c] \in Ages,
         NEW k \in Cameras, NEW v \in Ages
  PROVE  /\ DOMAIN Put(d, k, v) = DOMAIN d \cup {k} /\ Put(d, k, v)[k] = v
         /\ \A c \in DOMAIN Put(d, k, v) : Put(d, k, v)[c] \in Ages
BY DEF Put

LEMMA SubmitType ==
  ASSUME TypeOK, SubmitFrame
  PROVE  TypeOK'
<1> DEFINE p == Head(queue)
           heard == Put(seen, p.cam, p.age)
           newGroup == Healthy(heard, p.age, {p.cam}, active)
           old == Retained(latest, newGroup)
<1>1. /\ p \in Packets /\ queue' = Tail(queue) /\ queue' \in Seq(Packets)
      /\ Len(queue) \in Nat /\ Len(queue') = Len(queue) - 1
  BY HeadAndTail DEF SubmitFrame, TypeOK, Packets
<1>2. p.cam \in Cameras /\ p.age \in Ages
  BY <1>1 DEF Packets
<1>3. DOMAIN seen' \subseteq Cameras /\ \A c \in DOMAIN seen' : seen'[c] \in Ages
  <2>1. seen' = Put(seen, p.cam, p.age)
    BY DEF SubmitFrame
  <2>2. DOMAIN seen \subseteq Cameras /\ \A c \in DOMAIN seen : seen[c] \in Ages
    BY DEF TypeOK
  <2> HIDE DEF p
  <2>3. /\ DOMAIN Put(seen, p.cam, p.age) = DOMAIN seen \cup {p.cam}
        /\ \A c \in DOMAIN Put(seen, p.cam, p.age) : Put(seen, p.cam, p.age)[c] \in Ages
    BY ONLY <1>2, <2>2, PutType
  <2> QED BY ONLY <1>2, <2>1, <2>2, <2>3
<1>4. group' \subseteq Cameras /\ newGroup \subseteq Cameras /\ group' = newGroup
  BY DEF SubmitFrame, Healthy, TypeOK
<1>5. DOMAIN old \subseteq DOMAIN latest /\ \A c \in DOMAIN old : old[c] \in Ages
  <2>1. CASE old = <<>>
    <3> HIDE DEF old
    <3> QED BY <2>1, EmptyDomain
  <2>2. CASE old = latest
    <3> HIDE DEF old
    <3> QED BY <2>2 DEF TypeOK
  <2>3. old = <<>> \/ old = latest
    BY DEF Retained
  <2> HIDE DEF old
  <2> QED BY <2>1, <2>2, <2>3
<1>6. latest' = Put(old, p.cam, p.age)
  BY DEF SubmitFrame
<1> HIDE DEF old, newGroup, heard, p
<1>7. DOMAIN latest' = DOMAIN old \cup {p.cam} /\ \A c \in DOMAIN latest' : latest'[c] \in Ages
  BY <1>2, <1>5, <1>6, PutType DEF TypeOK
<1>9. bundle' \subseteq Cameras /\ lpc' \in {"process", "top"}
  BY <1>4 DEF SubmitFrame, TypeOK, newGroup, heard, p
<1>11. DOMAIN latest' \subseteq Cameras /\ Len(queue') <= QueueSize
  BY <1>1, <1>2, <1>5, <1>7 DEF TypeOK
<1> QED BY <1>1, <1>3, <1>4, <1>7, <1>9, <1>11
        DEF SubmitFrame, TypeOK, Packets, world, capture

LEMMA LoopType ==
  ASSUME TypeOK,
         RefreshDue \/ LoopTop \/ ReadRecords \/ DropInactive \/ FinishBundle
  PROVE  TypeOK'
<1>1. CASE RefreshDue
  BY <1>1 DEF RefreshDue, TypeOK, world, capture, sync
<1>2. CASE LoopTop
  BY <1>2 DEF LoopTop, TypeOK, world, capture, sync
<1>3. CASE ReadRecords
  BY <1>3 DEF ReadRecords, TypeOK, world, capture, sync
<1>4. CASE DropInactive
  <2>1. queue' \in Seq(Packets) /\ Len(queue) \in Nat /\ Len(queue') = Len(queue) - 1
    BY <1>4, HeadAndTail DEF DropInactive, TypeOK, Packets
  <2> QED BY <1>4, <2>1 DEF DropInactive, TypeOK, Packets, world, capture, sync
<1>5. CASE FinishBundle
  BY <1>5 DEF FinishBundle, TypeOK, world, capture, sync
<1> QED BY <1>1, <1>2, <1>3, <1>4, <1>5

\* Every variable keeps its type and the queue its bound, whatever records and sources do.
THEOREM TypeCorrect == Spec => []TypeOK
<1>1. TypeOK /\ [Next]_vars => TypeOK'
  <2> SUFFICES ASSUME TypeOK, [Next]_vars
               PROVE  TypeOK'
    OBVIOUS
  <2>1. CASE \E c \in Cameras :
               Activate(c) \/ Deactivate(c) \/ EditSource(c) \/ Fail(c) \/ Recover(c)
    BY <2>1, WorldType
  <2>2. CASE Tick
    BY <2>2, TickType
  <2>3. CASE \E c \in Cameras : Capture(c) \/ PublishLate(c)
    BY <2>3, CaptureType
  <2>4. CASE RefreshDue \/ LoopTop \/ ReadRecords \/ DropInactive \/ FinishBundle
    BY <2>4, LoopType
  <2>5. CASE ApplyRecords
    BY <2>5, ApplyType
  <2>6. CASE SubmitFrame
    BY <2>6, SubmitType
  <2>7. CASE UNCHANGED vars
    BY <2>7 DEF vars, TypeOK, world, capture, sync
  <2> QED BY <2>1, <2>2, <2>3, <2>4, <2>5, <2>6, <2>7 DEF Next, Loop
<1> QED BY <1>1, InitType, PTL DEF Spec

-----------------------------------------------------------------------------
(* The sync group.                                                         *)

LEMMA ApplyKeepsGroup ==
  ASSUME SyncGroupActive, ApplyRecords
  PROVE  SyncGroupActive'
<1> DEFINE gone == {c \in active : c \notin target.cams \/ c \in target.moved}
           stay == active \ gone
           heard == Restrict(seen, DOMAIN seen \ gone)
           changed == TopologyChanged(gone, target.cams \ stay)
           newGroup == IF changed THEN Healthy(heard, 0, {}, stay \cup target.cams) ELSE group
           kept == Restrict(latest, DOMAIN latest \ gone)
<1>1. active' = stay \cup target.cams /\ group' = newGroup /\ latest' = Retained(kept, newGroup)
  BY DEF ApplyRecords
<1>2. newGroup \subseteq active'
  <2>1. CASE changed
    BY <1>1, <2>1 DEF Healthy
  <2>2. CASE ~changed
    BY <1>1, <2>2 DEF TopologyChanged, SyncGroupActive
  <2> QED BY <2>1, <2>2
<1>3. DOMAIN kept \subseteq DOMAIN latest
  BY DEF Restrict
<1> HIDE DEF newGroup, kept, stay, gone, heard
<1>4. DOMAIN Retained(kept, newGroup) \subseteq newGroup
  BY <1>3, EmptyDomain DEF Retained, SyncGroupActive
<1> QED BY <1>1, <1>2, <1>4 DEF SyncGroupActive

LEMMA SubmitKeepsGroup ==
  ASSUME SyncGroupActive, SubmitFrame
  PROVE  SyncGroupActive'
<1> DEFINE p == Head(queue)
           heard == Put(seen, p.cam, p.age)
           newGroup == Healthy(heard, p.age, {p.cam}, active)
           old == Retained(latest, newGroup)
<1>1. /\ p.cam \in active /\ active' = active /\ group' = newGroup
      /\ latest' = Put(old, p.cam, p.age)
  BY DEF SubmitFrame, capture
<1>2. newGroup \subseteq active /\ (p.cam \in active => p.cam \in newGroup)
  BY DEF Healthy
<1> HIDE DEF newGroup, heard
<1>3. DOMAIN old \subseteq newGroup
  BY EmptyDomain DEF Retained, SyncGroupActive
<1> HIDE DEF old, p
<1>4. DOMAIN latest' = DOMAIN old \cup {p.cam}
  BY <1>1 DEF Put
<1> QED BY <1>1, <1>2, <1>3, <1>4 DEF SyncGroupActive

\* Whatever the records, the sources and late frames do, the synchronizer holds frames of
\* the sync group only, and the group active cameras only (runtime.py 292-336, 613-641).
THEOREM GroupAlwaysActive == Spec => []SyncGroupActive
<1>1. Init => SyncGroupActive
  BY EmptyDomain DEF Init, SyncGroupActive
<1>2. SyncGroupActive /\ [Next]_vars => SyncGroupActive'
  <2> SUFFICES ASSUME SyncGroupActive, [Next]_vars
               PROVE  SyncGroupActive'
    OBVIOUS
  <2>1. CASE ApplyRecords
    BY <2>1, ApplyKeepsGroup
  <2>2. CASE SubmitFrame
    BY <2>2, SubmitKeepsGroup
  <2>3. CASE Tick
    BY <2>3 DEF Tick, SyncGroupActive
  <2>4. CASE \E c \in Cameras :
               Activate(c) \/ Deactivate(c) \/ EditSource(c) \/ Fail(c) \/ Recover(c)
    BY <2>4 DEF Activate, Deactivate, EditSource, Fail, Recover, Change, SyncGroupActive, sync
  <2>5. CASE \E c \in Cameras : Capture(c) \/ PublishLate(c)
    BY <2>5 DEF Capture, PublishLate, SyncGroupActive, sync
  <2>6. CASE RefreshDue \/ LoopTop \/ ReadRecords \/ DropInactive \/ FinishBundle
    BY <2>6 DEF RefreshDue, LoopTop, ReadRecords, DropInactive, FinishBundle, SyncGroupActive,
                sync
  <2>7. CASE UNCHANGED vars
    BY <2>7 DEF vars, SyncGroupActive, sync
  <2> QED BY <2>1, <2>2, <2>3, <2>4, <2>5, <2>6, <2>7 DEF Next, Loop
<1> QED BY <1>1, <1>2, PTL DEF Spec

-----------------------------------------------------------------------------
(* Bundles.                                                                *)

LEMMA TickKeepsAligned ==
  ASSUME TypeOK, BundleAligned, Tick
  PROVE  BundleAligned'
<1> SUFFICES ASSUME lpc' = "process"
             PROVE  /\ bundle' = group' /\ bundle' # {}
                    /\ \A c, d \in bundle' :
                         c \in DOMAIN latest' /\ latest'[c] - latest'[d] <= Tolerance
  BY DEF BundleAligned
<1>1. lpc = "process" /\ bundle' = bundle /\ group' = group
      /\ latest' = [c \in DOMAIN latest |-> Older(latest[c])]
  BY DEF Tick
<1>2. bundle = group /\ bundle # {}
  BY <1>1 DEF BundleAligned
<1>3. ASSUME NEW c \in bundle, NEW d \in bundle
      PROVE  c \in DOMAIN latest' /\ latest'[c] - latest'[d] <= Tolerance
  <2>1. c \in DOMAIN latest /\ d \in DOMAIN latest /\ latest[c] - latest[d] <= Tolerance
    BY <1>1 DEF BundleAligned
  <2>2. latest[c] \in Ages /\ latest[d] \in Ages
    BY <2>1 DEF TypeOK
  <2> QED BY <1>1, <2>1, <2>2, OlderTogether
<1> QED BY <1>1, <1>2, <1>3

LEMMA SubmitAligns ==
  ASSUME SubmitFrame
  PROVE  BundleAligned'
<1> DEFINE p == Head(queue)
           heard == Put(seen, p.cam, p.age)
           newGroup == Healthy(heard, p.age, {p.cam}, active)
           packets == Put(Retained(latest, newGroup), p.cam, p.age)
<1> SUFFICES ASSUME lpc' = "process"
             PROVE  /\ bundle' = group' /\ bundle' # {}
                    /\ \A c, d \in bundle' :
                         c \in DOMAIN latest' /\ latest'[c] - latest'[d] <= Tolerance
  BY DEF BundleAligned
<1>1. /\ p.cam \in active /\ group' = newGroup /\ latest' = packets
      /\ IF Aligned(packets, newGroup) THEN lpc' = "process" /\ bundle' = newGroup
                                       ELSE lpc' = "top" /\ UNCHANGED bundle
  BY DEF SubmitFrame
<1>2. p.cam \in active => p.cam \in newGroup
  BY DEF Healthy
<1> HIDE DEF packets, newGroup, heard, p
<1>3. Aligned(packets, newGroup) /\ bundle' = newGroup
  BY <1>1
<1> QED BY <1>1, <1>2, <1>3 DEF Aligned

\* A bundle under way is the whole group, of packets the synchronizer retains, within
\* the tolerance, for any tolerance, period and phases (synchronizer.py 38-65).
THEOREM BundlesAlwaysAligned == Spec => []BundleAligned
<1>1. Init => BundleAligned
  BY DEF Init, BundleAligned
<1>2. TypeOK /\ BundleAligned /\ [Next]_vars => BundleAligned'
  <2> SUFFICES ASSUME TypeOK, BundleAligned, [Next]_vars
               PROVE  BundleAligned'
    OBVIOUS
  <2>1. CASE Tick
    BY <2>1, TickKeepsAligned
  <2>2. CASE SubmitFrame
    BY <2>2, SubmitAligns
  <2>3. CASE ApplyRecords \/ LoopTop \/ ReadRecords \/ DropInactive \/ FinishBundle
    <3>1. lpc' # "process"
      BY <2>3 DEF ApplyRecords, LoopTop, ReadRecords, DropInactive, FinishBundle
    <3> QED BY <3>1 DEF BundleAligned
  <2>4. CASE RefreshDue \/ UNCHANGED vars
    BY <2>4 DEF RefreshDue, vars, sync, BundleAligned
  <2>5. CASE \E c \in Cameras : Capture(c) \/ PublishLate(c)
    BY <2>5 DEF Capture, PublishLate, sync, BundleAligned
  <2>6. CASE \E c \in Cameras :
               Activate(c) \/ Deactivate(c) \/ EditSource(c) \/ Fail(c) \/ Recover(c)
    BY <2>6 DEF Activate, Deactivate, EditSource, Fail, Recover, Change, sync, BundleAligned
  <2> QED BY <2>1, <2>2, <2>3, <2>4, <2>5, <2>6 DEF Next, Loop
<1> QED BY <1>1, <1>2, TypeCorrect, PTL DEF Spec
=============================================================================
