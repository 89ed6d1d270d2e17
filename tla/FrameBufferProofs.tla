-------------------------- MODULE FrameBufferProofs --------------------------
(***************************************************************************)
(* Proofs about the frame buffer, for any number of cameras, any capacity  *)
(* of the queue, any number of slots and all the drop policies.            *)
(***************************************************************************)
EXTENDS FrameBuffer, SequenceTheorems, FiniteSetTheorems, TLAPS

(***************************************************************************)
(* Sequences of packets.                                                   *)
(***************************************************************************)

\* What get_nowait leaves in the queue.
LEMMA TailOfQueue ==
  ASSUME NEW q \in Seq(Packet), q # <<>>
  PROVE  /\ Head(q) \in Packet /\ Tail(q) \in Seq(Packet)
         /\ Len(q) \in Nat \ {0} /\ Len(Tail(q)) = Len(q) - 1
BY HeadTailProperties, EmptySeq

\* What discard_camera leaves in the queue: no more than there was.
LEMMA KeptOfQueue ==
  ASSUME NEW q \in Seq(Packet), NEW S \in SUBSET (DOMAIN q), NEW kept \in Enumerations(S)
  PROVE  /\ [i \in DOMAIN kept |-> q[kept[i]]] \in Seq(Packet)
         /\ Len([i \in DOMAIN kept |-> q[kept[i]]]) = Cardinality(S)
         /\ Cardinality(S) \in Nat /\ Cardinality(S) <= Len(q)
<1> DEFINE n == Cardinality(S)
           r == [i \in DOMAIN kept |-> q[kept[i]]]
<1>1. Len(q) \in Nat /\ DOMAIN q = 1 .. Len(q) /\ \A i \in 1 .. Len(q) : q[i] \in Packet
  BY LenProperties, ElementOfSeq
<1>2. IsFiniteSet(1 .. Len(q)) /\ Cardinality(1 .. Len(q)) = Len(q)
  BY <1>1, FS_Interval
<1>3. n \in Nat /\ n <= Len(q)
  BY <1>1, <1>2, FS_Subset, FS_CardinalityType
<1>4. kept \in [1 .. n -> S]
  BY DEF Enumerations
<1> HIDE DEF n
<1>5. r \in [1 .. n -> Packet]
  BY <1>1, <1>4
<1>6. r \in Seq(Packet) /\ Len(r) = n
  BY <1>3, <1>5, SeqDef, LenProperties
<1> QED BY <1>3, <1>6 DEF n

(***************************************************************************)
(* Type correctness.                                                       *)
(***************************************************************************)

LEMMA TypeInit == Init => TypeOK
<1> SUFFICES ASSUME Init PROVE TypeOK
  OBVIOUS
<1>1. \A c \in Cameras : NoPacket(c) \in Packet
  BY DEF NoPacket, Packet, NoSlot
<1>2. <<>> \in Seq(Packet) /\ Len(<<>>) <= QueueSize
  BY EmptySeq, QueueSizeAssumption
<1>3. <<>> \in [DOMAIN <<>> -> [cam : Cameras, seq : Nat]] /\ DOMAIN <<>> \subseteq Nat
  BY EmptySeq
<1> QED BY <1>1, <1>2, <1>3, SharedMemoryAssumption
        DEF Init, TypeOK, PublisherStates, LoopStates

(* The parts of the type invariant that a helper of the model changes.      *)

QueueTypeOK == queue \in Seq(Packet) /\ Len(queue) <= QueueSize

StoreTypeOK ==
  /\ DOMAIN slots \subseteq Nat
  /\ slots \in [DOMAIN slots -> [cam : Cameras, seq : Nat]]
  /\ available \subseteq Nat
  /\ inUse \subseteq Nat
  /\ nextSlot \in Nat

ThreadTypeOK == pc \in [Cameras -> PublisherStates]

Counters == [Cameras -> PublisherStates]

LEMMA GotoType ==
  ASSUME ThreadTypeOK, NEW c \in Cameras, NEW label \in PublisherStates
  PROVE  Goto(c, label) \in Counters
BY DEF ThreadTypeOK, Counters, Goto

LEMMA NotifyOneType ==
  ASSUME NEW threads \in Counters, NEW parked, NEW resumed \in PublisherStates,
         NotifyOne(parked, resumed, threads)
  PROVE  ThreadTypeOK'
BY DEF NotifyOne, Counters, ThreadTypeOK

LEMMA NotifyAllFullType ==
  ASSUME NEW threads \in Counters, NotifyAllFull(threads)
  PROVE  ThreadTypeOK'
BY DEF NotifyAllFull, Counters, ThreadTypeOK, PublisherStates

LEMMA DequeueType ==
  ASSUME QueueTypeOK, NEW threads \in Counters, Dequeue(threads)
  PROVE  QueueTypeOK' /\ ThreadTypeOK' /\ Head(queue) \in Packet
<1>1. ThreadTypeOK'
  BY NotifyOneType DEF Dequeue, PublisherStates
<1>2. /\ Head(queue) \in Packet /\ queue' \in Seq(Packet)
      /\ Len(queue) \in Nat \ {0} /\ Len(queue') = Len(queue) - 1
  BY TailOfQueue DEF Dequeue, QueueTypeOK
<1>3. Len(queue') <= QueueSize
  BY <1>2, QueueSizeAssumption DEF QueueTypeOK
<1> QED BY <1>1, <1>2, <1>3 DEF QueueTypeOK

LEMMA ReleaseType ==
  ASSUME StoreTypeOK, NEW p \in Packet, NEW threads \in Counters, Release(p, threads)
  PROVE  StoreTypeOK' /\ ThreadTypeOK'
<1>1. CASE p.slot \in inUse
  <2>1. ThreadTypeOK'
    BY <1>1, NotifyOneType DEF Release, PublisherStates
  <2> QED BY <1>1, <2>1 DEF Release, StoreTypeOK
<1>2. CASE p.slot \notin inUse
  BY <1>2 DEF Release, StoreTypeOK, store, ThreadTypeOK, Counters
<1> QED BY <1>1, <1>2

LEMMA AcquireType ==
  ASSUME StoreTypeOK, pkt \in [Cameras -> Packet], NEW c \in Cameras, AcquireSlot(c)
  PROVE  StoreTypeOK' /\ pkt' \in [Cameras -> Packet]
<1>1. \A s \in Nat : [pkt EXCEPT ![c].slot = s] \in [Cameras -> Packet]
  BY DEF Packet
<1>2. CASE TakeAvailable(c)
  BY <1>1, <1>2 DEF TakeAvailable, StoreTypeOK
<1>3. CASE CreateSlot(c)
  <2>1. Frame(NoPacket(c)) \in [cam : Cameras, seq : Nat]
    BY DEF Frame, NoPacket
  <2> QED BY <1>1, <1>3, <2>1 DEF CreateSlot, StoreTypeOK
<1> QED BY <1>2, <1>3 DEF AcquireSlot

LEMMA EnqueueType ==
  ASSUME QueueTypeOK, ThreadTypeOK, pkt \in [Cameras -> Packet], NEW c \in Cameras, Enqueue(c)
  PROVE  QueueTypeOK' /\ ThreadTypeOK'
<1>1. ThreadTypeOK'
  BY DEF Enqueue, Goto, ThreadTypeOK, PublisherStates
<1>2. pkt[c] \in Packet /\ Len(queue) \in Nat
  BY DEF QueueTypeOK
<1>3. queue' \in Seq(Packet) /\ Len(queue') = Len(queue) + 1
  BY <1>2, AppendProperties DEF Enqueue, QueueTypeOK
<1>4. Len(queue') <= QueueSize
  BY <1>2, <1>3, QueueSizeAssumption DEF Enqueue
<1> QED BY <1>1, <1>3, <1>4 DEF QueueTypeOK

LEMMA ForgetLocalsType ==
  ASSUME pkt \in [Cameras -> Packet], victim \in [Cameras -> Packet],
         NEW c \in Cameras, ForgetLocals(c)
  PROVE  pkt' \in [Cameras -> Packet] /\ victim' \in [Cameras -> Packet]
BY DEF ForgetLocals, Packet, NoPacket, NoSlot

LocalsTypeOK == pkt \in [Cameras -> Packet] /\ victim \in [Cameras -> Packet]

OtherTypeOK ==
  /\ policy \in Policies
  /\ attached \in BOOLEAN
  /\ leaked \subseteq Nat
  /\ armed \in BOOLEAN
  /\ event \in BOOLEAN
  /\ setCalls \in Nat
  /\ cpc \in LoopStates
  /\ held \subseteq Packet
  /\ doomed \subseteq Packet
  /\ drained \subseteq Packet

LEMMA TypeParts ==
  TypeOK <=> QueueTypeOK /\ StoreTypeOK /\ ThreadTypeOK /\ LocalsTypeOK /\ OtherTypeOK
BY DEF TypeOK, QueueTypeOK, StoreTypeOK, ThreadTypeOK, LocalsTypeOK, OtherTypeOK

LEMMA TypePartsPrimed ==
  QueueTypeOK' /\ StoreTypeOK' /\ ThreadTypeOK' /\ LocalsTypeOK' /\ OtherTypeOK' => TypeOK'
BY TypeParts, PTL

LEMMA PublishType ==
  ASSUME TypeOK, NEW c \in Cameras, Publish(c)
  PROVE  TypeOK'
<1> DEFINE Keeps == UNCHANGED <<policy, attached, leaked, armed, event, loop>>
<1>1. QueueTypeOK /\ StoreTypeOK /\ ThreadTypeOK /\ LocalsTypeOK /\ OtherTypeOK
  BY TypeParts
<1>2. \A label \in PublisherStates : Goto(c, label) \in Counters
  BY <1>1, GotoType
<1>3. pc \in Counters
  BY <1>1 DEF ThreadTypeOK, Counters
<1>4. pkt[c] \in Packet /\ victim[c] \in Packet
  BY <1>1 DEF LocalsTypeOK
<1>5. ASSUME Keeps, UNCHANGED setCalls PROVE OtherTypeOK'
  BY <1>1, <1>5 DEF OtherTypeOK, loop
<1>6. ASSUME UNCHANGED queue PROVE QueueTypeOK'
  BY <1>1, <1>6 DEF QueueTypeOK
<1>7. ASSUME UNCHANGED store PROVE StoreTypeOK'
  BY <1>1, <1>7 DEF StoreTypeOK, store
<1>8. ASSUME pc' \in Counters PROVE ThreadTypeOK'
  BY <1>8 DEF ThreadTypeOK, Counters
<1>9. ASSUME UNCHANGED <<pkt, victim>> PROVE LocalsTypeOK'
  BY <1>1, <1>9 DEF LocalsTypeOK
<1>10. CASE Capture(c)
  <2>1. pc' \in Counters
    BY <1>2, <1>10 DEF Capture, PublisherStates
  <2>2. LocalsTypeOK'
    BY <1>1, <1>10 DEF Capture, LocalsTypeOK, Packet
  <2> QED BY <1>5, <1>6, <1>7, <1>8, <1>10, <2>1, <2>2, TypePartsPrimed DEF Capture, signal
<1>11. CASE Acquire(c)
  <2>1. pc' \in Counters
    BY <1>1, <1>2, <1>11, PoliciesAssumption DEF Acquire, PublisherStates, OtherTypeOK
  <2>2. StoreTypeOK' /\ LocalsTypeOK'
    BY <1>1, <1>7, <1>9, <1>11, AcquireType DEF Acquire, LocalsTypeOK
  <2> QED BY <1>5, <1>6, <1>8, <1>11, <2>1, <2>2, TypePartsPrimed DEF Acquire, signal
<1>12. CASE EvictForSlot(c)
  <2>1. QueueTypeOK' /\ ThreadTypeOK' /\ LocalsTypeOK'
    <3>1. CASE Dequeue(Goto(c, "releaseForSlot")) /\ victim' = [victim EXCEPT ![c] = Head(queue)]
      BY <1>1, <1>2, <1>12, <3>1, DequeueType DEF EvictForSlot, PublisherStates, LocalsTypeOK
    <3>2. CASE pc' = Goto(c, "idle") /\ UNCHANGED <<queue, victim>>
      BY <1>2, <1>6, <1>8, <1>9, <1>12, <3>2 DEF EvictForSlot, PublisherStates
    <3> QED BY <1>12, <3>1, <3>2 DEF EvictForSlot
  <2> QED BY <1>5, <1>7, <1>12, <2>1, TypePartsPrimed DEF EvictForSlot, signal
<1>13. CASE ReleaseForSlot(c)
  <2>1. StoreTypeOK' /\ ThreadTypeOK'
    BY <1>1, <1>2, <1>4, <1>13, ReleaseType DEF ReleaseForSlot, PublisherStates
  <2> QED BY <1>5, <1>6, <1>9, <1>13, <2>1, TypePartsPrimed DEF ReleaseForSlot, signal
<1>14. CASE Reacquire(c)
  <2>1. pc' \in Counters
    BY <1>2, <1>14 DEF Reacquire, PublisherStates
  <2>2. StoreTypeOK' /\ LocalsTypeOK'
    BY <1>1, <1>7, <1>14, AcquireType, ForgetLocalsType DEF Reacquire, LocalsTypeOK
  <2> QED BY <1>5, <1>6, <1>8, <1>14, <2>1, <2>2, TypePartsPrimed DEF Reacquire, signal
<1>15. CASE Write(c)
  <2>1. pc' \in Counters
    BY <1>2, <1>15 DEF Write, PublisherStates
  <2>2. LocalsTypeOK'
    BY <1>1, <1>15, ForgetLocalsType DEF Write, LocalsTypeOK, Packet, NoPacket, NoSlot
  <2>3. StoreTypeOK'
    BY <1>1, <1>4, <1>15 DEF Write, StoreTypeOK, Frame, Packet
  <2> QED BY <1>5, <1>6, <1>8, <1>15, <2>1, <2>2, <2>3, TypePartsPrimed DEF Write, signal
<1>16. CASE Put(c)
  <2>1. QueueTypeOK' /\ ThreadTypeOK'
    <3>1. CASE Enqueue(c)
      BY <1>1, <3>1, EnqueueType DEF LocalsTypeOK
    <3>2. CASE ~Enqueue(c)
      <4>1. pc' \in Counters
        BY <1>1, <1>2, <1>16, <3>2, PoliciesAssumption DEF Put, PublisherStates, OtherTypeOK
      <4> QED BY <1>6, <1>8, <1>16, <3>2, <4>1 DEF Put
    <3> QED BY <3>1, <3>2
  <2> QED BY <1>5, <1>7, <1>9, <1>16, <2>1, TypePartsPrimed DEF Put, signal
<1>17. CASE BlockingPut(c)
  <2>1. QueueTypeOK' /\ ThreadTypeOK'
    <3>1. CASE Enqueue(c)
      BY <1>1, <3>1, EnqueueType DEF LocalsTypeOK
    <3>2. CASE ~Enqueue(c)
      BY <1>2, <1>6, <1>8, <1>17, <3>2 DEF BlockingPut, PublisherStates
    <3> QED BY <3>1, <3>2
  <2> QED BY <1>5, <1>7, <1>9, <1>17, <2>1, TypePartsPrimed DEF BlockingPut, signal
<1>18. CASE EvictForSpace(c)
  <2>1. QueueTypeOK' /\ ThreadTypeOK' /\ LocalsTypeOK'
    <3>1. CASE Dequeue(Goto(c, "releaseForSpace")) /\ victim' = [victim EXCEPT ![c] = Head(queue)]
      BY <1>1, <1>2, <1>18, <3>1, DequeueType DEF EvictForSpace, PublisherStates, LocalsTypeOK
    <3>2. CASE /\ pc' = Goto(c, "retryPut") /\ UNCHANGED queue
               /\ victim' = [victim EXCEPT ![c] = NoPacket(c)]
      BY <1>1, <1>2, <1>6, <1>8, <1>18, <3>2
         DEF EvictForSpace, PublisherStates, LocalsTypeOK, NoPacket, Packet, NoSlot
    <3> QED BY <1>18, <3>1, <3>2 DEF EvictForSpace
  <2> QED BY <1>5, <1>7, <1>18, <2>1, TypePartsPrimed DEF EvictForSpace, signal
<1>19. CASE ReleaseForSpace(c)
  <2>1. StoreTypeOK' /\ ThreadTypeOK'
    BY <1>1, <1>2, <1>4, <1>19, ReleaseType DEF ReleaseForSpace, PublisherStates
  <2> QED BY <1>5, <1>6, <1>9, <1>19, <2>1, TypePartsPrimed DEF ReleaseForSpace, signal
<1>20. CASE RetryPut(c)
  <2>1. QueueTypeOK' /\ ThreadTypeOK'
    <3>1. CASE Enqueue(c)
      BY <1>1, <3>1, EnqueueType DEF LocalsTypeOK
    <3>2. CASE ~Enqueue(c)
      BY <1>2, <1>6, <1>8, <1>20, <3>2 DEF RetryPut, PublisherStates
    <3> QED BY <3>1, <3>2
  <2> QED BY <1>5, <1>7, <1>9, <1>20, <2>1, TypePartsPrimed DEF RetryPut, signal
<1>21. CASE ReleaseOwn(c)
  <2>1. StoreTypeOK' /\ ThreadTypeOK'
    BY <1>1, <1>2, <1>4, <1>21, ReleaseType DEF ReleaseOwn, PublisherStates
  <2>2. LocalsTypeOK'
    BY <1>1, <1>21, ForgetLocalsType DEF ReleaseOwn, LocalsTypeOK
  <2> QED BY <1>5, <1>6, <1>21, <2>1, <2>2, TypePartsPrimed DEF ReleaseOwn, signal
<1>22. CASE Wakeup(c)
  <2>1. pc' \in Counters
    BY <1>2, <1>22 DEF Wakeup, PublisherStates
  <2>2. LocalsTypeOK'
    BY <1>1, <1>22, ForgetLocalsType DEF Wakeup, LocalsTypeOK
  <2>3. OtherTypeOK'
    BY <1>1, <1>22 DEF Wakeup, OtherTypeOK, loop
  <2> QED BY <1>6, <1>7, <1>8, <1>22, <2>1, <2>2, <2>3, TypePartsPrimed DEF Wakeup
<1> QED BY <1>10, <1>11, <1>12, <1>13, <1>14, <1>15, <1>16, <1>17, <1>18, <1>19, <1>20,
           <1>21, <1>22 DEF Publish

LEMMA ConsumeType ==
  ASSUME TypeOK, Consume
  PROVE  TypeOK'
<1>1. QueueTypeOK /\ StoreTypeOK /\ ThreadTypeOK /\ LocalsTypeOK /\ OtherTypeOK
  BY TypeParts
<1>2. pc \in Counters
  BY <1>1 DEF ThreadTypeOK, Counters
<1>3. ASSUME UNCHANGED <<queue, store, pc, pkt, victim>>, OtherTypeOK' PROVE TypeOK'
  BY <1>3 DEF TypeOK, OtherTypeOK, store
<1>4. CASE StartGet
  BY <1>1, <1>3, <1>4 DEF StartGet, OtherTypeOK, LoopStates
<1>5. CASE TryGet
  <2>1. CASE /\ Dequeue(pc) /\ held' = held \cup {Head(queue)} /\ cpc' = "out"
    <3>1. QueueTypeOK' /\ ThreadTypeOK' /\ Head(queue) \in Packet
      BY <1>1, <1>2, <2>1, DequeueType
    <3>2. OtherTypeOK'
      BY <1>1, <1>5, <2>1, <3>1 DEF TryGet, OtherTypeOK, signal, LoopStates
    <3>3. StoreTypeOK' /\ LocalsTypeOK'
      BY <1>1, <1>5 DEF TryGet, StoreTypeOK, LocalsTypeOK, store
    <3> QED BY <3>1, <3>2, <3>3, TypePartsPrimed
  <2>2. CASE queue = <<>> /\ cpc' = "clear" /\ UNCHANGED <<queue, pc, held>>
    BY <1>1, <1>3, <1>5, <2>2 DEF TryGet, OtherTypeOK, signal, LoopStates
  <2> QED BY <1>5, <2>1, <2>2 DEF TryGet
<1>6. CASE ClearEvent
  BY <1>1, <1>3, <1>6 DEF ClearEvent, OtherTypeOK, LoopStates
<1>7. CASE Recheck
  BY <1>1, <1>3, <1>7 DEF Recheck, OtherTypeOK, signal, LoopStates
<1>8. CASE RunSetCall
  BY <1>1, <1>3, <1>8 DEF RunSetCall, OtherTypeOK, loop
<1>9. CASE ResumeGet
  BY <1>1, <1>3, <1>9 DEF ResumeGet, OtherTypeOK, signal, LoopStates
<1>10. ASSUME NEW p \in held, ReleaseHeld(p) PROVE TypeOK'
  <2>1. StoreTypeOK' /\ ThreadTypeOK'
    BY <1>1, <1>2, <1>10, ReleaseType DEF ReleaseHeld, OtherTypeOK
  <2>2. QueueTypeOK' /\ LocalsTypeOK' /\ OtherTypeOK'
    BY <1>1, <1>10 DEF ReleaseHeld, QueueTypeOK, LocalsTypeOK, OtherTypeOK, signal
  <2> QED BY <2>1, <2>2, TypePartsPrimed
<1> QED BY <1>4, <1>5, <1>6, <1>7, <1>8, <1>9, <1>10 DEF Consume

LEMMA TidyType ==
  ASSUME TypeOK, Tidy
  PROVE  TypeOK'
<1>1. QueueTypeOK /\ StoreTypeOK /\ ThreadTypeOK /\ LocalsTypeOK /\ OtherTypeOK
  BY TypeParts
<1>2. pc \in Counters
  BY <1>1 DEF ThreadTypeOK, Counters
<1>3. \A i \in DOMAIN queue : queue[i] \in Packet
  BY <1>1, ElementOfSeq, LenProperties DEF QueueTypeOK
<1>4. ASSUME NEW c \in Cameras, Discard(c) PROVE TypeOK'
  <2> DEFINE S == {i \in DOMAIN queue : queue[i].cam # c}
  <2>1. PICK kept \in Enumerations(S) : queue' = [i \in DOMAIN kept |-> queue[kept[i]]]
    BY <1>4 DEF Discard
  <2>2. /\ queue' \in Seq(Packet) /\ Len(queue') = Cardinality(S)
        /\ Cardinality(S) \in Nat /\ Cardinality(S) <= Len(queue)
    BY <1>1, <2>1, KeptOfQueue DEF QueueTypeOK
  <2>3. Len(queue) \in Nat
    BY <1>1, LenProperties DEF QueueTypeOK
  <2>4. QueueTypeOK'
    BY <1>1, <2>2, <2>3, QueueSizeAssumption DEF QueueTypeOK
  <2>5. ThreadTypeOK'
    BY <1>2, <1>4, NotifyAllFullType DEF Discard, ThreadTypeOK, Counters
  <2>6. OtherTypeOK'
    BY <1>1, <1>3, <1>4 DEF Discard, OtherTypeOK, signal, LoopStates
  <2>7. StoreTypeOK' /\ LocalsTypeOK'
    BY <1>1, <1>4 DEF Discard, StoreTypeOK, LocalsTypeOK, store
  <2> QED BY <2>4, <2>5, <2>6, <2>7, TypePartsPrimed
<1>5. ASSUME NEW p \in doomed, ReleaseDoomed(p) PROVE TypeOK'
  <2>1. StoreTypeOK' /\ ThreadTypeOK'
    BY <1>1, <1>2, <1>5, ReleaseType DEF ReleaseDoomed, OtherTypeOK
  <2>2. QueueTypeOK' /\ LocalsTypeOK' /\ OtherTypeOK'
    BY <1>1, <1>5 DEF ReleaseDoomed, QueueTypeOK, LocalsTypeOK, OtherTypeOK, signal
  <2> QED BY <2>1, <2>2, TypePartsPrimed
<1>6. CASE EndDiscard
  BY <1>6 DEF EndDiscard, TypeOK, store, signal, LoopStates
<1>7. CASE Close
  <2>1. ThreadTypeOK'
    BY <1>2, <1>7, NotifyAllFullType DEF Close
  <2>2. QueueTypeOK'
    <3>1. <<>> \in Seq(Packet) /\ Len(<<>>) <= QueueSize
      BY EmptySeq, QueueSizeAssumption
    <3> QED BY <1>7, <3>1 DEF Close, QueueTypeOK
  <2>3. OtherTypeOK'
    BY <1>1, <1>3, <1>7 DEF Close, OtherTypeOK, signal, LoopStates
  <2>4. StoreTypeOK' /\ LocalsTypeOK'
    BY <1>1, <1>7 DEF Close, StoreTypeOK, LocalsTypeOK, store
  <2> QED BY <2>1, <2>2, <2>3, <2>4, TypePartsPrimed
<1>8. CASE ClearStore
  <2>1. StoreTypeOK'
    <3>1. <<>> \in [DOMAIN <<>> -> [cam : Cameras, seq : Nat]] /\ DOMAIN <<>> \subseteq Nat
      BY EmptySeq
    <3> QED BY <1>1, <1>8, <3>1 DEF ClearStore, StoreTypeOK
  <2>2. OtherTypeOK'
    BY <1>1, <1>8 DEF ClearStore, OtherTypeOK, StoreTypeOK, signal, LoopStates
  <2>3. QueueTypeOK' /\ ThreadTypeOK' /\ LocalsTypeOK'
    BY <1>1, <1>8 DEF ClearStore, QueueTypeOK, ThreadTypeOK, LocalsTypeOK
  <2> QED BY <2>1, <2>2, <2>3, TypePartsPrimed
<1>9. CASE Unlink
  <2>1. OtherTypeOK'
    BY <1>1, <1>9 DEF Unlink, OtherTypeOK, signal, LoopStates
  <2>2. QueueTypeOK' /\ StoreTypeOK' /\ ThreadTypeOK' /\ LocalsTypeOK'
    BY <1>1, <1>9 DEF Unlink, QueueTypeOK, StoreTypeOK, ThreadTypeOK, LocalsTypeOK, store
  <2> QED BY <2>1, <2>2, TypePartsPrimed
<1> QED BY <1>4, <1>5, <1>6, <1>7, <1>8, <1>9 DEF Tidy

LEMMA TypeNext == TypeOK /\ [Next]_vars => TypeOK'
<1> SUFFICES ASSUME TypeOK, [Next]_vars PROVE TypeOK'
  OBVIOUS
<1>1. CASE UNCHANGED vars
  BY <1>1 DEF vars, TypeOK, store, signal, loop
<1> QED BY <1>1, PublishType, ConsumeType, TidyType DEF Next

\* Whatever the threads do between two lock acquisitions, every variable of the
\* buffer keeps its type and the queue never exceeds its bound.
THEOREM TypeCorrect == Spec => []TypeOK
BY TypeInit, TypeNext, PTL DEF Spec

(***************************************************************************)
(* No wake-up is lost.                                                     *)
(***************************************************************************)

\* Inside get the threads know the loop, so that none skips its wake-up.
ArmedInGet == cpc \in {"try", "clear", "recheck", "wait"} => armed

\* The loop's part of NoLostWakeup.
LoopWoken ==
  cpc = "wait" /\ queue # <<>> => event \/ setCalls > 0 \/ \E c \in Cameras : pc[c] = "wakeup"

WakeupInv == LoopWoken /\ ArmedInGet

Waking(c) == pc[c] = "wakeup"

\* A notification resumes parked threads only.
LEMMA NotifyOneWaking ==
  ASSUME NEW threads \in Counters, NEW parked \in {"awaitSlot", "awaitSpace"}, NEW resumed,
         NotifyOne(parked, resumed, threads),
         NEW d \in Cameras, threads[d] = "wakeup"
  PROVE  Waking(d)'
BY DEF NotifyOne, Counters, Waking

LEMMA DequeueWaking ==
  ASSUME NEW threads \in Counters, Dequeue(threads), NEW d \in Cameras, threads[d] = "wakeup"
  PROVE  Waking(d)'
BY NotifyOneWaking DEF Dequeue

LEMMA ReleaseWaking ==
  ASSUME NEW p, NEW threads \in Counters, Release(p, threads),
         NEW d \in Cameras, threads[d] = "wakeup"
  PROVE  Waking(d)'
BY NotifyOneWaking DEF Release, Waking

\* A step of publish wakes the loop for what it queues, and leaves the wake-ups
\* of other threads alone.
LEMMA PublishWakes ==
  ASSUME TypeOK, NEW c \in Cameras, Publish(c)
  PROVE  /\ UNCHANGED <<cpc, armed, event>>
         /\ queue' # <<>> => queue # <<>> \/ Waking(c)'
         /\ \A d \in Cameras : Waking(d) => Waking(d)' \/ (Wakeup(c) /\ d = c)
         /\ setCalls' = IF Wakeup(c) /\ armed THEN setCalls + 1 ELSE setCalls
<1>1. ThreadTypeOK /\ QueueTypeOK
  BY TypeParts
<1>2. pc \in Counters /\ \A label \in PublisherStates : Goto(c, label) \in Counters
  BY <1>1, GotoType DEF ThreadTypeOK, Counters
<1>3. \A label, d : d \in Cameras /\ Waking(d) /\ d # c => Goto(c, label)[d] = "wakeup"
  BY <1>1 DEF Waking, Goto, ThreadTypeOK
<1>4. UNCHANGED <<cpc, armed, event>>
  BY DEF Publish, Capture, Acquire, EvictForSlot, ReleaseForSlot, Reacquire, Write, Put,
         BlockingPut, EvictForSpace, ReleaseForSpace, RetryPut, ReleaseOwn, Wakeup, loop, signal
<1>5. queue' # <<>> => queue # <<>> \/ Waking(c)'
  <2>1. Enqueue(c) => Waking(c)'
    BY <1>1 DEF Enqueue, Waking, Goto, ThreadTypeOK
  <2> QED BY <2>1 DEF Publish, Capture, Acquire, EvictForSlot, ReleaseForSlot, Reacquire, Write,
              Put, BlockingPut, EvictForSpace, ReleaseForSpace, RetryPut, ReleaseOwn, Wakeup, Dequeue
<1>6. ASSUME NEW d \in Cameras, Waking(d), ~(Wakeup(c) /\ d = c) PROVE Waking(d)'
  <2>1. CASE Wakeup(c)
    BY <1>3, <1>6, <2>1 DEF Wakeup, Waking
  <2>2. CASE ~Wakeup(c)
    <3>1. pc[c] # "wakeup" /\ d # c
      BY <1>6, <2>2 DEF Waking, Publish, Capture, Acquire, EvictForSlot, ReleaseForSlot, Reacquire,
         Write, Put, BlockingPut, EvictForSpace, ReleaseForSpace, RetryPut, ReleaseOwn
    <3>2. CASE EvictForSlot(c) \/ EvictForSpace(c)
      BY <1>2, <1>3, <1>6, <3>1, <3>2, DequeueWaking
         DEF EvictForSlot, EvictForSpace, Waking, PublisherStates
    <3>3. CASE ReleaseForSlot(c) \/ ReleaseForSpace(c) \/ ReleaseOwn(c)
      BY <1>2, <1>3, <1>6, <3>1, <3>3, ReleaseWaking
         DEF ReleaseForSlot, ReleaseForSpace, ReleaseOwn, PublisherStates
    <3>4. CASE \E label : pc' = Goto(c, label)
      BY <1>3, <1>6, <3>1, <3>4 DEF Waking
    <3> QED BY <2>2, <3>2, <3>3, <3>4 DEF Publish, Capture, Acquire, Reacquire, Write, Put,
                                          BlockingPut, RetryPut, Enqueue
  <2> QED BY <2>1, <2>2
<1>7. setCalls' = IF Wakeup(c) /\ armed THEN setCalls + 1 ELSE setCalls
  BY DEF Publish, Capture, Acquire, EvictForSlot, ReleaseForSlot, Reacquire, Write, Put,
         BlockingPut, EvictForSpace, ReleaseForSpace, RetryPut, ReleaseOwn, Wakeup, signal
<1> QED BY <1>4, <1>5, <1>6, <1>7

LEMMA WakeupInit == Init => WakeupInv
BY DEF Init, WakeupInv, LoopWoken, ArmedInGet

LEMMA WakeupNext == TypeOK /\ WakeupInv /\ [Next]_vars => WakeupInv'
<1> SUFFICES ASSUME TypeOK, WakeupInv, [Next]_vars PROVE WakeupInv'
  OBVIOUS
<1> USE DEF WakeupInv, LoopWoken, ArmedInGet
<1>1. setCalls \in Nat /\ pc \in Counters
  BY DEF TypeOK, Counters
<1>2. ASSUME NEW c \in Cameras, Publish(c) PROVE WakeupInv'
  <2>1. /\ UNCHANGED <<cpc, armed, event>>
        /\ queue' # <<>> => queue # <<>> \/ Waking(c)'
        /\ \A d \in Cameras : Waking(d) => Waking(d)' \/ (Wakeup(c) /\ d = c)
        /\ setCalls' = IF Wakeup(c) /\ armed THEN setCalls + 1 ELSE setCalls
    BY <1>2, PublishWakes
  <2> QED BY <1>1, <2>1 DEF Waking
<1>3. ASSUME Consume PROVE WakeupInv'
  <2>1. CASE cpc' # "wait"
    BY <1>3, <2>1 DEF Consume, StartGet, TryGet, ClearEvent, Recheck, RunSetCall, ResumeGet,
                      ReleaseHeld, signal, loop
  <2>2. CASE Recheck \/ RunSetCall
    BY <1>1, <2>2 DEF Recheck, RunSetCall, signal, loop
  <2>3. ASSUME NEW p \in held, ReleaseHeld(p) PROVE WakeupInv'
    <3>1. \A d \in Cameras : Waking(d) => Waking(d)'
      BY <1>1, <2>3, ReleaseWaking DEF ReleaseHeld, Waking
    <3> QED BY <2>3, <3>1 DEF ReleaseHeld, signal, Waking
  <2> QED BY <1>3, <2>1, <2>2, <2>3 DEF Consume, StartGet, TryGet, ClearEvent, ResumeGet
<1>4. ASSUME Tidy PROVE WakeupInv'
  BY <1>4 DEF Tidy, Discard, ReleaseDoomed, EndDiscard, Close, ClearStore, Unlink, signal
<1>5. CASE UNCHANGED vars
  BY <1>5 DEF vars, signal, loop
<1> QED BY <1>2, <1>3, <1>4, <1>5 DEF Next

(***************************************************************************)
(* The two condition variables notify enough threads.                      *)
(***************************************************************************)

\* The threads at `label`, by the program counters `threads`.
In(threads, label) == {c \in Cameras : threads[c] = label}

\* If a thread is parked there are no more things to take than threads on their way
\* to take one.
Enough(room, parked, resumed, threads) ==
  In(threads, parked) # {} => room <= Cardinality(In(threads, resumed))

SlotWaiters ==
  IsFiniteSet(available) /\ Enough(Cardinality(available), "awaitSlot", "acquire", pc)

SpaceWaiters == Enough(QueueSize - Len(queue), "awaitSpace", "blockingPut", pc)

LEMMA InFinite ==
  ASSUME NEW threads, NEW label
  PROVE  IsFiniteSet(In(threads, label)) /\ Cardinality(In(threads, label)) \in Nat
<1>1. In(threads, label) \in SUBSET Cameras
  BY DEF In
<1> QED BY <1>1, CamerasAssumption, FS_Subset, FS_CardinalityType

\* Fewer parked threads, more on their way and no more to take.
LEMMA EnoughKept ==
  ASSUME NEW room \in Int, NEW less \in Int, less <= room,
         NEW parked, NEW resumed, NEW before, NEW after,
         Enough(room, parked, resumed, before),
         In(after, parked) \subseteq In(before, parked),
         In(before, resumed) \subseteq In(after, resumed)
  PROVE  Enough(less, parked, resumed, after)
<1> SUFFICES ASSUME In(after, parked) # {} PROVE less <= Cardinality(In(after, resumed))
  BY DEF Enough
<1>1. room <= Cardinality(In(before, resumed))
  BY DEF Enough
<1>2. Cardinality(In(before, resumed)) <= Cardinality(In(after, resumed))
  BY InFinite, FS_Subset
<1> QED BY <1>1, <1>2, InFinite

\* A thread takes something and is gone.
LEMMA EnoughTaken ==
  ASSUME NEW room \in Int, NEW parked, NEW resumed, NEW before, NEW after,
         Enough(room, parked, resumed, before),
         In(after, parked) \subseteq In(before, parked),
         NEW c \in In(before, resumed), In(after, resumed) = In(before, resumed) \ {c}
  PROVE  Enough(room - 1, parked, resumed, after)
<1> SUFFICES ASSUME In(after, parked) # {} PROVE room - 1 <= Cardinality(In(after, resumed))
  BY DEF Enough
<1>1. room <= Cardinality(In(before, resumed))
  BY DEF Enough
<1>2. Cardinality(In(after, resumed)) = Cardinality(In(before, resumed)) - 1
  BY InFinite, FS_RemoveElement
<1> QED BY <1>1, <1>2, InFinite

\* There is one thing more to take, and one thread is notified if one is parked.
LEMMA EnoughNotified ==
  ASSUME NEW room \in Int, NEW more \in Int, more <= room + 1,
         NEW parked, NEW resumed, parked # resumed,
         NEW threads \in [Cameras -> PublisherStates],
         Enough(room, parked, resumed, threads), NotifyOne(parked, resumed, threads)
  PROVE  Enough(more, parked, resumed, pc')
<1>1. CASE In(threads, parked) = {}
  <2>1. pc' = threads
    BY <1>1 DEF NotifyOne, In
  <2> QED BY <1>1, <2>1 DEF Enough
<1>2. CASE In(threads, parked) # {}
  <2>1. PICK w \in In(threads, parked) : pc' = [threads EXCEPT ![w] = resumed]
    BY <1>2 DEF NotifyOne, In
  <2>2. w \notin In(threads, resumed) /\ In(pc', resumed) = In(threads, resumed) \cup {w}
    BY <2>1 DEF In
  <2>3. Cardinality(In(pc', resumed)) = Cardinality(In(threads, resumed)) + 1
    BY <2>2, InFinite, FS_AddElement
  <2>4. room <= Cardinality(In(threads, resumed))
    BY <1>2 DEF Enough
  <2> QED BY <2>3, <2>4, InFinite DEF Enough
<1> QED BY <1>1, <1>2

\* The threads of the other condition stay where they are.
LEMMA NotifiedOthers ==
  ASSUME NEW parked, NEW resumed, NEW label, label \notin {parked, resumed},
         NEW threads \in [Cameras -> PublisherStates], NotifyOne(parked, resumed, threads)
  PROVE  In(pc', label) = In(threads, label)
BY DEF NotifyOne, In

LEMMA GotoIn ==
  ASSUME ThreadTypeOK, NEW c \in Cameras, NEW label, NEW other
  PROVE  In(Goto(c, label), other)
           = IF other = label THEN In(pc, other) \cup {c} ELSE In(pc, other) \ {c}
BY DEF ThreadTypeOK, In, Goto

\* Where the two condition variables park threads and resume them.
Crossing == {"awaitSlot", "acquire", "awaitSpace", "blockingPut"}

LEMMA CountsOK ==
  ASSUME TypeOK, SlotWaiters
  PROVE  /\ Cardinality(available) \in Nat /\ Len(queue) \in Nat /\ QueueSize \in Nat
         /\ QueueSize - Len(queue) \in Int
BY FS_CardinalityType, LenProperties, QueueSizeAssumption DEF TypeOK, SlotWaiters

LEMMA DequeueWaits ==
  ASSUME TypeOK, SlotWaiters, SpaceWaiters, NEW threads \in [Cameras -> PublisherStates],
         \A label \in Crossing : In(threads, label) = In(pc, label),
         Dequeue(threads), UNCHANGED available
  PROVE  SlotWaiters' /\ SpaceWaiters'
<1> USE DEF Crossing
<1>1. Len(queue') = Len(queue) - 1 /\ Len(queue') \in Nat
  BY TailOfQueue, CountsOK DEF Dequeue, TypeOK
<1>2. Enough(QueueSize - Len(queue), "awaitSpace", "blockingPut", threads)
  BY DEF SpaceWaiters, Enough
<1>3. QueueSize - Len(queue') \in Int /\ QueueSize - Len(queue') <= QueueSize - Len(queue) + 1
  BY <1>1, CountsOK
<1>4. NotifyOne("awaitSpace", "blockingPut", threads)
  BY DEF Dequeue
<1>5. Enough(QueueSize - Len(queue'), "awaitSpace", "blockingPut", pc')
  BY <1>2, <1>3, <1>4, CountsOK, EnoughNotified
<1>6. /\ In(pc', "awaitSlot") = In(pc, "awaitSlot")
      /\ In(pc', "acquire") = In(pc, "acquire")
  BY <1>4, NotifiedOthers
<1>7. Enough(Cardinality(available'), "awaitSlot", "acquire", pc')
  BY <1>6 DEF SlotWaiters, Enough
<1> QED BY <1>5, <1>7 DEF SlotWaiters, SpaceWaiters

LEMMA ReleaseWaits ==
  ASSUME TypeOK, SlotWaiters, SpaceWaiters, NEW threads \in [Cameras -> PublisherStates],
         \A label \in Crossing : In(threads, label) = In(pc, label),
         NEW p, Release(p, threads), UNCHANGED queue
  PROVE  SlotWaiters' /\ SpaceWaiters'
<1> USE DEF Crossing
<1>1. CASE p.slot \notin inUse
  <2>1. pc' = threads /\ UNCHANGED <<available, queue>>
    BY <1>1 DEF Release, store
  <2> QED BY <2>1 DEF SlotWaiters, SpaceWaiters, Enough
<1>2. CASE p.slot \in inUse
  <2>1. available' = available \cup {p.slot} /\ NotifyOne("awaitSlot", "acquire", threads)
    BY <1>2 DEF Release
  <2>2. /\ IsFiniteSet(available') /\ Cardinality(available') \in Int
        /\ Cardinality(available') <= Cardinality(available) + 1
    <3>1. IsFiniteSet(available)
      BY DEF SlotWaiters
    <3>2. /\ IsFiniteSet(available \cup {p.slot})
          /\ Cardinality(available \cup {p.slot})
               = IF p.slot \in available THEN Cardinality(available) ELSE Cardinality(available) + 1
      BY <3>1, FS_AddElement
    <3> QED BY <2>1, <3>2, CountsOK
  <2>3. Enough(Cardinality(available), "awaitSlot", "acquire", threads)
    BY DEF SlotWaiters, Enough
  <2>4. Enough(Cardinality(available'), "awaitSlot", "acquire", pc')
    BY <2>1, <2>2, <2>3, CountsOK, EnoughNotified
  <2>5. /\ In(pc', "awaitSpace") = In(pc, "awaitSpace")
        /\ In(pc', "blockingPut") = In(pc, "blockingPut")
    BY <2>1, NotifiedOthers
  <2>6. Enough(QueueSize - Len(queue'), "awaitSpace", "blockingPut", pc')
    BY <2>5 DEF SpaceWaiters, Enough
  <2> QED BY <2>2, <2>4, <2>6 DEF SlotWaiters, SpaceWaiters
<1> QED BY <1>1, <1>2

\* A thread that was not on its way to take anything goes where no thread is parked.
LEMMA GotoWaits ==
  ASSUME TypeOK, SlotWaiters, SpaceWaiters, NEW c \in Cameras, NEW label, pc' = Goto(c, label),
         pc[c] \notin {"acquire", "blockingPut"}, label \notin Parked,
         available' \subseteq available, UNCHANGED queue
  PROVE  SlotWaiters' /\ SpaceWaiters'
<1>1. \A other \in Parked : In(pc', other) \subseteq In(pc, other)
  BY GotoIn, TypeParts DEF Parked
<1>2. \A other \in {"acquire", "blockingPut"} : In(pc, other) \subseteq In(pc', other)
  <2>1. \A other \in {"acquire", "blockingPut"} : c \notin In(pc, other)
    BY DEF In
  <2> QED BY <2>1, GotoIn, TypeParts
<1>3. IsFiniteSet(available') /\ Cardinality(available') <= Cardinality(available)
  BY FS_Subset DEF SlotWaiters
<1>4. Cardinality(available') \in Int
  BY <1>3, FS_CardinalityType
<1>5. Enough(Cardinality(available'), "awaitSlot", "acquire", pc')
  BY <1>1, <1>2, <1>3, <1>4, CountsOK, EnoughKept DEF SlotWaiters, Parked
<1>6. Enough(QueueSize - Len(queue'), "awaitSpace", "blockingPut", pc')
  BY <1>1, <1>2, CountsOK, EnoughKept DEF SpaceWaiters, Parked
<1> QED BY <1>3, <1>5, <1>6 DEF SlotWaiters, SpaceWaiters

LEMMA EnqueueWaits ==
  ASSUME TypeOK, SlotWaiters, SpaceWaiters, NEW c \in Cameras, Enqueue(c),
         pc[c] \in {"put", "blockingPut", "retryPut"}, UNCHANGED available
  PROVE  SlotWaiters' /\ SpaceWaiters'
<1>1. pc' = Goto(c, "wakeup") /\ c \notin In(pc, "acquire") /\ c \notin In(pc, "awaitSpace")
  BY DEF Enqueue, In
<1>2. \A other : other # "wakeup" => In(pc', other) = In(pc, other) \ {c}
  BY <1>1, GotoIn, TypeParts
<1>3. Enough(Cardinality(available'), "awaitSlot", "acquire", pc')
  BY <1>1, <1>2, CountsOK, EnoughKept DEF SlotWaiters
<1>4. Len(queue') = Len(queue) + 1
  <2>1. queue \in Seq(Packet) /\ pkt[c] \in Packet
    BY DEF TypeOK
  <2> QED BY <2>1, AppendProperties DEF Enqueue
<1>5. QueueSize - Len(queue') = (QueueSize - Len(queue)) - 1
  BY <1>4, CountsOK
<1>6. Enough(QueueSize - Len(queue'), "awaitSpace", "blockingPut", pc')
  <2>1. CASE pc[c] = "blockingPut"
    <3>1. c \in In(pc, "blockingPut")
      BY <2>1 DEF In
    <3> QED BY <1>2, <1>5, <3>1, CountsOK, EnoughTaken DEF SpaceWaiters
  <2>2. CASE pc[c] # "blockingPut"
    <3>1. c \notin In(pc, "blockingPut")
      BY <2>2 DEF In
    <3>2. QueueSize - Len(queue') \in Int /\ QueueSize - Len(queue') <= QueueSize - Len(queue)
      BY <1>5, CountsOK
    <3> QED BY <1>2, <3>1, <3>2, CountsOK, EnoughKept DEF SpaceWaiters
  <2> QED BY <2>1, <2>2
<1> QED BY <1>3, <1>6 DEF SlotWaiters, SpaceWaiters

\* Nothing is available when a thread parks for a slot, nor space when one parks for space.
LEMMA AcquireWaits ==
  ASSUME TypeOK, SlotWaiters, SpaceWaiters, NEW c \in Cameras, Acquire(c)
  PROVE  SlotWaiters' /\ SpaceWaiters'
<1>1. UNCHANGED queue /\ c \in In(pc, "acquire")
  BY DEF Acquire, In
<1>2. \A other : other # "acquire" => c \notin In(pc, other)
  BY <1>1 DEF In
<1>3. PICK label \in {"write", "awaitSlot", "evictForSlot", "idle"} : pc' = Goto(c, label)
  <2>1. policy \in {"drop_oldest", "drop_newest", "block"}
    BY PoliciesAssumption DEF TypeOK
  <2> QED BY <2>1 DEF Acquire
<1>4. Enough(QueueSize - Len(queue'), "awaitSpace", "blockingPut", pc')
  <2>1. /\ In(pc', "awaitSpace") = In(pc, "awaitSpace")
        /\ In(pc', "blockingPut") = In(pc, "blockingPut")
    BY <1>2, <1>3, GotoIn, TypeParts
  <2> QED BY <1>1, <2>1 DEF SpaceWaiters, Enough
<1>5. IsFiniteSet(available') /\ Enough(Cardinality(available'), "awaitSlot", "acquire", pc')
  <2>1. CASE available = {}
    <3>1. available' = {}
      BY <2>1 DEF Acquire, AcquireSlot, TakeAvailable, CreateSlot, store
    <3> QED BY <3>1, FS_EmptySet, InFinite DEF Enough
  <2>2. CASE available # {}
    <3>1. PICK s \in available : available' = available \ {s} /\ pc' = Goto(c, "write")
      BY <2>2 DEF Acquire, AcquireSlot, TakeAvailable, CreateSlot, SlotsExhausted
    <3>2. IsFiniteSet(available') /\ Cardinality(available') = Cardinality(available) - 1
      BY <3>1, FS_RemoveElement DEF SlotWaiters
    <3>3. /\ In(pc', "awaitSlot") \subseteq In(pc, "awaitSlot")
          /\ In(pc', "acquire") = In(pc, "acquire") \ {c}
      BY <3>1, GotoIn, TypeParts
    <3>4. Enough(Cardinality(available) - 1, "awaitSlot", "acquire", pc')
      <4>1. Cardinality(available) \in Int /\ Enough(Cardinality(available), "awaitSlot", "acquire", pc)
        BY CountsOK DEF SlotWaiters
      <4> QED BY <1>1, <3>3, <4>1, EnoughTaken
    <3> QED BY <3>2, <3>4
  <2> QED BY <2>1, <2>2
<1> QED BY <1>4, <1>5 DEF SlotWaiters, SpaceWaiters

LEMMA ParkWaits ==
  ASSUME TypeOK, SlotWaiters, SpaceWaiters, NEW c \in Cameras,
         pc[c] = "blockingPut", pc' = Goto(c, "awaitSpace"), Len(queue) >= QueueSize,
         UNCHANGED <<queue, available>>
  PROVE  SlotWaiters' /\ SpaceWaiters'
<1>1. QueueSize - Len(queue') <= 0 /\ QueueSize - Len(queue') \in Int
  BY CountsOK
<1>2. Enough(QueueSize - Len(queue'), "awaitSpace", "blockingPut", pc')
  BY <1>1, InFinite DEF Enough
<1>3. In(pc', "awaitSlot") = In(pc, "awaitSlot") /\ In(pc', "acquire") = In(pc, "acquire")
  <2>1. c \notin In(pc, "awaitSlot") /\ c \notin In(pc, "acquire")
    BY DEF In
  <2>2. /\ In(pc', "awaitSlot") = In(pc, "awaitSlot") \ {c}
        /\ In(pc', "acquire") = In(pc, "acquire") \ {c}
    BY GotoIn, TypeParts
  <2> QED BY <2>1, <2>2
<1> QED BY <1>2, <1>3 DEF SlotWaiters, SpaceWaiters, Enough

LEMMA PublishWaits ==
  ASSUME TypeOK, SlotWaiters, SpaceWaiters, NEW c \in Cameras, Publish(c)
  PROVE  SlotWaiters' /\ SpaceWaiters'
<1> DEFINE Keeps(threads) == /\ threads \in [Cameras -> PublisherStates]
                             /\ \A label \in Crossing : In(threads, label) = In(pc, label)
<1>1. ASSUME NEW label \in PublisherStates \ Crossing, pc[c] \notin Crossing
      PROVE  Keeps(Goto(c, label))
  <2>1. \A other \in Crossing : c \notin In(pc, other)
    BY <1>1 DEF In
  <2>2. ASSUME NEW other \in Crossing PROVE In(Goto(c, label), other) = In(pc, other)
    <3>1. other # label /\ c \notin In(pc, other)
      BY <1>1, <2>1
    <3>2. In(Goto(c, label), other) = In(pc, other) \ {c}
      BY <3>1, GotoIn, TypeParts
    <3> QED BY <3>1, <3>2
  <2>3. Goto(c, label) \in [Cameras -> PublisherStates]
    BY GotoType, TypeParts DEF Counters
  <2> QED BY <2>2, <2>3
<1>2. CASE Acquire(c)
  BY <1>2, AcquireWaits
<1>3. CASE EvictForSlot(c) \/ EvictForSpace(c)
  <2>1. pc[c] \notin Crossing /\ UNCHANGED available
    BY <1>3 DEF EvictForSlot, EvictForSpace, Crossing, store
  <2>2. \/ \E label \in {"releaseForSlot", "releaseForSpace"} : Dequeue(Goto(c, label))
        \/ UNCHANGED queue /\ \E label \in {"idle", "retryPut"} : pc' = Goto(c, label)
    BY <1>3 DEF EvictForSlot, EvictForSpace
  <2>3. ASSUME NEW label \in {"releaseForSlot", "releaseForSpace"}, Dequeue(Goto(c, label))
        PROVE  SlotWaiters' /\ SpaceWaiters'
    <3>1. Keeps(Goto(c, label))
      BY <1>1, <2>1, <2>3 DEF Crossing, PublisherStates
    <3> QED BY <2>1, <2>3, <3>1, DequeueWaits
  <2> QED BY <2>1, <2>2, <2>3, GotoWaits DEF Crossing, Parked
<1>4. CASE ReleaseForSlot(c) \/ ReleaseForSpace(c) \/ ReleaseOwn(c)
  <2>1. pc[c] \notin Crossing /\ UNCHANGED queue
    BY <1>4 DEF ReleaseForSlot, ReleaseForSpace, ReleaseOwn, Crossing
  <2>2. PICK label \in {"reacquire", "retryPut", "idle"} :
          Release(victim[c], Goto(c, label)) \/ Release(pkt[c], Goto(c, label))
    BY <1>4 DEF ReleaseForSlot, ReleaseForSpace, ReleaseOwn
  <2>3. Keeps(Goto(c, label))
    BY <1>1, <2>1 DEF Crossing, PublisherStates
  <2> QED BY <2>1, <2>2, <2>3, ReleaseWaits
<1>5. CASE (Put(c) \/ BlockingPut(c) \/ RetryPut(c)) /\ Enqueue(c)
  BY <1>5, EnqueueWaits DEF Put, BlockingPut, RetryPut, store
<1>6. CASE BlockingPut(c) /\ ~Enqueue(c)
  BY <1>6, ParkWaits DEF BlockingPut, store
<1>7. CASE (Put(c) \/ RetryPut(c)) /\ ~Enqueue(c)
  <2>1. policy \in {"drop_oldest", "drop_newest", "block"}
    BY PoliciesAssumption DEF TypeOK
  <2>2. PICK label \in {"blockingPut", "evictForSpace", "releaseOwn"} : pc' = Goto(c, label)
    BY <1>7, <2>1 DEF Put, RetryPut
  <2>3. pc[c] \notin Crossing /\ UNCHANGED <<queue, available>>
    BY <1>7 DEF Put, RetryPut, Crossing, store
  <2> QED BY <2>2, <2>3, GotoWaits DEF Crossing, Parked
<1>8. CASE Capture(c) \/ Reacquire(c) \/ Write(c) \/ Wakeup(c)
  <2>1. PICK label \in {"acquire", "put", "write", "idle"} : pc' = Goto(c, label)
    BY <1>8 DEF Capture, Reacquire, Write, Wakeup
  <2>2. pc[c] \notin Crossing /\ UNCHANGED queue
    BY <1>8 DEF Capture, Reacquire, Write, Wakeup, Crossing
  <2>3. available' \subseteq available
    BY <1>8 DEF Capture, Reacquire, Write, Wakeup, AcquireSlot, TakeAvailable, CreateSlot, store
  <2> QED BY <2>1, <2>2, <2>3, GotoWaits DEF Crossing, Parked
<1> QED BY <1>2, <1>3, <1>4, <1>5, <1>6, <1>7, <1>8 DEF Publish

\* discard_camera notifies nobody only if it takes nothing out.
LEMMA DiscardNothing ==
  ASSUME TypeOK, NEW c \in Cameras, Discard(c), doomed' = {}
  PROVE  Len(queue') = Len(queue)
<1> DEFINE S == {i \in DOMAIN queue : queue[i].cam # c}
<1>1. S = DOMAIN queue
  <2>1. {queue[i] : i \in {j \in DOMAIN queue : queue[j].cam = c}} = {}
    BY DEF Discard
  <2>2. \A j \in DOMAIN queue : queue[j].cam # c
    BY <2>1
  <2> QED BY <2>2
<1>2. PICK kept \in Enumerations(S) : queue' = [i \in DOMAIN kept |-> queue[kept[i]]]
  BY DEF Discard
<1>3. Len(queue') = Cardinality(S)
  BY <1>1, <1>2, KeptOfQueue DEF TypeOK
<1> HIDE DEF S
<1>4. queue \in Seq(Packet)
  BY DEF TypeOK
<1>5. Len(queue) \in Nat /\ DOMAIN queue = 1 .. Len(queue)
  BY <1>4, LenProperties
<1>6. IsFiniteSet(1 .. Len(queue)) /\ Cardinality(1 .. Len(queue)) = Len(queue)
  <2> DEFINE n == Len(queue)
  <2>1. n \in Nat
    BY <1>5
  <2> HIDE DEF n
  <2>2. IsFiniteSet(1 .. n) /\ Cardinality(1 .. n) = IF 1 > n THEN 0 ELSE n - 1 + 1
    BY <2>1, FS_Interval
  <2>3. IsFiniteSet(1 .. n) /\ Cardinality(1 .. n) = n
    BY <2>1, <2>2
  <2> QED BY <2>3 DEF n
<1> QED BY <1>1, <1>3, <1>5, <1>6

LEMMA NotifyAllWaits ==
  ASSUME TypeOK, SlotWaiters, NotifyAllFull(pc), UNCHANGED available
  PROVE  SlotWaiters' /\ SpaceWaiters'
<1>1. pc \in [Cameras -> PublisherStates]
  BY DEF TypeOK
<1>2. In(pc', "awaitSpace") = {}
  BY <1>1 DEF NotifyAllFull, In
<1>3. In(pc', "awaitSlot") = In(pc, "awaitSlot") /\ In(pc', "acquire") = In(pc, "acquire")
  BY <1>1 DEF NotifyAllFull, In
<1> QED BY <1>2, <1>3 DEF SlotWaiters, SpaceWaiters, Enough

LEMMA LoopWaits ==
  ASSUME TypeOK, SlotWaiters, SpaceWaiters, Consume \/ Tidy \/ UNCHANGED vars
  PROVE  SlotWaiters' /\ SpaceWaiters'
<1>1. pc \in [Cameras -> PublisherStates]
  BY DEF TypeOK
<1>2. ASSUME UNCHANGED <<queue, available, pc>> PROVE SlotWaiters' /\ SpaceWaiters'
  BY <1>2 DEF SlotWaiters, SpaceWaiters
<1>3. CASE StartGet \/ ClearEvent \/ Recheck \/ RunSetCall \/ ResumeGet \/ EndDiscard \/ Unlink
  BY <1>2, <1>3 DEF StartGet, ClearEvent, Recheck, RunSetCall, ResumeGet, EndDiscard, Unlink, store
<1>4. CASE TryGet
  <2>1. CASE Dequeue(pc)
    BY <1>1, <1>4, <2>1, DequeueWaits DEF TryGet, store
  <2> QED BY <1>2, <1>4, <2>1 DEF TryGet, store
<1>5. CASE (\E p \in held : ReleaseHeld(p)) \/ (\E p \in doomed : ReleaseDoomed(p))
  BY <1>1, <1>5, ReleaseWaits DEF ReleaseHeld, ReleaseDoomed
<1>6. ASSUME NEW c \in Cameras, Discard(c) PROVE SlotWaiters' /\ SpaceWaiters'
  <2>1. UNCHANGED available
    BY <1>6 DEF Discard, store
  <2>2. CASE doomed' # {}
    BY <1>6, <2>1, <2>2, NotifyAllWaits DEF Discard
  <2>3. CASE doomed' = {}
    <3>1. pc' = pc /\ Len(queue') = Len(queue)
      BY <1>6, <2>3, DiscardNothing DEF Discard
    <3> QED BY <2>1, <3>1 DEF SlotWaiters, SpaceWaiters
  <2> QED BY <2>2, <2>3
<1>7. CASE Close
  BY <1>7, NotifyAllWaits DEF Close, store
<1>8. CASE ClearStore
  BY <1>8, FS_EmptySet, InFinite DEF ClearStore, SlotWaiters, SpaceWaiters, Enough
<1>9. CASE UNCHANGED vars
  BY <1>2, <1>9 DEF vars, store
<1> QED BY <1>3, <1>4, <1>5, <1>6, <1>7, <1>8, <1>9 DEF Consume, Tidy

WaitersInv == SlotWaiters /\ SpaceWaiters

LEMMA WaitersInit == Init => WaitersInv
BY FS_EmptySet DEF Init, WaitersInv, SlotWaiters, SpaceWaiters, Enough, In

LEMMA WaitersNext == TypeOK /\ WaitersInv /\ [Next]_vars => WaitersInv'
BY PublishWaits, LoopWaits DEF WaitersInv, Next

\* A parked thread is parked because there is nothing to take, or another is on its way.
LEMMA ThreadsWoken ==
  ASSUME TypeOK, WaitersInv, NEW c \in Cameras
  PROVE  /\ pc[c] = "awaitSlot" /\ available # {} => \E d \in Cameras : pc[d] = "acquire"
         /\ pc[c] = "awaitSpace" /\ Len(queue) < QueueSize =>
              \E d \in Cameras : pc[d] = "blockingPut"
<1>1. SlotWaiters /\ SpaceWaiters
  BY DEF WaitersInv
<1>2. \A label : Cardinality(In(pc, label)) # 0 => \E d \in Cameras : pc[d] = label
  BY FS_EmptySet DEF In
<1>3. \A label : pc[c] = label => In(pc, label) # {}
  BY DEF In
<1>4. ASSUME pc[c] = "awaitSlot", available # {} PROVE \E d \in Cameras : pc[d] = "acquire"
  <2>1. Cardinality(available) <= Cardinality(In(pc, "acquire"))
    BY <1>1, <1>3, <1>4 DEF SlotWaiters, Enough
  <2>2. Cardinality(available) # 0
    BY <1>1, <1>4, FS_EmptySet DEF SlotWaiters
  <2> QED BY <1>1, <1>2, <2>1, <2>2, CountsOK, InFinite
<1>5. ASSUME pc[c] = "awaitSpace", Len(queue) < QueueSize
      PROVE  \E d \in Cameras : pc[d] = "blockingPut"
  <2>1. QueueSize - Len(queue) <= Cardinality(In(pc, "blockingPut"))
    BY <1>1, <1>3, <1>5 DEF SpaceWaiters, Enough
  <2> QED BY <1>1, <1>2, <1>5, <2>1, CountsOK, InFinite
<1> QED BY <1>4, <1>5

\* No wake-up is lost, however many threads publish: a thread schedules the wake-up of the
\* loop after it has queued its frame, and inside get no callback runs before the loop
\* waits; and every slot and every place that becomes free notifies a thread parked for it.
THEOREM WakeupNeverLost == Spec => []NoLostWakeup
<1>1. TypeOK /\ WakeupInv /\ WaitersInv => NoLostWakeup
  BY ThreadsWoken DEF WakeupInv, LoopWoken, NoLostWakeup
<1> QED BY <1>1, TypeCorrect, WakeupInit, WakeupNext, WaitersInit, WaitersNext, PTL DEF Spec

(***************************************************************************)
(* Every slot has one owner.                                               *)
(***************************************************************************)

(* What a step does to the slots the threads own.                           *)

Owning == (Holding \cup {"write"}) \ {"wakeup"}
Releasing == {"releaseForSlot", "releaseForSpace"}

\* The slot thread c publishes into, and the slot of the packet it has evicted.
PubSlot(c) == IF pc[c] \in Owning THEN pkt[c].slot ELSE NoSlot
EvSlot(c) == IF pc[c] \in Releasing THEN victim[c].slot ELSE NoSlot

\* Thread c goes to `label`; every other thread goes on, parked or resumed.
Moves(c, label) ==
  \A d \in Cameras :
    /\ pc'[d] \in Owning <=> (IF d = c THEN label ELSE pc[d]) \in Owning
    /\ pc'[d] \in Releasing <=> (IF d = c THEN label ELSE pc[d]) \in Releasing
    /\ pc'[d] = "wakeup" <=> (IF d = c THEN label ELSE pc[d]) = "wakeup"
    /\ pc'[d] = "write" <=> (IF d = c THEN label ELSE pc[d]) = "write"

\* No thread moves but for being resumed.
Stays ==
  \A d \in Cameras :
    /\ pc'[d] \in Owning <=> pc[d] \in Owning
    /\ pc'[d] \in Releasing <=> pc[d] \in Releasing
    /\ pc'[d] = "wakeup" <=> pc[d] = "wakeup"
    /\ pc'[d] = "write" <=> pc[d] = "write"

LEMMA GotoMoves ==
  ASSUME ThreadTypeOK, NEW c \in Cameras, NEW label \in PublisherStates, pc' = Goto(c, label)
  PROVE  Moves(c, label)
BY DEF ThreadTypeOK, Moves, Goto

\* A notified thread keeps what it owns.
LEMMA NotifyOneKeeps ==
  ASSUME NEW threads \in Counters, NEW parked, NEW resumed,
         \/ parked = "awaitSlot" /\ resumed = "acquire"
         \/ parked = "awaitSpace" /\ resumed = "blockingPut",
         NotifyOne(parked, resumed, threads), NEW d \in Cameras
  PROVE  /\ pc'[d] \in Owning <=> threads[d] \in Owning
         /\ pc'[d] \in Releasing <=> threads[d] \in Releasing
         /\ pc'[d] = "wakeup" <=> threads[d] = "wakeup"
         /\ pc'[d] = "write" <=> threads[d] = "write"
<1>1. CASE pc' = threads
  BY <1>1
<1>2. CASE \E w \in Cameras : threads[w] = parked /\ pc' = [threads EXCEPT ![w] = resumed]
  BY <1>2 DEF Counters, Owning, Holding, Releasing
<1> QED BY <1>1, <1>2 DEF NotifyOne

LEMMA NotifyAllFullKeeps ==
  ASSUME NEW threads \in Counters, NotifyAllFull(threads), NEW d \in Cameras
  PROVE  /\ pc'[d] \in Owning <=> threads[d] \in Owning
         /\ pc'[d] \in Releasing <=> threads[d] \in Releasing
         /\ pc'[d] = "wakeup" <=> threads[d] = "wakeup"
         /\ pc'[d] = "write" <=> threads[d] = "write"
BY DEF NotifyAllFull, Counters, Owning, Holding, Releasing

LEMMA DequeueKeeps ==
  ASSUME NEW threads \in Counters, Dequeue(threads), NEW d \in Cameras
  PROVE  /\ pc'[d] \in Owning <=> threads[d] \in Owning
         /\ pc'[d] \in Releasing <=> threads[d] \in Releasing
         /\ pc'[d] = "wakeup" <=> threads[d] = "wakeup"
         /\ pc'[d] = "write" <=> threads[d] = "write"
BY NotifyOneKeeps DEF Dequeue

LEMMA ReleaseKeeps ==
  ASSUME NEW p, NEW threads \in Counters, Release(p, threads), NEW d \in Cameras
  PROVE  /\ pc'[d] \in Owning <=> threads[d] \in Owning
         /\ pc'[d] \in Releasing <=> threads[d] \in Releasing
         /\ pc'[d] = "wakeup" <=> threads[d] = "wakeup"
         /\ pc'[d] = "write" <=> threads[d] = "write"
<1>1. CASE p.slot \in inUse
  BY <1>1, NotifyOneKeeps DEF Release
<1>2. CASE p.slot \notin inUse
  BY <1>2 DEF Release
<1> QED BY <1>1, <1>2

LEMMA DequeueMoves ==
  ASSUME ThreadTypeOK, NEW c \in Cameras, NEW label \in PublisherStates,
         Dequeue(Goto(c, label))
  PROVE  Moves(c, label)
<1>1. Goto(c, label) \in Counters
  BY GotoType
<1>2. \A d \in Cameras : Goto(c, label)[d] = IF d = c THEN label ELSE pc[d]
  BY DEF Goto, ThreadTypeOK
<1>3. \A d \in Cameras : /\ pc'[d] \in Owning <=> Goto(c, label)[d] \in Owning
                         /\ pc'[d] \in Releasing <=> Goto(c, label)[d] \in Releasing
                         /\ pc'[d] = "wakeup" <=> Goto(c, label)[d] = "wakeup"
                         /\ pc'[d] = "write" <=> Goto(c, label)[d] = "write"
  BY <1>1, DequeueKeeps
<1> QED BY <1>2, <1>3 DEF Moves

LEMMA ReleaseMoves ==
  ASSUME ThreadTypeOK, NEW p, NEW c \in Cameras, NEW label \in PublisherStates,
         Release(p, Goto(c, label))
  PROVE  Moves(c, label)
<1>1. Goto(c, label) \in Counters
  BY GotoType
<1>2. \A d \in Cameras : Goto(c, label)[d] = IF d = c THEN label ELSE pc[d]
  BY DEF Goto, ThreadTypeOK
<1>3. \A d \in Cameras : /\ pc'[d] \in Owning <=> Goto(c, label)[d] \in Owning
                         /\ pc'[d] \in Releasing <=> Goto(c, label)[d] \in Releasing
                         /\ pc'[d] = "wakeup" <=> Goto(c, label)[d] = "wakeup"
                         /\ pc'[d] = "write" <=> Goto(c, label)[d] = "write"
  BY <1>1, ReleaseKeeps
<1> QED BY <1>2, <1>3 DEF Moves

LEMMA StaysLoop ==
  ASSUME ThreadTypeOK,
         \/ UNCHANGED pc
         \/ Dequeue(pc)
         \/ NotifyAllFull(pc)
         \/ \E p \in held \cup doomed : Release(p, pc)
  PROVE  Stays
<1>1. pc \in Counters
  BY DEF ThreadTypeOK, Counters
<1>2. CASE UNCHANGED pc
  BY <1>2 DEF Stays
<1>3. CASE Dequeue(pc)
  BY <1>1, <1>3, DequeueKeeps DEF Stays
<1>4. CASE NotifyAllFull(pc)
  BY <1>1, <1>4, NotifyAllFullKeeps DEF Stays
<1>5. CASE \E p \in held \cup doomed : Release(p, pc)
  BY <1>1, <1>5, ReleaseKeeps DEF Stays
<1> QED BY <1>2, <1>3, <1>4, <1>5

\* A thread that has not acquired a slot, or has returned, has no slot in its locals.
EmptyHanded ==
  \A c \in Cameras : pc[c] \notin Owning /\ pc[c] # "wakeup" => pkt[c].slot = NoSlot

LEMMA EmptyHandedStays ==
  ASSUME EmptyHanded, Stays, UNCHANGED pkt
  PROVE  EmptyHanded'
BY DEF EmptyHanded, Stays

LEMMA EmptyHandedMoves ==
  ASSUME EmptyHanded, NEW c \in Cameras, NEW label, Moves(c, label),
         \A d \in Cameras : d # c => pkt'[d] = pkt[d],
         label \in Owning \/ label = "wakeup" \/ pkt'[c].slot = NoSlot
  PROVE  EmptyHanded'
BY DEF EmptyHanded, Moves

\* What thread c owns after a step: `ps` to publish into, `es` evicted.
Effect(c, ps, es) ==
  \A d \in Cameras :
    /\ PubSlot(d)' = IF d = c THEN ps ELSE PubSlot(d)
    /\ EvSlot(d)' = IF d = c THEN es ELSE EvSlot(d)

LEMMA MovesEffect ==
  ASSUME NEW c \in Cameras, NEW label, Moves(c, label),
         \A d \in Cameras : d # c => pkt'[d].slot = pkt[d].slot /\ victim'[d] = victim[d]
  PROVE  Effect(c, IF label \in Owning THEN pkt'[c].slot ELSE NoSlot,
                   IF label \in Releasing THEN victim'[c].slot ELSE NoSlot)
BY DEF Effect, Moves, PubSlot, EvSlot

\* What a step of publish may do to the slots, and to the queue.
Nothing(c) ==
  /\ Effect(c, PubSlot(c), EvSlot(c))
  /\ UNCHANGED <<queue, available, inUse, DOMAIN slots, nextSlot>>

Abandons(c) ==
  /\ PubSlot(c) \notin DOMAIN slots
  /\ Effect(c, NoSlot, EvSlot(c))
  /\ UNCHANGED <<queue, available, inUse, DOMAIN slots, nextSlot>>

Acquires(c, s) ==
  /\ PubSlot(c) = NoSlot
  /\ Effect(c, s, EvSlot(c))
  /\ inUse' = inUse \cup {s}
  /\ \/ s \in available /\ available' = available \ {s} /\ UNCHANGED <<DOMAIN slots, nextSlot>>
     \/ /\ s = nextSlot /\ nextSlot' = nextSlot + 1
        /\ DOMAIN slots' = DOMAIN slots \cup {s} /\ UNCHANGED available
  /\ UNCHANGED queue

Queues(c) ==
  /\ PubSlot(c) = pkt[c].slot
  /\ Effect(c, NoSlot, EvSlot(c))
  /\ queue' = Append(queue, pkt[c])
  /\ UNCHANGED <<available, inUse, DOMAIN slots, nextSlot>>

Evicts(c) ==
  /\ EvSlot(c) = NoSlot
  /\ Effect(c, PubSlot(c), Head(queue).slot)
  /\ queue # <<>> /\ queue' = Tail(queue)
  /\ UNCHANGED <<available, inUse, DOMAIN slots, nextSlot>>

\* Slot s goes back to the pool, unless the store has forgotten it.
Pooled(s) ==
  /\ available' = available \cup ({s} \cap inUse)
  /\ inUse' = inUse \ {s}
  /\ UNCHANGED <<queue, DOMAIN slots, nextSlot>>

Frees(c) ==
  \/ Effect(c, PubSlot(c), NoSlot) /\ Pooled(EvSlot(c))
  \/ Effect(c, NoSlot, EvSlot(c)) /\ Pooled(PubSlot(c))

LEMMA ReleasePools ==
  ASSUME NEW p, NEW threads, Release(p, threads), UNCHANGED queue
  PROVE  Pooled(p.slot) /\ UNCHANGED slots
BY DEF Release, Pooled, store

LEMMA EnqueueEffect ==
  ASSUME TypeOK, NEW c \in Cameras, pc[c] \in Owning, pc[c] \notin Releasing, Enqueue(c),
         UNCHANGED <<store, pkt, victim>>
  PROVE  Queues(c) /\ Moves(c, "wakeup")
<1>1. Moves(c, "wakeup")
  BY GotoMoves, TypeParts DEF Enqueue, PublisherStates
<1>2. Effect(c, NoSlot, NoSlot)
  BY <1>1, MovesEffect DEF Owning, Releasing
<1>3. PubSlot(c) = pkt[c].slot /\ EvSlot(c) = NoSlot
  BY DEF PubSlot, EvSlot
<1> QED BY <1>1, <1>2, <1>3 DEF Queues, Enqueue, store

Step(c) ==
  \/ Nothing(c) \/ Abandons(c) \/ Queues(c) \/ Evicts(c) \/ Frees(c)
  \/ \E s \in Nat : Acquires(c, s)

LEMMA AcquireEffect ==
  ASSUME TypeOK, NEW c \in Cameras, pc[c] \notin Owning, pc[c] \notin Releasing,
         AcquireSlot(c), pc' = Goto(c, "write"), UNCHANGED <<queue, victim>>
  PROVE  Moves(c, "write") /\ \E s \in Nat : Acquires(c, s)
<1>1. Moves(c, "write")
  BY GotoMoves, TypeParts DEF PublisherStates
<1>2. PICK s \in Nat : /\ pkt' = [pkt EXCEPT ![c].slot = s]
                       /\ inUse' = inUse \cup {s}
                       /\ \/ /\ s \in available /\ available' = available \ {s}
                             /\ UNCHANGED <<DOMAIN slots, nextSlot>>
                          \/ /\ s = nextSlot /\ nextSlot' = nextSlot + 1
                             /\ DOMAIN slots' = DOMAIN slots \cup {s} /\ UNCHANGED available
  BY DEF AcquireSlot, TakeAvailable, CreateSlot, TypeOK
<1>3. pkt'[c].slot = s /\ \A d \in Cameras : d # c => pkt'[d] = pkt[d]
  BY <1>2 DEF TypeOK, Packet
<1>4. Effect(c, s, NoSlot)
  BY <1>1, <1>3, MovesEffect DEF Owning, Holding, Releasing
<1>5. PubSlot(c) = NoSlot /\ EvSlot(c) = NoSlot
  BY DEF PubSlot, EvSlot
<1> QED BY <1>1, <1>2, <1>4, <1>5 DEF Acquires

\* Every step of publish is one of these, and keeps the locals clean.
LEMMA PublishEffect ==
  ASSUME TypeOK, EmptyHanded, NEW c \in Cameras, Publish(c)
  PROVE  Step(c) /\ EmptyHanded'
<1>1. ThreadTypeOK /\ pc \in Counters
  BY TypeParts DEF ThreadTypeOK, Counters
<1>2. pkt[c] \in Packet /\ victim[c] \in Packet
      /\ pkt \in [Cameras -> Packet] /\ victim \in [Cameras -> Packet]
  BY DEF TypeOK
<1>3. PubSlot(c) = (IF pc[c] \in Owning THEN pkt[c].slot ELSE NoSlot)
      /\ EvSlot(c) = (IF pc[c] \in Releasing THEN victim[c].slot ELSE NoSlot)
  BY DEF PubSlot, EvSlot
<1>4. \A label \in PublisherStates : pc' = Goto(c, label) => Moves(c, label)
  BY <1>1, GotoMoves
<1>5. ForgetLocals(c) => /\ pkt'[c].slot = NoSlot
                         /\ \A d \in Cameras : d # c => pkt'[d] = pkt[d] /\ victim'[d] = victim[d]
  BY <1>2 DEF ForgetLocals, Packet
<1> USE DEF Owning, Holding, Releasing, PublisherStates
<1>6. CASE Capture(c)
  <2>1. PICK label \in {"acquire", "put"} : pc' = Goto(c, label)
    BY <1>6 DEF Capture
  <2>2. Moves(c, label)
    BY <1>4, <2>1
  <2>3. pkt'[c].slot = NoSlot /\ \A d \in Cameras : d # c => pkt'[d] = pkt[d]
    BY <1>2, <1>6 DEF Capture, EmptyHanded, Packet
  <2>4. Effect(c, NoSlot, NoSlot)
    BY <1>6, <2>2, <2>3, MovesEffect DEF Capture
  <2>5. Nothing(c)
    BY <1>3, <1>6, <2>4 DEF Nothing, Capture, store
  <2> QED BY <2>2, <2>3, <2>5, EmptyHandedMoves DEF Step
<1>7. CASE Acquire(c)
  <2>1. CASE AcquireSlot(c) /\ pc' = Goto(c, "write")
    <3>1. Moves(c, "write") /\ \E s \in Nat : Acquires(c, s)
      BY <1>7, <2>1, AcquireEffect DEF Acquire
    <3>2. \A d \in Cameras : d # c => pkt'[d] = pkt[d]
      BY <1>2, <2>1 DEF AcquireSlot, TakeAvailable, CreateSlot
    <3> QED BY <3>1, <3>2, EmptyHandedMoves DEF Step
  <2>2. CASE ~(AcquireSlot(c) /\ pc' = Goto(c, "write"))
    <3>1. PICK label \in {"awaitSlot", "evictForSlot", "idle"} : pc' = Goto(c, label)
      BY <1>7, <2>2, PoliciesAssumption DEF Acquire, TypeOK
    <3>2. Moves(c, label) /\ UNCHANGED <<store, pkt, victim, queue>>
      BY <1>4, <1>7, <2>2, <3>1 DEF Acquire
    <3>3. Effect(c, NoSlot, NoSlot)
      BY <3>2, MovesEffect
    <3>4. Nothing(c)
      BY <1>3, <1>7, <3>2, <3>3 DEF Nothing, Acquire, store
    <3>5. pkt'[c].slot = NoSlot
      BY <1>7, <3>2 DEF Acquire, EmptyHanded
    <3> QED BY <3>2, <3>4, <3>5, EmptyHandedMoves DEF Step
  <2> QED BY <2>1, <2>2
<1>8. CASE EvictForSlot(c)
  <2>1. PICK label \in {"releaseForSlot", "idle"} :
          \/ /\ label = "releaseForSlot" /\ Dequeue(Goto(c, label))
             /\ victim' = [victim EXCEPT ![c] = Head(queue)]
          \/ label = "idle" /\ pc' = Goto(c, label) /\ UNCHANGED <<queue, victim>>
    BY <1>8 DEF EvictForSlot
  <2>2. Moves(c, label)
    BY <1>1, <1>4, <2>1, DequeueMoves
  <2>3. victim'[c] = (IF label = "releaseForSlot" THEN Head(queue) ELSE victim[c])
        /\ \A d \in Cameras : d # c => victim'[d] = victim[d]
    BY <1>2, <2>1
  <2>4. Effect(c, NoSlot, IF label = "releaseForSlot" THEN Head(queue).slot ELSE NoSlot)
    BY <1>8, <2>2, <2>3, MovesEffect DEF EvictForSlot
  <2>5. Step(c)
    BY <1>3, <1>8, <2>1, <2>4 DEF Step, Nothing, Evicts, Dequeue, EvictForSlot, store
  <2>6. UNCHANGED pkt /\ pkt[c].slot = NoSlot
    BY <1>8 DEF EvictForSlot, EmptyHanded
  <2> QED BY <2>2, <2>5, <2>6, EmptyHandedMoves
<1>9. CASE ReleaseForSlot(c)
  <2>1. Moves(c, "reacquire")
    BY <1>1, <1>9, ReleaseMoves DEF ReleaseForSlot
  <2>2. Effect(c, NoSlot, NoSlot)
    BY <1>9, <2>1, MovesEffect DEF ReleaseForSlot
  <2>3. Pooled(victim[c].slot)
    BY <1>9, ReleasePools DEF ReleaseForSlot
  <2>4. UNCHANGED pkt /\ pkt[c].slot = NoSlot
    BY <1>9 DEF ReleaseForSlot, EmptyHanded
  <2> QED BY <1>3, <1>9, <2>1, <2>2, <2>3, <2>4, EmptyHandedMoves DEF Step, Frees, ReleaseForSlot
<1>10. CASE Reacquire(c)
  <2>1. CASE AcquireSlot(c) /\ pc' = Goto(c, "write") /\ UNCHANGED victim
    <3>1. Moves(c, "write") /\ \E s \in Nat : Acquires(c, s)
      BY <1>10, <2>1, AcquireEffect DEF Reacquire
    <3>2. \A d \in Cameras : d # c => pkt'[d] = pkt[d]
      BY <1>2, <2>1 DEF AcquireSlot, TakeAvailable, CreateSlot
    <3> QED BY <3>1, <3>2, EmptyHandedMoves DEF Step
  <2>2. CASE pc' = Goto(c, "idle") /\ ForgetLocals(c) /\ UNCHANGED store
    <3>1. Moves(c, "idle")
      BY <1>4, <2>2
    <3>2. Effect(c, NoSlot, NoSlot)
      BY <1>5, <2>2, <3>1, MovesEffect
    <3>3. Nothing(c)
      BY <1>3, <1>10, <2>2, <3>2 DEF Nothing, Reacquire, store
    <3> QED BY <1>5, <2>2, <3>1, <3>3, EmptyHandedMoves DEF Step
  <2> QED BY <1>10, <2>1, <2>2 DEF Reacquire
<1>11. CASE Write(c)
  <2>1. CASE /\ pkt[c].slot \in DOMAIN slots
             /\ slots' = [slots EXCEPT ![pkt[c].slot] = Frame(pkt[c])]
             /\ pc' = Goto(c, "put") /\ victim' = [victim EXCEPT ![c] = NoPacket(c)]
             /\ UNCHANGED pkt
    <3>1. Moves(c, "put") /\ \A d \in Cameras : d # c => victim'[d] = victim[d]
      BY <1>2, <1>4, <2>1
    <3>2. Effect(c, pkt[c].slot, NoSlot)
      BY <2>1, <3>1, MovesEffect
    <3>3. DOMAIN slots' = DOMAIN slots
      BY <2>1
    <3>4. Nothing(c)
      BY <1>3, <1>11, <3>2, <3>3 DEF Nothing, Write
    <3> QED BY <2>1, <3>1, <3>4, EmptyHandedMoves DEF Step
  <2>2. CASE /\ pkt[c].slot \notin DOMAIN slots
             /\ pc' = Goto(c, "idle") /\ ForgetLocals(c) /\ UNCHANGED slots
    <3>1. Moves(c, "idle")
      BY <1>4, <2>2
    <3>2. Effect(c, NoSlot, NoSlot)
      BY <1>5, <2>2, <3>1, MovesEffect
    <3>3. Abandons(c)
      BY <1>3, <1>11, <2>2, <3>2 DEF Abandons, Write
    <3> QED BY <1>5, <2>2, <3>1, <3>3, EmptyHandedMoves DEF Step
  <2> QED BY <1>11, <2>1, <2>2 DEF Write
<1>12. CASE Put(c) \/ BlockingPut(c) \/ RetryPut(c)
  <2>0. pc[c] \in {"put", "blockingPut", "retryPut"} /\ UNCHANGED <<store, pkt, victim>>
    BY <1>12 DEF Put, BlockingPut, RetryPut
  <2>1. CASE Enqueue(c)
    <3>1. Queues(c) /\ Moves(c, "wakeup")
      BY <2>0, <2>1, EnqueueEffect
    <3> QED BY <2>0, <3>1, EmptyHandedMoves DEF Step
  <2>2. CASE ~Enqueue(c)
    <3>1. PICK label \in {"blockingPut", "evictForSpace", "releaseOwn", "awaitSpace"} :
            pc' = Goto(c, label)
      BY <1>12, <2>2, PoliciesAssumption DEF Put, BlockingPut, RetryPut, TypeOK
    <3>2. Moves(c, label)
      BY <1>4, <3>1
    <3>3. Effect(c, pkt[c].slot, NoSlot)
      BY <2>0, <3>2, MovesEffect
    <3>4. Nothing(c)
      BY <1>3, <1>12, <2>0, <2>2, <3>3 DEF Nothing, Put, BlockingPut, RetryPut, store
    <3> QED BY <2>0, <3>2, <3>4, EmptyHandedMoves DEF Step
  <2> QED BY <2>1, <2>2
<1>13. CASE EvictForSpace(c)
  <2>1. PICK label \in {"releaseForSpace", "retryPut"} :
          \/ /\ label = "releaseForSpace" /\ Dequeue(Goto(c, label))
             /\ victim' = [victim EXCEPT ![c] = Head(queue)]
          \/ /\ label = "retryPut" /\ pc' = Goto(c, label) /\ UNCHANGED queue
             /\ victim' = [victim EXCEPT ![c] = NoPacket(c)]
    BY <1>13 DEF EvictForSpace
  <2>2. Moves(c, label)
    BY <1>1, <1>4, <2>1, DequeueMoves
  <2>3. label = "releaseForSpace" => victim'[c] = Head(queue)
    BY <1>2, <2>1
  <2>4. \A d \in Cameras : d # c => victim'[d] = victim[d]
    BY <1>2, <2>1
  <2>5. Effect(c, pkt[c].slot, IF label = "releaseForSpace" THEN Head(queue).slot ELSE NoSlot)
    BY <1>13, <2>2, <2>3, <2>4, MovesEffect DEF EvictForSpace
  <2>6. Step(c)
    BY <1>3, <1>13, <2>1, <2>5 DEF Step, Nothing, Evicts, Dequeue, EvictForSpace, store
  <2> QED BY <1>13, <2>2, <2>6, EmptyHandedMoves DEF EvictForSpace
<1>14. CASE ReleaseForSpace(c)
  <2>1. Moves(c, "retryPut")
    BY <1>1, <1>14, ReleaseMoves DEF ReleaseForSpace
  <2>2. Effect(c, pkt[c].slot, NoSlot)
    BY <1>14, <2>1, MovesEffect DEF ReleaseForSpace
  <2>3. Pooled(victim[c].slot)
    BY <1>14, ReleasePools DEF ReleaseForSpace
  <2> QED BY <1>3, <1>14, <2>1, <2>2, <2>3, EmptyHandedMoves DEF Step, Frees, ReleaseForSpace
<1>15. CASE ReleaseOwn(c)
  <2>1. Moves(c, "idle")
    BY <1>1, <1>15, ReleaseMoves DEF ReleaseOwn
  <2>2. Effect(c, NoSlot, NoSlot)
    BY <1>5, <1>15, <2>1, MovesEffect DEF ReleaseOwn
  <2>3. Pooled(pkt[c].slot)
    BY <1>15, ReleasePools DEF ReleaseOwn
  <2> QED BY <1>3, <1>5, <1>15, <2>1, <2>2, <2>3, EmptyHandedMoves DEF Step, Frees, ReleaseOwn
<1>16. CASE Wakeup(c)
  <2>1. Moves(c, "idle")
    BY <1>4, <1>16 DEF Wakeup
  <2>2. Effect(c, NoSlot, NoSlot)
    BY <1>5, <1>16, <2>1, MovesEffect DEF Wakeup
  <2>3. Nothing(c)
    BY <1>3, <1>16, <2>2 DEF Nothing, Wakeup, store
  <2> QED BY <1>5, <1>16, <2>1, <2>3, EmptyHandedMoves DEF Step, Wakeup
<1> QED BY <1>6, <1>7, <1>8, <1>9, <1>10, <1>11, <1>12, <1>13, <1>14, <1>15, <1>16 DEF Publish

(* The places a slot may be in, and the invariant: a slot is in at most one *)
(* place, once, and a slot in use is in a place other than the pool.        *)

QueueSlots == {queue[i].slot : i \in DOMAIN queue} \ {NoSlot}
PubSlots == {PubSlot(c) : c \in Cameras} \ {NoSlot}
EvSlots == {EvSlot(c) : c \in Cameras} \ {NoSlot}
SlotsOf(packets) == {p.slot : p \in packets} \ {NoSlot}
HeldSlots == SlotsOf(held)
DoomedSlots == SlotsOf(doomed)

QueueOnce ==
  \A i, j \in DOMAIN queue : queue[i].slot = queue[j].slot => i = j \/ queue[i].slot = NoSlot
PubOnce == \A c, d \in Cameras : PubSlot(c) = PubSlot(d) => c = d \/ PubSlot(c) = NoSlot
EvOnce == \A c, d \in Cameras : EvSlot(c) = EvSlot(d) => c = d \/ EvSlot(c) = NoSlot
Once(packets) == \A p, q \in packets : p.slot = q.slot => p = q \/ p.slot = NoSlot

\* The slots of the queue, the publishers, the evictors, the packets delivered and
\* taken out, and the pool are apart; a slot in use is in one of the first five.
Apart(q, p, e, h, d, a, u, dom, cr) ==
  /\ q \cap (p \cup e \cup h \cup d \cup a) = {}
  /\ p \cap (e \cup h \cup d \cup a) = {}
  /\ e \cap (h \cup d \cup a) = {}
  /\ h \cap (d \cup a) = {}
  /\ d \cap a = {}
  /\ q \cup p \cup e \cup h \cup d \cup a \cup dom \subseteq cr
  /\ u \subseteq q \cup p \cup e \cup h \cup d
  /\ u \cup a \subseteq dom

Created == 0 .. nextSlot - 1

OnePlace ==
  Apart(QueueSlots, PubSlots, EvSlots, HeldSlots, DoomedSlots, available, inUse, DOMAIN slots,
        Created)

SlotInv == QueueOnce /\ PubOnce /\ EvOnce /\ Once(held) /\ Once(doomed) /\ OnePlace

\* Packets wait to be released by discard_camera or close only inside them.
DoomedInside == cpc \notin {"discarding", "draining"} => doomed = {}

\* What each kind of step does to the places of the slots.
LEMMA SlotCreated ==
  ASSUME NEW q, NEW p, NEW e, NEW h, NEW d, NEW a, NEW u, NEW dom, NEW cr,
         Apart(q, p, e, h, d, a, u, dom, cr), NEW s, s \notin cr
  PROVE  Apart(q, p \cup {s}, e, h, d, a, u \cup {s}, dom \cup {s}, cr \cup {s})
BY DEF Apart

LEMMA SlotReused ==
  ASSUME NEW q, NEW p, NEW e, NEW h, NEW d, NEW a, NEW u, NEW dom, NEW cr,
         Apart(q, p, e, h, d, a, u, dom, cr), NEW s \in a
  PROVE  Apart(q, p \cup {s}, e, h, d, a \ {s}, u \cup {s}, dom, cr)
BY DEF Apart

LEMMA SlotForgotten ==
  ASSUME NEW q, NEW p, NEW e, NEW h, NEW d, NEW a, NEW u, NEW dom, NEW cr,
         Apart(q, p, e, h, d, a, u, dom, cr), NEW s, s \notin dom
  PROVE  Apart(q, p \ {s}, e, h, d, a, u, dom, cr)
BY DEF Apart

LEMMA SlotQueued ==
  ASSUME NEW q, NEW p, NEW e, NEW h, NEW d, NEW a, NEW u, NEW dom, NEW cr,
         Apart(q, p, e, h, d, a, u, dom, cr), NEW m \in SUBSET p
  PROVE  Apart(q \cup m, p \ m, e, h, d, a, u, dom, cr)
BY DEF Apart

LEMMA SlotEvicted ==
  ASSUME NEW q, NEW p, NEW e, NEW h, NEW d, NEW a, NEW u, NEW dom, NEW cr,
         Apart(q, p, e, h, d, a, u, dom, cr), NEW m \in SUBSET q
  PROVE  Apart(q \ m, p, e \cup m, h, d, a, u, dom, cr)
BY DEF Apart

LEMMA SlotDelivered ==
  ASSUME NEW q, NEW p, NEW e, NEW h, NEW d, NEW a, NEW u, NEW dom, NEW cr,
         Apart(q, p, e, h, d, a, u, dom, cr), NEW m \in SUBSET q
  PROVE  Apart(q \ m, p, e, h \cup m, d, a, u, dom, cr)
BY DEF Apart

LEMMA SlotDoomed ==
  ASSUME NEW q, NEW p, NEW e, NEW h, NEW d, NEW a, NEW u, NEW dom, NEW cr,
         Apart(q, p, e, h, d, a, u, dom, cr), NEW m \in SUBSET q
  PROVE  Apart(q \ m, p, e, h, d \cup m, a, u, dom, cr)
BY DEF Apart

LEMMA SlotReleased ==
  ASSUME NEW q, NEW p, NEW e, NEW h, NEW d, NEW a, NEW u, NEW dom, NEW cr,
         Apart(q, p, e, h, d, a, u, dom, cr), NEW s
  PROVE  /\ s \in p => Apart(q, p \ {s}, e, h, d, a \cup ({s} \cap u), u \ {s}, dom, cr)
         /\ s \in e => Apart(q, p, e \ {s}, h, d, a \cup ({s} \cap u), u \ {s}, dom, cr)
         /\ s \in h => Apart(q, p, e, h \ {s}, d, a \cup ({s} \cap u), u \ {s}, dom, cr)
         /\ s \in d => Apart(q, p, e, h, d \ {s}, a \cup ({s} \cap u), u \ {s}, dom, cr)
<1>1. ASSUME s \in p PROVE Apart(q, p \ {s}, e, h, d, a \cup ({s} \cap u), u \ {s}, dom, cr)
  BY <1>1 DEF Apart
<1>2. ASSUME s \in e PROVE Apart(q, p, e \ {s}, h, d, a \cup ({s} \cap u), u \ {s}, dom, cr)
  BY <1>2 DEF Apart
<1>3. ASSUME s \in h PROVE Apart(q, p, e, h \ {s}, d, a \cup ({s} \cap u), u \ {s}, dom, cr)
  BY <1>3 DEF Apart
<1>4. ASSUME s \in d PROVE Apart(q, p, e, h, d \ {s}, a \cup ({s} \cap u), u \ {s}, dom, cr)
  BY <1>4 DEF Apart
<1> QED BY <1>1, <1>2, <1>3, <1>4

\* The slots the threads own after a step of thread c.
LEMMA EffectPub ==
  ASSUME NEW c \in Cameras, NEW ps, NEW es, Effect(c, ps, es), PubOnce,
         ps \notin PubSlots \ {PubSlot(c)}
  PROVE  PubOnce' /\ PubSlots' = (PubSlots \ {PubSlot(c)}) \cup ({ps} \ {NoSlot})
<1>1. \A d \in Cameras : PubSlot(d)' = IF d = c THEN ps ELSE PubSlot(d)
  BY DEF Effect
<1>2. PubOnce'
  BY <1>1 DEF PubOnce, PubSlots
<1>3. \A s : s \in PubSlots' <=> s # NoSlot /\ \E d \in Cameras : s = PubSlot(d)'
  BY DEF PubSlots
<1>4. \A s : s \in PubSlots <=> s # NoSlot /\ \E d \in Cameras : s = PubSlot(d)
  BY DEF PubSlots
<1>5. \A s : s \in PubSlots' <=> s \in (PubSlots \ {PubSlot(c)}) \cup ({ps} \ {NoSlot})
  BY <1>1, <1>3, <1>4 DEF PubOnce
<1> QED BY <1>2, <1>5

LEMMA EffectEv ==
  ASSUME NEW c \in Cameras, NEW ps, NEW es, Effect(c, ps, es), EvOnce,
         es \notin EvSlots \ {EvSlot(c)}
  PROVE  EvOnce' /\ EvSlots' = (EvSlots \ {EvSlot(c)}) \cup ({es} \ {NoSlot})
<1>1. \A d \in Cameras : EvSlot(d)' = IF d = c THEN es ELSE EvSlot(d)
  BY DEF Effect
<1>2. EvOnce'
  BY <1>1 DEF EvOnce, EvSlots
<1>3. \A s : s \in EvSlots' <=> s # NoSlot /\ \E d \in Cameras : s = EvSlot(d)'
  BY DEF EvSlots
<1>4. \A s : s \in EvSlots <=> s # NoSlot /\ \E d \in Cameras : s = EvSlot(d)
  BY DEF EvSlots
<1>5. \A s : s \in EvSlots' <=> s \in (EvSlots \ {EvSlot(c)}) \cup ({es} \ {NoSlot})
  BY <1>1, <1>3, <1>4 DEF EvOnce
<1> QED BY <1>2, <1>5

LEMMA PubKeeps ==
  ASSUME NEW c \in Cameras, NEW x, PubOnce, Effect(c, PubSlot(c), x)
  PROVE  PubOnce' /\ PubSlots' = PubSlots
<1>1. PubSlot(c) \notin PubSlots \ {PubSlot(c)}
  OBVIOUS
<1>2. PubOnce' /\ PubSlots' = (PubSlots \ {PubSlot(c)}) \cup ({PubSlot(c)} \ {NoSlot})
  BY <1>1, EffectPub
<1>3. PubSlot(c) \in PubSlots \cup {NoSlot} /\ NoSlot \notin PubSlots
  BY DEF PubSlots
<1>4. PubSlots = (PubSlots \ {PubSlot(c)}) \cup ({PubSlot(c)} \ {NoSlot})
  BY <1>3
<1> QED BY <1>2, <1>4

LEMMA PubDrops ==
  ASSUME NEW c \in Cameras, NEW x, PubOnce, Effect(c, NoSlot, x)
  PROVE  PubOnce' /\ PubSlots' = PubSlots \ {PubSlot(c)}
<1>1. NoSlot \notin PubSlots
  BY DEF PubSlots
<1>2. PubOnce' /\ PubSlots' = (PubSlots \ {PubSlot(c)}) \cup ({NoSlot} \ {NoSlot})
  BY <1>1, EffectPub
<1> QED BY <1>2

LEMMA PubAdds ==
  ASSUME NEW c \in Cameras, NEW x, NEW s, PubOnce, Effect(c, s, x), PubSlot(c) = NoSlot,
         s \notin PubSlots
  PROVE  PubOnce' /\ PubSlots' = PubSlots \cup ({s} \ {NoSlot})
<1>1. NoSlot \notin PubSlots
  BY DEF PubSlots
<1>2. PubOnce' /\ PubSlots' = (PubSlots \ {PubSlot(c)}) \cup ({s} \ {NoSlot})
  BY EffectPub
<1>3. PubSlots \ {PubSlot(c)} = PubSlots
  BY <1>1
<1> QED BY <1>2, <1>3

LEMMA EvKeeps ==
  ASSUME NEW c \in Cameras, NEW x, EvOnce, Effect(c, x, EvSlot(c))
  PROVE  EvOnce' /\ EvSlots' = EvSlots
<1>1. EvSlot(c) \notin EvSlots \ {EvSlot(c)}
  OBVIOUS
<1>2. EvOnce' /\ EvSlots' = (EvSlots \ {EvSlot(c)}) \cup ({EvSlot(c)} \ {NoSlot})
  BY <1>1, EffectEv
<1>3. EvSlot(c) \in EvSlots \cup {NoSlot} /\ NoSlot \notin EvSlots
  BY DEF EvSlots
<1>4. EvSlots = (EvSlots \ {EvSlot(c)}) \cup ({EvSlot(c)} \ {NoSlot})
  BY <1>3
<1> QED BY <1>2, <1>4

LEMMA EvDrops ==
  ASSUME NEW c \in Cameras, NEW x, EvOnce, Effect(c, x, NoSlot)
  PROVE  EvOnce' /\ EvSlots' = EvSlots \ {EvSlot(c)}
<1>1. NoSlot \notin EvSlots
  BY DEF EvSlots
<1>2. EvOnce' /\ EvSlots' = (EvSlots \ {EvSlot(c)}) \cup ({NoSlot} \ {NoSlot})
  BY <1>1, EffectEv
<1> QED BY <1>2

LEMMA EvAdds ==
  ASSUME NEW c \in Cameras, NEW x, NEW s, EvOnce, Effect(c, x, s), EvSlot(c) = NoSlot,
         s \notin EvSlots
  PROVE  EvOnce' /\ EvSlots' = EvSlots \cup ({s} \ {NoSlot})
<1>1. NoSlot \notin EvSlots
  BY DEF EvSlots
<1>2. EvOnce' /\ EvSlots' = (EvSlots \ {EvSlot(c)}) \cup ({s} \ {NoSlot})
  BY EffectEv
<1>3. EvSlots \ {EvSlot(c)} = EvSlots
  BY <1>1
<1> QED BY <1>2, <1>3

\* The slots of the queue after get_nowait and after put_nowait.
LEMMA TailSlots ==
  ASSUME queue \in Seq(Packet), QueueOnce, queue # <<>>, queue' = Tail(queue)
  PROVE  /\ QueueOnce' /\ QueueSlots' = QueueSlots \ {Head(queue).slot}
         /\ Head(queue).slot \in QueueSlots \cup {NoSlot}
<1> DEFINE n == Len(queue)
<1>1. n \in Nat \ {0} /\ DOMAIN queue = 1 .. n /\ Head(queue) = queue[1]
  BY LenProperties, EmptySeq
<1>2. /\ Tail(queue) \in Seq(Packet) /\ Len(Tail(queue)) = n - 1
      /\ \A i \in 1 .. n - 1 : Tail(queue)[i] = queue[i + 1]
  BY HeadTailProperties
<1> HIDE DEF n
<1>3. DOMAIN queue' = 1 .. n - 1 /\ \A i \in 1 .. n - 1 : queue'[i] = queue[i + 1]
  BY <1>2, LenProperties
<1>4. QueueOnce'
  <2> SUFFICES ASSUME NEW i \in 1 .. n - 1, NEW j \in 1 .. n - 1,
                      queue[i + 1].slot = queue[j + 1].slot, queue[i + 1].slot # NoSlot
               PROVE  i = j
    BY <1>3 DEF QueueOnce
  <2>1. i + 1 \in 1 .. n /\ j + 1 \in 1 .. n
    BY <1>1
  <2>2. i + 1 = j + 1
    BY <1>1, <2>1 DEF QueueOnce
  <2> QED BY <1>1, <2>2
<1>5. \A s : s \in QueueSlots' => s \in QueueSlots \ {Head(queue).slot}
  <2> SUFFICES ASSUME NEW i \in 1 .. n - 1, queue[i + 1].slot # NoSlot
               PROVE  queue[i + 1].slot \in QueueSlots \ {queue[1].slot}
    BY <1>1, <1>3 DEF QueueSlots
  <2>1. i + 1 \in 1 .. n /\ 1 \in 1 .. n /\ i + 1 # 1
    BY <1>1
  <2> QED BY <1>1, <2>1 DEF QueueOnce, QueueSlots
<1>6. \A s : s \in QueueSlots \ {Head(queue).slot} => s \in QueueSlots'
  <2> SUFFICES ASSUME NEW i \in 1 .. n, queue[i].slot # NoSlot, queue[i].slot # queue[1].slot
               PROVE  queue[i].slot \in QueueSlots'
    BY <1>1 DEF QueueSlots
  <2>1. i - 1 \in 1 .. n - 1 /\ (i - 1) + 1 = i
    BY <1>1
  <2>2. queue'[i - 1] = queue[i]
    BY <1>3, <2>1
  <2> QED BY <1>3, <2>1, <2>2 DEF QueueSlots
<1>7. Head(queue).slot \in QueueSlots \cup {NoSlot}
  BY <1>1 DEF QueueSlots
<1> QED BY <1>4, <1>5, <1>6, <1>7

LEMMA AppendSlots ==
  ASSUME queue \in Seq(Packet), QueueOnce, NEW p \in Packet, queue' = Append(queue, p),
         p.slot \notin QueueSlots
  PROVE  QueueOnce' /\ QueueSlots' = QueueSlots \cup ({p.slot} \ {NoSlot})
<1> DEFINE n == Len(queue)
<1>1. n \in Nat /\ DOMAIN queue = 1 .. n
  BY LenProperties
<1>2. /\ queue' \in Seq(Packet) /\ Len(queue') = n + 1 /\ queue'[n + 1] = p
      /\ \A i \in 1 .. n : queue'[i] = queue[i]
  BY AppendProperties
<1> HIDE DEF n
<1>3. DOMAIN queue' = 1 .. n + 1 /\ \A i \in 1 .. n + 1 : i \in 1 .. n \/ i = n + 1
  BY <1>1, <1>2, LenProperties
<1>4. \A i \in 1 .. n : queue[i].slot \in QueueSlots \cup {NoSlot}
  BY <1>1 DEF QueueSlots
<1>5. QueueOnce'
  BY <1>1, <1>2, <1>3, <1>4 DEF QueueOnce
<1>6. \A s : s \in QueueSlots' => s \in QueueSlots \cup ({p.slot} \ {NoSlot})
  BY <1>1, <1>2, <1>3 DEF QueueSlots
<1>7. \A s : s \in QueueSlots \cup ({p.slot} \ {NoSlot}) => s \in QueueSlots'
  <2>1. n + 1 \in 1 .. n + 1 /\ \A i \in 1 .. n : i \in 1 .. n + 1
    BY <1>1
  <2> QED BY <1>1, <1>2, <1>3, <2>1 DEF QueueSlots
<1> QED BY <1>5, <1>6, <1>7

\* A step of publish keeps every slot in one place.
LEMMA PublishSlots ==
  ASSUME TypeOK, SlotInv, NEW c \in Cameras, Step(c), UNCHANGED <<held, doomed>>
  PROVE  SlotInv'
<1>1. HeldSlots' = HeldSlots /\ DoomedSlots' = DoomedSlots /\ Once(held)' /\ Once(doomed)'
  BY DEF HeldSlots, DoomedSlots, SlotsOf, SlotInv, Once
<1>2. PubSlot(c) \in PubSlots \cup {NoSlot} /\ EvSlot(c) \in EvSlots \cup {NoSlot}
  BY DEF PubSlots, EvSlots
<1>3. queue \in Seq(Packet) /\ nextSlot \in Nat /\ pkt[c] \in Packet
  BY DEF TypeOK
<1>4. NoSlot \notin PubSlots /\ NoSlot \notin EvSlots /\ NoSlot \notin QueueSlots
  BY DEF QueueSlots, PubSlots, EvSlots
<1>5. ASSUME UNCHANGED queue PROVE QueueOnce' /\ QueueSlots' = QueueSlots
  BY <1>5 DEF QueueOnce, QueueSlots, SlotInv
<1>6. ASSUME UNCHANGED nextSlot PROVE Created' = Created
  BY <1>6 DEF Created
<1>7. /\ QueueOnce /\ PubOnce /\ EvOnce
      /\ Apart(QueueSlots, PubSlots, EvSlots, HeldSlots, DoomedSlots, available, inUse,
               DOMAIN slots, Created)
  BY DEF SlotInv, OnePlace
<1>8. ASSUME QueueOnce', PubOnce', EvOnce',
             Apart(QueueSlots', PubSlots', EvSlots', HeldSlots, DoomedSlots, available', inUse',
                   DOMAIN slots', Created')
      PROVE  SlotInv'
  BY <1>1, <1>8 DEF SlotInv, OnePlace
<1>9. CASE Nothing(c)
  <2>1. PubOnce' /\ PubSlots' = PubSlots /\ EvOnce' /\ EvSlots' = EvSlots
    BY <1>7, <1>9, PubKeeps, EvKeeps DEF Nothing
  <2> QED BY <1>5, <1>6, <1>7, <1>8, <1>9, <2>1 DEF Nothing
<1>10. CASE Abandons(c)
  <2>1. PubOnce' /\ PubSlots' = PubSlots \ {PubSlot(c)} /\ EvOnce' /\ EvSlots' = EvSlots
    BY <1>7, <1>10, PubDrops, EvKeeps DEF Abandons
  <2>2. Apart(QueueSlots, PubSlots \ {PubSlot(c)}, EvSlots, HeldSlots, DoomedSlots, available,
              inUse, DOMAIN slots, Created)
    BY <1>7, <1>10, SlotForgotten DEF Abandons
  <2> QED BY <1>5, <1>6, <1>8, <1>10, <2>1, <2>2 DEF Abandons
<1>11. CASE \E s \in Nat : Acquires(c, s)
  <2>1. PICK s \in Nat : Acquires(c, s)
    BY <1>11
  <2>2. {s} \ {NoSlot} = {s}
    BY DEF NoSlot
  <2>3. s \in available \/ s = nextSlot
    BY <2>1 DEF Acquires
  <2>4. s = nextSlot => s \notin Created
    BY <1>3 DEF Created
  <2>5. s \notin PubSlots
    BY <1>7, <2>3, <2>4 DEF Apart
  <2>6. PubOnce' /\ PubSlots' = PubSlots \cup {s}
    BY <1>7, <2>1, <2>2, <2>5, PubAdds DEF Acquires
  <2>7. EvOnce' /\ EvSlots' = EvSlots
    BY <1>7, <2>1, EvKeeps DEF Acquires
  <2>8. QueueOnce' /\ QueueSlots' = QueueSlots
    BY <1>5, <2>1 DEF Acquires
  <2>9. CASE s \in available /\ available' = available \ {s} /\ UNCHANGED <<DOMAIN slots, nextSlot>>
    <3>1. Apart(QueueSlots, PubSlots \cup {s}, EvSlots, HeldSlots, DoomedSlots, available \ {s},
                inUse \cup {s}, DOMAIN slots, Created)
      BY <1>7, <2>9, SlotReused
    <3> QED BY <1>6, <1>8, <2>1, <2>6, <2>7, <2>8, <2>9, <3>1 DEF Acquires
  <2>10. CASE /\ s = nextSlot /\ nextSlot' = nextSlot + 1
              /\ DOMAIN slots' = DOMAIN slots \cup {s} /\ UNCHANGED available
    <3>1. Apart(QueueSlots, PubSlots \cup {s}, EvSlots, HeldSlots, DoomedSlots, available,
                inUse \cup {s}, DOMAIN slots \cup {s}, Created \cup {s})
      BY <1>7, <2>4, <2>10, SlotCreated
    <3>2. Created' = Created \cup {s}
      BY <1>3, <2>10 DEF Created
    <3> QED BY <1>8, <2>1, <2>6, <2>7, <2>8, <2>10, <3>1, <3>2 DEF Acquires
  <2> QED BY <2>1, <2>9, <2>10 DEF Acquires
<1>12. CASE Queues(c)
  <2> DEFINE s == PubSlot(c)
             m == {s} \ {NoSlot}
  <2>1. m \in SUBSET PubSlots /\ PubSlots \ m = PubSlots \ {s}
    BY <1>2, <1>4
  <2>2. s \notin QueueSlots
    BY <1>2, <1>4, <1>7 DEF Apart
  <2>3. QueueOnce' /\ QueueSlots' = QueueSlots \cup m
    BY <1>3, <1>7, <1>12, <2>2, AppendSlots DEF Queues
  <2> HIDE DEF m
  <2>4. PubOnce' /\ PubSlots' = PubSlots \ m /\ EvOnce' /\ EvSlots' = EvSlots
    BY <1>7, <1>12, <2>1, PubDrops, EvKeeps DEF Queues
  <2>5. Apart(QueueSlots \cup m, PubSlots \ m, EvSlots, HeldSlots, DoomedSlots, available,
              inUse, DOMAIN slots, Created)
    BY <1>7, <2>1, SlotQueued
  <2> QED BY <1>6, <1>8, <1>12, <2>3, <2>4, <2>5 DEF Queues
<1>13. CASE Evicts(c)
  <2> DEFINE s == Head(queue).slot
             m == {s} \ {NoSlot}
  <2>1. QueueOnce' /\ QueueSlots' = QueueSlots \ {s} /\ s \in QueueSlots \cup {NoSlot}
    BY <1>3, <1>7, <1>13, TailSlots DEF Evicts
  <2>2. Effect(c, PubSlot(c), s) /\ EvSlot(c) = NoSlot
    BY <1>13 DEF Evicts
  <2> HIDE DEF s
  <2>3. m \in SUBSET QueueSlots /\ QueueSlots \ m = QueueSlots \ {s}
    BY <1>4, <2>1
  <2>4. s \notin EvSlots
    BY <1>4, <1>7, <2>1 DEF Apart
  <2>5. PubOnce' /\ PubSlots' = PubSlots
    BY <1>7, <2>2, PubKeeps
  <2>6. EvOnce' /\ EvSlots' = EvSlots \cup m
    BY <1>7, <2>2, <2>4, EvAdds
  <2> HIDE DEF m
  <2>7. Apart(QueueSlots \ m, PubSlots, EvSlots \cup m, HeldSlots, DoomedSlots, available,
              inUse, DOMAIN slots, Created)
    BY <1>7, <2>3, SlotEvicted
  <2> QED BY <1>6, <1>8, <1>13, <2>1, <2>3, <2>5, <2>6, <2>7 DEF Evicts
<1>14. CASE Effect(c, PubSlot(c), NoSlot) /\ Pooled(EvSlot(c))
  <2> DEFINE s == EvSlot(c)
  <2>1. PubOnce' /\ PubSlots' = PubSlots /\ EvOnce' /\ EvSlots' = EvSlots \ {s}
    BY <1>7, <1>14, PubKeeps, EvDrops
  <2>2. s \in EvSlots \/ (s \notin inUse /\ s \notin EvSlots)
    BY <1>2, <1>3, <1>4, <1>7 DEF Apart, Created, NoSlot
  <2>3. Apart(QueueSlots, PubSlots, EvSlots \ {s}, HeldSlots, DoomedSlots,
              available \cup ({s} \cap inUse), inUse \ {s}, DOMAIN slots, Created)
    <3>1. CASE s \in EvSlots
      BY <1>7, <3>1, SlotReleased
    <3>2. CASE s \notin inUse /\ s \notin EvSlots
      <4>1. EvSlots \ {s} = EvSlots /\ available \cup ({s} \cap inUse) = available
            /\ inUse \ {s} = inUse
        BY <3>2
      <4> QED BY <1>7, <4>1
    <3> QED BY <2>2, <3>1, <3>2
  <2> QED BY <1>5, <1>6, <1>8, <1>14, <2>1, <2>3 DEF Pooled
<1>15. CASE Effect(c, NoSlot, EvSlot(c)) /\ Pooled(PubSlot(c))
  <2> DEFINE s == PubSlot(c)
  <2>1. PubOnce' /\ PubSlots' = PubSlots \ {s} /\ EvOnce' /\ EvSlots' = EvSlots
    BY <1>7, <1>15, PubDrops, EvKeeps
  <2>2. s \in PubSlots \/ (s \notin inUse /\ s \notin PubSlots)
    BY <1>2, <1>3, <1>4, <1>7 DEF Apart, Created, NoSlot
  <2>3. Apart(QueueSlots, PubSlots \ {s}, EvSlots, HeldSlots, DoomedSlots,
              available \cup ({s} \cap inUse), inUse \ {s}, DOMAIN slots, Created)
    <3>1. CASE s \in PubSlots
      BY <1>7, <3>1, SlotReleased
    <3>2. CASE s \notin inUse /\ s \notin PubSlots
      <4>1. PubSlots \ {s} = PubSlots /\ available \cup ({s} \cap inUse) = available
            /\ inUse \ {s} = inUse
        BY <3>2
      <4> QED BY <1>7, <4>1
    <3> QED BY <2>2, <3>1, <3>2
  <2> QED BY <1>5, <1>6, <1>8, <1>15, <2>1, <2>3 DEF Pooled
<1> QED BY <1>9, <1>10, <1>11, <1>12, <1>13, <1>14, <1>15 DEF Step, Frees

\* What a step of the loop leaves alone.
LEMMA StaysSlots ==
  ASSUME SlotInv, Stays, UNCHANGED <<pkt, victim>>
  PROVE  PubOnce' /\ PubSlots' = PubSlots /\ EvOnce' /\ EvSlots' = EvSlots
<1>1. \A c \in Cameras : PubSlot(c)' = PubSlot(c) /\ EvSlot(c)' = EvSlot(c)
  BY DEF Stays, PubSlot, EvSlot
<1>2. PubOnce' /\ EvOnce'
  BY <1>1 DEF SlotInv, PubOnce, EvOnce
<1>3. \A x : x \in PubSlots' <=> x \in PubSlots
  BY <1>1 DEF PubSlots
<1>4. \A x : x \in EvSlots' <=> x \in EvSlots
  BY <1>1 DEF EvSlots
<1> QED BY <1>2, <1>3, <1>4

\* The slots of a set of packets that gains or loses one packet.
LEMMA SlotsOfMore ==
  ASSUME NEW S, NEW p, Once(S), p.slot \notin SlotsOf(S)
  PROVE  Once(S \cup {p}) /\ SlotsOf(S \cup {p}) = SlotsOf(S) \cup ({p.slot} \ {NoSlot})
BY DEF Once, SlotsOf

LEMMA SlotsOfLess ==
  ASSUME NEW S, NEW p \in S, Once(S)
  PROVE  Once(S \ {p}) /\ SlotsOf(S \ {p}) = SlotsOf(S) \ {p.slot}
BY DEF Once, SlotsOf

LEMMA TryGetSlots ==
  ASSUME TypeOK, SlotInv, TryGet
  PROVE  SlotInv'
<1>1. Stays
  BY StaysLoop, TypeParts DEF TryGet
<1>2. PubOnce' /\ PubSlots' = PubSlots /\ EvOnce' /\ EvSlots' = EvSlots
  BY <1>1, StaysSlots DEF TryGet
<1>3. DoomedSlots' = DoomedSlots /\ Once(doomed)' /\ Created' = Created
      /\ UNCHANGED <<available, inUse, slots>>
  BY DEF TryGet, DoomedSlots, SlotsOf, SlotInv, Once, Created, store
<1>4. /\ QueueOnce /\ Once(held)
      /\ Apart(QueueSlots, PubSlots, EvSlots, HeldSlots, DoomedSlots, available, inUse,
               DOMAIN slots, Created)
  BY DEF SlotInv, OnePlace
<1>5. ASSUME QueueOnce', Once(held)',
             Apart(QueueSlots', PubSlots, EvSlots, HeldSlots', DoomedSlots, available, inUse,
                   DOMAIN slots, Created)
      PROVE  SlotInv'
  BY <1>2, <1>3, <1>5 DEF SlotInv, OnePlace
<1>6. CASE UNCHANGED <<queue, held>>
  <2>1. QueueOnce' /\ QueueSlots' = QueueSlots /\ Once(held)' /\ HeldSlots' = HeldSlots
    BY <1>4, <1>6 DEF QueueOnce, QueueSlots, Once, HeldSlots, SlotsOf
  <2> QED BY <1>4, <1>5, <2>1
<1>7. CASE queue # <<>> /\ queue' = Tail(queue) /\ held' = held \cup {Head(queue)}
  <2> DEFINE s == Head(queue).slot
             m == {s} \ {NoSlot}
  <2>1. QueueOnce' /\ QueueSlots' = QueueSlots \ {s} /\ s \in QueueSlots \cup {NoSlot}
    BY <1>4, <1>7, TailSlots DEF TypeOK
  <2>2. NoSlot \notin QueueSlots /\ NoSlot \notin HeldSlots
    BY DEF QueueSlots, HeldSlots, SlotsOf
  <2>3. s \notin HeldSlots
    BY <1>4, <2>1, <2>2 DEF Apart
  <2>4. Once(held)' /\ HeldSlots' = HeldSlots \cup m
    BY <1>4, <1>7, <2>3, SlotsOfMore DEF HeldSlots
  <2> HIDE DEF s
  <2>5. m \in SUBSET QueueSlots /\ QueueSlots \ m = QueueSlots \ {s}
    BY <2>1, <2>2
  <2> HIDE DEF m
  <2>6. Apart(QueueSlots \ m, PubSlots, EvSlots, HeldSlots \cup m, DoomedSlots, available,
              inUse, DOMAIN slots, Created)
    BY <1>4, <2>5, SlotDelivered
  <2> QED BY <1>5, <2>1, <2>4, <2>5, <2>6
<1> QED BY <1>6, <1>7 DEF TryGet, Dequeue

\* The loop releases a packet it was given, or one it took out of the queue.
LEMMA LoopReleaseSlots ==
  ASSUME TypeOK, SlotInv, NEW p, Release(p, pc), UNCHANGED <<queue, pkt, victim>>,
         \/ p \in held /\ held' = held \ {p} /\ UNCHANGED doomed
         \/ p \in doomed /\ doomed' = doomed \ {p} /\ UNCHANGED held
  PROVE  SlotInv'
<1> DEFINE s == p.slot
<1>1. Stays
  BY StaysLoop, TypeParts
<1>2. PubOnce' /\ PubSlots' = PubSlots /\ EvOnce' /\ EvSlots' = EvSlots
  BY <1>1, StaysSlots
<1>3. QueueOnce' /\ QueueSlots' = QueueSlots
  BY DEF QueueOnce, QueueSlots, SlotInv
<1>4. Pooled(s) /\ UNCHANGED slots /\ Created' = Created
  BY ReleasePools DEF Pooled, Created
<1>5. /\ Once(held) /\ Once(doomed)
      /\ Apart(QueueSlots, PubSlots, EvSlots, HeldSlots, DoomedSlots, available, inUse,
               DOMAIN slots, Created)
  BY DEF SlotInv, OnePlace
<1>6. NoSlot \notin HeldSlots /\ NoSlot \notin DoomedSlots /\ NoSlot \notin inUse
  BY <1>5 DEF TypeOK, NoSlot, HeldSlots, DoomedSlots, SlotsOf
<1>7. ASSUME Once(held)', Once(doomed)',
             Apart(QueueSlots, PubSlots, EvSlots, HeldSlots', DoomedSlots',
                   available \cup ({s} \cap inUse), inUse \ {s}, DOMAIN slots, Created)
      PROVE  SlotInv'
  BY <1>2, <1>3, <1>4, <1>7 DEF SlotInv, OnePlace, Pooled
<1>8. CASE p \in held /\ held' = held \ {p} /\ UNCHANGED doomed
  <2>1. Once(held)' /\ HeldSlots' = HeldSlots \ {s}
    BY <1>5, <1>8, SlotsOfLess DEF HeldSlots
  <2>2. Once(doomed)' /\ DoomedSlots' = DoomedSlots
    BY <1>5, <1>8 DEF Once, DoomedSlots, SlotsOf
  <2>3. s \in HeldSlots \/ s = NoSlot
    BY <1>8 DEF HeldSlots, SlotsOf
  <2> HIDE DEF s
  <2>4. CASE s \in HeldSlots
    BY <1>5, <1>7, <2>1, <2>2, <2>4, SlotReleased
  <2>5. CASE s = NoSlot
    <3>1. HeldSlots \ {s} = HeldSlots /\ available \cup ({s} \cap inUse) = available
          /\ inUse \ {s} = inUse
      BY <1>6, <2>5
    <3> QED BY <1>5, <1>7, <2>1, <2>2, <3>1
  <2> QED BY <2>3, <2>4, <2>5
<1>9. CASE p \in doomed /\ doomed' = doomed \ {p} /\ UNCHANGED held
  <2>1. Once(doomed)' /\ DoomedSlots' = DoomedSlots \ {s}
    BY <1>5, <1>9, SlotsOfLess DEF DoomedSlots
  <2>2. Once(held)' /\ HeldSlots' = HeldSlots
    BY <1>5, <1>9 DEF Once, HeldSlots, SlotsOf
  <2>3. s \in DoomedSlots \/ s = NoSlot
    BY <1>9 DEF DoomedSlots, SlotsOf
  <2> HIDE DEF s
  <2>4. CASE s \in DoomedSlots
    BY <1>5, <1>7, <2>1, <2>2, <2>4, SlotReleased
  <2>5. CASE s = NoSlot
    <3>1. DoomedSlots \ {s} = DoomedSlots /\ available \cup ({s} \cap inUse) = available
          /\ inUse \ {s} = inUse
      BY <1>6, <2>5
    <3> QED BY <1>5, <1>7, <2>1, <2>2, <3>1
  <2> QED BY <2>3, <2>4, <2>5
<1> QED BY <1>8, <1>9

\* A step that leaves the slots, the queue and every packet where they are.
LEMMA LoopIdleSlots ==
  ASSUME SlotInv, UNCHANGED <<queue, store, pc, pkt, victim, held, doomed>>
  PROVE  SlotInv'
<1>1. /\ QueueOnce' /\ PubOnce' /\ EvOnce' /\ Once(held)' /\ Once(doomed)'
  BY DEF SlotInv, QueueOnce, PubOnce, EvOnce, Once, PubSlot, EvSlot
<1>2. OnePlace'
  BY DEF SlotInv, OnePlace, QueueSlots, PubSlots, EvSlots, HeldSlots, DoomedSlots, SlotsOf,
         PubSlot, EvSlot, Created, store
<1> QED BY <1>1, <1>2 DEF SlotInv

\* discard_camera and close take the positions `taken` out of the queue, and what
\* stays is queue[kept[1]], queue[kept[2]], ...
LEMMA TakeOutSlots ==
  ASSUME TypeOK, SlotInv, doomed = {}, Stays, NEW taken \in SUBSET (DOMAIN queue), NEW kept,
         DOMAIN queue' = DOMAIN kept,
         \A i \in DOMAIN kept : kept[i] \in DOMAIN queue \ taken /\ queue'[i] = queue[kept[i]],
         \A i, j \in DOMAIN kept : kept[i] = kept[j] => i = j,
         \A s \in DOMAIN queue \ taken : \E i \in DOMAIN kept : kept[i] = s,
         doomed' = {queue[i] : i \in taken}, UNCHANGED <<store, pkt, victim, held>>
  PROVE  SlotInv'
<1>1. PubOnce' /\ PubSlots' = PubSlots /\ EvOnce' /\ EvSlots' = EvSlots
  BY StaysSlots
<1>2. HeldSlots' = HeldSlots /\ Once(held)' /\ Created' = Created
      /\ UNCHANGED <<available, inUse, slots>>
  BY DEF HeldSlots, SlotsOf, SlotInv, Once, Created, store
<1>3. /\ QueueOnce /\ DoomedSlots = {}
      /\ Apart(QueueSlots, PubSlots, EvSlots, HeldSlots, {}, available, inUse, DOMAIN slots,
               Created)
  BY DEF SlotInv, OnePlace, DoomedSlots, SlotsOf
<1> DEFINE m == {queue[i].slot : i \in taken} \ {NoSlot}
<1>4. QueueOnce'
  BY <1>3 DEF QueueOnce
<1>5. \A s : s \in QueueSlots' => s \in QueueSlots \ m
  BY <1>3 DEF QueueSlots, QueueOnce
<1>6. \A s : s \in QueueSlots \ m => s \in QueueSlots'
  <2> SUFFICES ASSUME NEW k \in DOMAIN queue \ taken, queue[k].slot # NoSlot
               PROVE  queue[k].slot \in QueueSlots'
    BY DEF QueueSlots
  <2>1. PICK i \in DOMAIN kept : kept[i] = k
    OBVIOUS
  <2>2. queue'[i].slot = queue[k].slot /\ i \in DOMAIN queue'
    BY <2>1
  <2> QED BY <2>2 DEF QueueSlots
<1>7. Once(doomed)' /\ DoomedSlots' = m
  BY <1>3 DEF Once, QueueOnce, DoomedSlots, SlotsOf
<1>8. m \in SUBSET QueueSlots
  BY DEF QueueSlots
<1> HIDE DEF m
<1>9. Apart(QueueSlots \ m, PubSlots, EvSlots, HeldSlots, {} \cup m, available, inUse,
            DOMAIN slots, Created)
  BY <1>3, <1>8, SlotDoomed
<1>10. {} \cup m = m /\ QueueSlots' = QueueSlots \ m
  BY <1>5, <1>6
<1> QED BY <1>1, <1>2, <1>4, <1>7, <1>9, <1>10 DEF SlotInv, OnePlace

\* The positions that stay are enumerated without repetition.
LEMMA EnumerationOnce ==
  ASSUME NEW q \in Seq(Packet), NEW S \in SUBSET (DOMAIN q), NEW f \in Enumerations(S)
  PROVE  /\ \A i \in DOMAIN f : f[i] \in S
         /\ \A i, j \in DOMAIN f : f[i] = f[j] => i = j
         /\ \A s \in S : \E i \in DOMAIN f : f[i] = s
<1>1. DOMAIN q \subseteq Nat
  BY LenProperties
<1>2. Cardinality(S) \in Nat
  BY KeptOfQueue
<1> DEFINE n == Cardinality(S)
<1>3. /\ f \in [1 .. n -> S] /\ \A i, j \in 1 .. n : i < j => f[i] < f[j]
      /\ \A s \in S : \E i \in 1 .. n : f[i] = s
  BY DEF Enumerations
<1> HIDE DEF n
<1>4. ASSUME NEW i \in 1 .. n, NEW j \in 1 .. n, f[i] = f[j] PROVE i = j
  <2>1. f[i] \in Nat /\ f[j] \in Nat /\ i \in Int /\ j \in Int
    BY <1>1, <1>3
  <2>2. ~(i < j) /\ ~(j < i)
    BY <1>3, <1>4, <2>1
  <2> QED BY <2>1, <2>2
<1> QED BY <1>3, <1>4

LEMMA TidySlots ==
  ASSUME TypeOK, SlotInv, DoomedInside, Tidy
  PROVE  SlotInv' /\ DoomedInside'
<1>1. ASSUME NEW c \in Cameras, Discard(c) PROVE SlotInv' /\ DoomedInside'
  <2> DEFINE S == {i \in DOMAIN queue : queue[i].cam # c}
             taken == {i \in DOMAIN queue : queue[i].cam = c}
  <2>1. PICK kept \in Enumerations(S) : queue' = [i \in DOMAIN kept |-> queue[kept[i]]]
    BY <1>1 DEF Discard
  <2>2. S = DOMAIN queue \ taken /\ S \in SUBSET (DOMAIN queue)
        /\ taken \in SUBSET (DOMAIN queue)
    OBVIOUS
  <2>3. /\ \A i \in DOMAIN kept : kept[i] \in S
        /\ \A i, j \in DOMAIN kept : kept[i] = kept[j] => i = j
        /\ \A s \in S : \E i \in DOMAIN kept : kept[i] = s
    BY <2>1, <2>2, EnumerationOnce DEF TypeOK
  <2>4. DOMAIN queue' = DOMAIN kept /\ \A i \in DOMAIN kept : queue'[i] = queue[kept[i]]
    BY <2>1
  <2>5. Stays
    BY <1>1, StaysLoop, TypeParts DEF Discard
  <2>6. doomed = {} /\ doomed' = {queue[i] : i \in taken} /\ UNCHANGED <<store, pkt, victim, held>>
    BY <1>1 DEF Discard, DoomedInside
  <2> HIDE DEF S, taken
  <2>7. SlotInv'
    BY <2>2, <2>3, <2>4, <2>5, <2>6, TakeOutSlots
  <2> QED BY <1>1, <2>7 DEF Discard, DoomedInside
<1>2. ASSUME NEW p \in doomed, ReleaseDoomed(p) PROVE SlotInv' /\ DoomedInside'
  <2>1. SlotInv'
    BY <1>2, LoopReleaseSlots DEF ReleaseDoomed
  <2> QED BY <1>2, <2>1 DEF ReleaseDoomed, DoomedInside
<1>3. CASE EndDiscard
  BY <1>3, LoopIdleSlots DEF EndDiscard, DoomedInside
<1>4. CASE Close
  <2> DEFINE taken == DOMAIN queue
             kept == <<>>
  <2>1. DOMAIN kept = {} /\ queue' = kept
    BY <1>4 DEF Close
  <2>2. Stays
    BY <1>4, StaysLoop, TypeParts DEF Close
  <2>3. doomed = {} /\ doomed' = {queue[i] : i \in taken} /\ UNCHANGED <<store, pkt, victim, held>>
    BY <1>4 DEF Close, DoomedInside
  <2> HIDE DEF kept
  <2>4. SlotInv'
    BY <2>1, <2>2, <2>3, TakeOutSlots
  <2> QED BY <1>4, <2>4 DEF Close, DoomedInside
<1>5. CASE ClearStore
  <2>1. /\ QueueSlots' = QueueSlots /\ HeldSlots' = HeldSlots /\ DoomedSlots' = DoomedSlots
        /\ QueueOnce' /\ Once(held)' /\ Once(doomed)' /\ Created' = Created
    BY <1>5 DEF ClearStore, QueueSlots, HeldSlots, DoomedSlots, SlotsOf, QueueOnce, Once, Created,
                SlotInv
  <2>2. Stays
    BY <1>5, StaysLoop, TypeParts DEF ClearStore
  <2>3. PubOnce' /\ PubSlots' = PubSlots /\ EvOnce' /\ EvSlots' = EvSlots
    BY <1>5, <2>2, StaysSlots DEF ClearStore
  <2>4. Apart(QueueSlots, PubSlots, EvSlots, HeldSlots, DoomedSlots, {}, {}, {}, Created)
    BY DEF SlotInv, OnePlace, Apart
  <2>5. available' = {} /\ inUse' = {} /\ DOMAIN slots' = {}
    BY <1>5 DEF ClearStore
  <2>6. SlotInv'
    BY <2>1, <2>3, <2>4, <2>5 DEF SlotInv, OnePlace
  <2> QED BY <1>5, <2>6 DEF ClearStore, DoomedInside
<1>6. CASE Unlink
  BY <1>6, LoopIdleSlots DEF Unlink, DoomedInside
<1> QED BY <1>1, <1>2, <1>3, <1>4, <1>5, <1>6 DEF Tidy

LEMMA ConsumeSlots ==
  ASSUME TypeOK, SlotInv, DoomedInside, Consume
  PROVE  SlotInv' /\ DoomedInside'
<1>1. CASE TryGet
  BY <1>1, TryGetSlots DEF TryGet, DoomedInside
<1>2. ASSUME NEW p \in held, ReleaseHeld(p) PROVE SlotInv' /\ DoomedInside'
  <2>1. SlotInv'
    BY <1>2, LoopReleaseSlots DEF ReleaseHeld
  <2> QED BY <1>2, <2>1 DEF ReleaseHeld, DoomedInside
<1>3. CASE StartGet \/ ClearEvent \/ Recheck \/ RunSetCall \/ ResumeGet
  <2>1. SlotInv'
    BY <1>3, LoopIdleSlots DEF StartGet, ClearEvent, Recheck, RunSetCall, ResumeGet, loop
  <2> QED BY <1>3, <2>1
          DEF StartGet, ClearEvent, Recheck, RunSetCall, ResumeGet, loop, DoomedInside
<1> QED BY <1>1, <1>2, <1>3 DEF Consume

\* The inductive invariant of the slots.
OwnershipInv == TypeOK /\ EmptyHanded /\ SlotInv /\ DoomedInside

LEMMA OwnershipInit == Init => OwnershipInv
<1> SUFFICES ASSUME Init PROVE EmptyHanded /\ SlotInv /\ DoomedInside
  BY TypeInit DEF OwnershipInv
<1>1. EmptyHanded /\ DoomedInside
  BY DEF Init, EmptyHanded, NoPacket, DoomedInside
<1>2. \A c \in Cameras : PubSlot(c) = NoSlot /\ EvSlot(c) = NoSlot
  BY DEF Init, PubSlot, EvSlot, Owning, Holding, Releasing
<1>3. PubOnce /\ EvOnce /\ PubSlots = {} /\ EvSlots = {}
  BY <1>2 DEF PubOnce, EvOnce, PubSlots, EvSlots
<1>4. /\ QueueOnce /\ Once(held) /\ Once(doomed)
      /\ QueueSlots = {} /\ HeldSlots = {} /\ DoomedSlots = {}
  BY DEF Init, QueueOnce, Once, QueueSlots, HeldSlots, DoomedSlots, SlotsOf
<1>5. available = {} /\ inUse = {} /\ DOMAIN slots = {}
  BY DEF Init
<1>6. OnePlace
  BY <1>3, <1>4, <1>5 DEF OnePlace, Apart
<1> QED BY <1>1, <1>3, <1>4, <1>6 DEF SlotInv

LEMMA LoopEmptyHanded ==
  ASSUME TypeOK, EmptyHanded, Consume \/ Tidy
  PROVE  EmptyHanded'
<1>1. UNCHANGED pkt
  BY DEF Consume, StartGet, TryGet, ClearEvent, Recheck, RunSetCall, ResumeGet, ReleaseHeld,
         Tidy, Discard, ReleaseDoomed, EndDiscard, Close, ClearStore, Unlink
<1>2. Stays
  <2>1. \/ UNCHANGED pc \/ Dequeue(pc) \/ NotifyAllFull(pc)
        \/ \E p \in held \cup doomed : Release(p, pc)
    BY DEF Consume, StartGet, TryGet, ClearEvent, Recheck, RunSetCall, ResumeGet, ReleaseHeld,
           Tidy, Discard, ReleaseDoomed, EndDiscard, Close, ClearStore, Unlink
  <2> QED BY <2>1, StaysLoop, TypeParts
<1> QED BY <1>1, <1>2, EmptyHandedStays

LEMMA OwnershipNext == OwnershipInv /\ [Next]_vars => OwnershipInv'
<1> SUFFICES ASSUME OwnershipInv, [Next]_vars
             PROVE  EmptyHanded' /\ SlotInv' /\ DoomedInside'
  BY TypeNext DEF OwnershipInv
<1>1. ASSUME NEW c \in Cameras, Publish(c) PROVE EmptyHanded' /\ SlotInv' /\ DoomedInside'
  <2>1. UNCHANGED loop
    BY <1>1 DEF Publish, Capture, Acquire, EvictForSlot, ReleaseForSlot, Reacquire, Write, Put,
                BlockingPut, EvictForSpace, ReleaseForSpace, RetryPut, ReleaseOwn, Wakeup
  <2>2. Step(c) /\ EmptyHanded'
    BY <1>1, PublishEffect DEF OwnershipInv
  <2>3. UNCHANGED <<held, doomed, cpc>>
    BY <2>1 DEF loop
  <2>4. SlotInv'
    BY <2>2, <2>3, PublishSlots DEF OwnershipInv
  <2> QED BY <2>2, <2>3, <2>4 DEF DoomedInside, OwnershipInv
<1>2. CASE Consume
  BY <1>2, ConsumeSlots, LoopEmptyHanded DEF OwnershipInv
<1>3. CASE Tidy
  BY <1>3, TidySlots, LoopEmptyHanded DEF OwnershipInv
<1>4. CASE UNCHANGED vars
  <2>1. UNCHANGED <<queue, store, pc, pkt, victim, held, doomed, cpc>>
    BY <1>4 DEF vars, loop
  <2>2. SlotInv'
    BY <2>1, LoopIdleSlots DEF OwnershipInv
  <2> QED BY <2>1, <2>2 DEF OwnershipInv, EmptyHanded, DoomedInside
<1> QED BY <1>1, <1>2, <1>3, <1>4 DEF Next

LEMMA OwnershipHolds == Spec => []OwnershipInv
BY OwnershipInit, OwnershipNext, PTL DEF Spec

\* Two owners of one slot are the same owner.
LEMMA OneOwner ==
  ASSUME OwnershipInv, NEW s, s # NoSlot, NEW o1 \in Owners(s), NEW o2 \in Owners(s)
  PROVE  o1 = o2
<1>1. /\ QueueOnce /\ PubOnce /\ EvOnce /\ Once(held) /\ Once(doomed)
      /\ Apart(QueueSlots, PubSlots, EvSlots, HeldSlots, DoomedSlots, available, inUse,
               DOMAIN slots, Created)
  BY DEF OwnershipInv, SlotInv, OnePlace
<1> DEFINE Queued(o) == \E i \in DOMAIN queue : queue[i].slot = s /\ o = <<"queue", i>>
           Published(o) == \E c \in Cameras : PubSlot(c) = s /\ o = <<"publisher", c>>
           Evicted(o) == \E c \in Cameras : EvSlot(c) = s /\ o = <<"evictor", c>>
           Held(o) == \E p \in held : p.slot = s /\ o = <<"loop", p>>
           Doomed(o) == \E p \in doomed : p.slot = s /\ o = <<"loop", p>>
<1>2. ASSUME NEW o \in Owners(s)
      PROVE  Queued(o) \/ Published(o) \/ Evicted(o) \/ Held(o) \/ Doomed(o)
  BY <1>2 DEF Owners, OnLoop, Publishing, Evicting, PubSlot, EvSlot, Owning, Releasing
<1>3. ASSUME NEW o
      PROVE  /\ Queued(o) => s \in QueueSlots
             /\ Published(o) => s \in PubSlots
             /\ Evicted(o) => s \in EvSlots
             /\ Held(o) => s \in HeldSlots
             /\ Doomed(o) => s \in DoomedSlots
  BY DEF QueueSlots, PubSlots, EvSlots, HeldSlots, DoomedSlots, SlotsOf
<1>4. Queued(o1) /\ Queued(o2) => o1 = o2
  BY <1>1 DEF QueueOnce
<1>5. Published(o1) /\ Published(o2) => o1 = o2
  BY <1>1 DEF PubOnce
<1>6. Evicted(o1) /\ Evicted(o2) => o1 = o2
  BY <1>1 DEF EvOnce
<1>7. Held(o1) /\ Held(o2) => o1 = o2
  BY <1>1 DEF Once
<1>8. Doomed(o1) /\ Doomed(o2) => o1 = o2
  BY <1>1 DEF Once
<1> HIDE DEF Queued, Published, Evicted, Held, Doomed
<1>9. /\ ~(s \in QueueSlots /\ s \in PubSlots \cup EvSlots \cup HeldSlots \cup DoomedSlots)
      /\ ~(s \in PubSlots /\ s \in EvSlots \cup HeldSlots \cup DoomedSlots)
      /\ ~(s \in EvSlots /\ s \in HeldSlots \cup DoomedSlots)
      /\ ~(s \in HeldSlots /\ s \in DoomedSlots)
  BY <1>1 DEF Apart
<1> QED BY <1>2, <1>3, <1>4, <1>5, <1>6, <1>7, <1>8, <1>9

\* No slot is ever owned twice, whatever the drop policy and however the threads
\* and the loop interleave between two lock acquisitions.
THEOREM SlotsNeverShared == Spec => []NoSlotShared
<1>1. ASSUME OwnershipInv PROVE NoSlotShared
  <2>1. \A s \in 0 .. nextSlot - 1 : s # NoSlot
    BY DEF NoSlot
  <2>2. ASSUME NEW s \in available PROVE Owners(s) = {}
    <3>1. s # NoSlot
      BY <1>1, <2>2 DEF OwnershipInv, TypeOK, NoSlot
    <3>2. s \notin QueueSlots \cup PubSlots \cup EvSlots \cup HeldSlots \cup DoomedSlots
      BY <1>1, <2>2 DEF OwnershipInv, SlotInv, OnePlace, Apart
    <3>3. /\ \A i \in DOMAIN queue : queue[i].slot # s
          /\ \A c \in Cameras : PubSlot(c) # s /\ EvSlot(c) # s
          /\ \A p \in held \cup doomed : p.slot # s
      BY <3>1, <3>2 DEF QueueSlots, PubSlots, EvSlots, HeldSlots, DoomedSlots, SlotsOf
    <3> QED BY <3>1, <3>3
            DEF Owners, OnLoop, Publishing, Evicting, PubSlot, EvSlot, Owning, Releasing
  <2> QED BY <1>1, <2>1, <2>2, OneOwner DEF NoSlotShared
<1> QED BY <1>1, OwnershipHolds, PTL

\* No slot is ever lost: on every path of publish, and through discard_camera and
\* close, a slot the store counts as in use has an owner left to release it.
THEOREM SlotsNeverLost == Spec => []NoSlotLost
<1>1. ASSUME OwnershipInv PROVE NoSlotLost
  <2> SUFFICES ASSUME NEW s \in inUse PROVE \E o : o \in Owners(s)
    BY DEF NoSlotLost
  <2>1. s \in QueueSlots \cup PubSlots \cup EvSlots \cup HeldSlots \cup DoomedSlots
    BY <1>1 DEF OwnershipInv, SlotInv, OnePlace, Apart
  <2>2. CASE s \in QueueSlots
    <3>1. PICK i \in DOMAIN queue : queue[i].slot = s
      BY <2>2 DEF QueueSlots
    <3> QED BY <3>1 DEF Owners
  <2>3. CASE s \in PubSlots
    <3>1. PICK c \in Cameras : PubSlot(c) = s /\ s # NoSlot
      BY <2>3 DEF PubSlots
    <3>2. Publishing(c) /\ pkt[c].slot = s
      BY <3>1 DEF PubSlot, Publishing, Owning
    <3> QED BY <3>2 DEF Owners
  <2>4. CASE s \in EvSlots
    <3>1. PICK c \in Cameras : EvSlot(c) = s /\ s # NoSlot
      BY <2>4 DEF EvSlots
    <3>2. Evicting(c) /\ victim[c].slot = s
      BY <3>1 DEF EvSlot, Evicting, Releasing
    <3> QED BY <3>2 DEF Owners
  <2>5. CASE s \in HeldSlots \cup DoomedSlots
    <3>1. PICK p \in OnLoop : p.slot = s
      BY <2>5 DEF HeldSlots, DoomedSlots, SlotsOf, OnLoop
    <3> QED BY <3>1 DEF Owners
  <2> QED BY <2>1, <2>2, <2>3, <2>4, <2>5
<1> QED BY <1>1, OwnershipHolds, PTL

(***************************************************************************)
(* The loop and the publishers never all wait for each other.              *)
(***************************************************************************)

\* close has forgotten the store; the loop does not come back from there.
Cleared == cpc \in {"unlinking", "closed"}

\* Every slot is in the pool or in use; a thread is parked for a slot only if there are as
\* many as there may be, until close forgets them.
StoreInv ==
  /\ IsFiniteSet(DOMAIN slots)
  /\ DOMAIN slots \subseteq available \cup inUse
  /\ ~Cleared => \A c \in Cameras : pc[c] = "awaitSlot" => Cardinality(DOMAIN slots) >= MaxSlots

\* A notification parks nobody, and a release loses no slot.
LEMMA ReleaseStore ==
  ASSUME StoreInv, NEW threads \in [Cameras -> PublisherStates], NEW p, Release(p, threads),
         \A c \in Cameras : threads[c] = "awaitSlot" => pc[c] = "awaitSlot", UNCHANGED cpc
  PROVE  StoreInv'
<1>1. DOMAIN slots' = DOMAIN slots /\ (available \cup inUse) \subseteq (available \cup inUse)'
  BY DEF Release, store
<1>2. \A c \in Cameras : pc'[c] = "awaitSlot" => pc[c] = "awaitSlot"
  BY DEF Release, NotifyOne
<1> QED BY <1>1, <1>2 DEF StoreInv, Cleared

LEMMA DequeueParks ==
  ASSUME NEW threads \in [Cameras -> PublisherStates], Dequeue(threads),
         NEW c \in Cameras, pc'[c] = "awaitSlot"
  PROVE  threads[c] = "awaitSlot"
BY DEF Dequeue, NotifyOne

LEMMA StoreKept ==
  ASSUME StoreInv, UNCHANGED <<available, inUse, cpc>>, DOMAIN slots' = DOMAIN slots,
         \A c \in Cameras : pc'[c] = "awaitSlot" => pc[c] = "awaitSlot"
  PROVE  StoreInv'
BY DEF StoreInv, Cleared

LEMMA AcquireStore ==
  ASSUME TypeOK, StoreInv, NEW c \in Cameras, AcquireSlot(c), UNCHANGED cpc,
         pc' = Goto(c, "write")
  PROVE  StoreInv'
<1>1. \A d \in Cameras : pc'[d] = "awaitSlot" => pc[d] = "awaitSlot"
  BY DEF Goto, TypeOK
<1>2. CASE TakeAvailable(c)
  BY <1>1, <1>2 DEF TakeAvailable, StoreInv, Cleared
<1>3. CASE CreateSlot(c)
  <2>1. DOMAIN slots' = DOMAIN slots \cup {nextSlot}
    BY <1>3 DEF CreateSlot
  <2>2. IsFiniteSet(DOMAIN slots') /\ Cardinality(DOMAIN slots) <= Cardinality(DOMAIN slots')
    BY <2>1, FS_AddElement, FS_Subset DEF StoreInv
  <2>3. Cardinality(DOMAIN slots) \in Nat /\ Cardinality(DOMAIN slots') \in Nat /\ MaxSlots \in Nat
    BY <2>2, FS_CardinalityType, MaxSlotsAssumption DEF StoreInv
  <2>4. DOMAIN slots' \subseteq (available \cup inUse)'
    BY <1>3, <2>1 DEF CreateSlot, StoreInv, Cleared
  <2>5. ~Cleared' => \A d \in Cameras : pc'[d] = "awaitSlot" => Cardinality(DOMAIN slots') >= MaxSlots
    BY <1>1, <2>2, <2>3 DEF StoreInv, Cleared
  <2> QED BY <2>2, <2>4, <2>5 DEF StoreInv
<1> QED BY <1>2, <1>3 DEF AcquireSlot

LEMMA PublishStore ==
  ASSUME TypeOK, StoreInv, NEW c \in Cameras, Publish(c)
  PROVE  StoreInv'
<1>1. UNCHANGED cpc
  BY DEF Publish, Capture, Acquire, EvictForSlot, ReleaseForSlot, Reacquire, Write, Put,
         BlockingPut, EvictForSpace, ReleaseForSpace, RetryPut, ReleaseOwn, Wakeup, loop
<1>2. ASSUME NEW label \in PublisherStates, label # "awaitSlot"
      PROVE  /\ Goto(c, label) \in [Cameras -> PublisherStates]
             /\ \A d \in Cameras : Goto(c, label)[d] = "awaitSlot" => pc[d] = "awaitSlot"
  BY <1>2, GotoType, TypeParts DEF Counters, Goto, TypeOK
<1>3. ASSUME NEW label \in PublisherStates, label # "awaitSlot", pc' = Goto(c, label),
             UNCHANGED <<available, inUse>>, DOMAIN slots' = DOMAIN slots
      PROVE  StoreInv'
  BY <1>1, <1>2, <1>3, StoreKept
<1>4. CASE Capture(c) \/ Write(c) \/ Wakeup(c)
  <2>1. \E label \in {"acquire", "put", "idle"} : pc' = Goto(c, label)
    BY <1>4 DEF Capture, Write, Wakeup
  <2>2. UNCHANGED <<available, inUse>> /\ DOMAIN slots' = DOMAIN slots
    BY <1>4 DEF Capture, Write, Wakeup, store
  <2> QED BY <1>3, <2>1, <2>2 DEF PublisherStates
<1>5. CASE (Acquire(c) \/ Reacquire(c)) /\ AcquireSlot(c) /\ pc' = Goto(c, "write")
  BY <1>1, <1>5, AcquireStore
<1>6. CASE Acquire(c) /\ SlotsExhausted /\ UNCHANGED store
  BY <1>1, <1>6 DEF SlotsExhausted, store, StoreInv, Cleared
<1>7. CASE Reacquire(c) /\ pc' = Goto(c, "idle") /\ UNCHANGED store
  BY <1>3, <1>7 DEF store, PublisherStates
<1>8. CASE EvictForSlot(c) \/ EvictForSpace(c)
  <2>1. UNCHANGED store
    BY <1>8 DEF EvictForSlot, EvictForSpace
  <2>2. ASSUME NEW label \in {"releaseForSlot", "releaseForSpace"}, Dequeue(Goto(c, label))
        PROVE  StoreInv'
    <3>1. \A d \in Cameras : pc'[d] = "awaitSlot" => pc[d] = "awaitSlot"
      BY <1>2, <2>2, DequeueParks DEF PublisherStates
    <3> QED BY <1>1, <2>1, <3>1, StoreKept DEF store
  <2>3. ASSUME NEW label \in {"idle", "retryPut"}, pc' = Goto(c, label) PROVE StoreInv'
    BY <1>3, <2>1, <2>3 DEF store, PublisherStates
  <2> QED BY <1>8, <2>2, <2>3 DEF EvictForSlot, EvictForSpace
<1>9. CASE ReleaseForSlot(c) \/ ReleaseForSpace(c) \/ ReleaseOwn(c)
  <2>1. PICK label \in {"reacquire", "retryPut", "idle"} :
          Release(victim[c], Goto(c, label)) \/ Release(pkt[c], Goto(c, label))
    BY <1>9 DEF ReleaseForSlot, ReleaseForSpace, ReleaseOwn
  <2> QED BY <1>1, <1>2, <2>1, ReleaseStore DEF PublisherStates
<1>10. CASE Put(c) \/ BlockingPut(c) \/ RetryPut(c)
  <2>1. policy \in {"drop_oldest", "drop_newest", "block"}
    BY PoliciesAssumption DEF TypeOK
  <2>2. UNCHANGED store /\ \E label \in {"wakeup", "blockingPut", "evictForSpace", "releaseOwn",
                                         "awaitSpace"} : pc' = Goto(c, label)
    BY <1>10, <2>1 DEF Put, BlockingPut, RetryPut, Enqueue
  <2> QED BY <1>3, <2>2 DEF store, PublisherStates
<1> QED BY <1>4, <1>5, <1>6, <1>7, <1>8, <1>9, <1>10 DEF Publish, Acquire, Reacquire

LEMMA LoopStore ==
  ASSUME TypeOK, StoreInv, Consume \/ Tidy \/ UNCHANGED vars
  PROVE  StoreInv'
<1>1. pc \in [Cameras -> PublisherStates]
  BY DEF TypeOK
<1>2. ASSUME UNCHANGED <<slots, available, inUse>>, Cleared => Cleared',
             \A c \in Cameras : pc'[c] = "awaitSlot" => pc[c] = "awaitSlot"
      PROVE  StoreInv'
  BY <1>2 DEF StoreInv
<1>3. CASE StartGet \/ ClearEvent \/ Recheck \/ RunSetCall \/ ResumeGet \/ EndDiscard \/ Unlink
  BY <1>2, <1>3 DEF StartGet, ClearEvent, Recheck, RunSetCall, ResumeGet, EndDiscard, Unlink,
                    store, loop, Cleared
<1>4. CASE TryGet
  <2>1. UNCHANGED store /\ ~Cleared
    BY <1>4 DEF TryGet, Cleared
  <2> QED BY <1>1, <1>2, <1>4, <2>1, DequeueParks DEF TryGet, store
<1>5. CASE (\E p \in held : ReleaseHeld(p)) \/ (\E p \in doomed : ReleaseDoomed(p))
  BY <1>1, <1>5, ReleaseStore DEF ReleaseHeld, ReleaseDoomed
<1>6. CASE Close \/ \E c \in Cameras : Discard(c)
  <2>1. UNCHANGED store /\ ~Cleared
    BY <1>6 DEF Close, Discard, Cleared
  <2>2. \A c \in Cameras : pc'[c] = "awaitSlot" => pc[c] = "awaitSlot"
    BY <1>1, <1>6 DEF Close, Discard, NotifyAllFull
  <2> QED BY <1>2, <2>1, <2>2 DEF store
<1>7. CASE ClearStore
  <2>1. DOMAIN slots' = {} /\ Cleared'
    BY <1>7 DEF ClearStore, Cleared
  <2> QED BY <2>1, FS_EmptySet DEF StoreInv
<1>8. CASE UNCHANGED vars
  BY <1>2, <1>8 DEF vars, store, loop, Cleared
<1> QED BY <1>3, <1>4, <1>5, <1>6, <1>7, <1>8 DEF Consume, Tidy

LEMMA StoreInit == Init => StoreInv
<1> SUFFICES ASSUME Init PROVE StoreInv
  OBVIOUS
<1>1. DOMAIN slots = {} /\ \A c \in Cameras : pc[c] # "awaitSlot"
  BY DEF Init
<1> QED BY <1>1, FS_EmptySet DEF StoreInv

LEMMA StoreNext == TypeOK /\ StoreInv /\ [Next]_vars => StoreInv'
BY PublishStore, LoopStore DEF Next

(***************************************************************************)
(* What the loop retains.                                                  *)
(***************************************************************************)

\* The loop retains one packet per camera, and besides it the one it has just taken out.
RetainedInv ==
  /\ cpc # "out" => OnePerCamera(held)
  /\ OnePerCamera(held) \/ \E q \in held : OnePerCamera(held \ {q})

LEMMA RetainedInit == Init => RetainedInv
BY DEF Init, RetainedInv, OnePerCamera

LEMMA RetainedNext == RetainedInv /\ [Next]_vars => RetainedInv'
<1> SUFFICES ASSUME RetainedInv, [Next]_vars PROVE RetainedInv'
  OBVIOUS
<1>1. ASSUME held' = held, cpc = "out" => cpc' = "out" PROVE RetainedInv'
  BY <1>1 DEF RetainedInv, OnePerCamera
<1>2. ASSUME held' \subseteq held, OnePerCamera(held) PROVE RetainedInv'
  BY <1>2 DEF RetainedInv, OnePerCamera
<1>3. ASSUME NEW c \in Cameras, Publish(c) PROVE RetainedInv'
  <2>1. UNCHANGED loop
    BY <1>3 DEF Publish, Capture, Acquire, EvictForSlot, ReleaseForSlot, Reacquire, Write, Put,
                BlockingPut, EvictForSpace, ReleaseForSpace, RetryPut, ReleaseOwn, Wakeup
  <2> QED BY <1>1, <2>1 DEF loop
<1>4. CASE TryGet
  <2>1. OnePerCamera(held)
    BY <1>4 DEF TryGet, RetainedInv
  <2>2. CASE held' = held \cup {Head(queue)} /\ cpc' = "out"
    <3>1. held' \ {Head(queue)} \subseteq held /\ Head(queue) \in held'
      BY <2>2
    <3>2. OnePerCamera(held' \ {Head(queue)})
      BY <2>1, <3>1 DEF OnePerCamera
    <3>3. \E q \in held' : OnePerCamera(held' \ {q})
      BY <3>1, <3>2
    <3> HIDE DEF OnePerCamera
    <3> QED BY <2>2, <3>3 DEF RetainedInv
  <2> QED BY <1>2, <1>4, <2>1, <2>2 DEF TryGet
<1>5. ASSUME NEW p \in held, ReleaseHeld(p) PROVE RetainedInv'
  <2>1. held' = held \ {p} /\ cpc' = cpc
    BY <1>5 DEF ReleaseHeld
  <2>2. CASE OnePerCamera(held)
    BY <1>2, <2>1, <2>2
  <2>3. CASE ~OnePerCamera(held)
    <3>1. PICK q \in held : OnePerCamera(held \ {q})
      BY <2>3 DEF RetainedInv
    <3>2. OnePerCamera(held' \ {q})
      BY <2>1, <3>1 DEF OnePerCamera
    <3>3. CASE q = p
      BY <2>1, <2>3, <3>1, <3>3 DEF RetainedInv
    <3>4. CASE q # p
      BY <2>1, <2>3, <3>2, <3>4 DEF RetainedInv
    <3> QED BY <3>3, <3>4
  <2> QED BY <2>2, <2>3
<1>6. CASE StartGet \/ (\E c \in Cameras : Discard(c)) \/ Close
  BY <1>2, <1>6 DEF StartGet, Discard, Close
<1>7. CASE EndDiscard
  BY <1>2, <1>7 DEF EndDiscard, RetainedInv
<1>8. CASE ClearEvent \/ Recheck \/ RunSetCall \/ ResumeGet \/ ClearStore \/ Unlink
           \/ UNCHANGED vars \/ \E p \in doomed : ReleaseDoomed(p)
  BY <1>1, <1>8 DEF ClearEvent, Recheck, RunSetCall, ResumeGet, ClearStore, Unlink, ReleaseDoomed,
                    vars, loop
<1> QED BY <1>3, <1>4, <1>5, <1>6, <1>7, <1>8 DEF Next, Consume, Tidy

\* As many values as a function takes are no more than it has arguments.
LEMMA ImageSize ==
  ASSUME NEW S, IsFiniteSet(S), NEW T, NEW f \in [S -> T], \A t \in T : \E s \in S : f[s] = t
  PROVE  IsFiniteSet(T) /\ Cardinality(T) <= Cardinality(S)
<1>1. f \in Surjection(S, T)
  BY DEF Surjection
<1> QED BY <1>1, FS_Surjection

LEMMA OnePerCameraSize ==
  ASSUME NEW S, S \subseteq Packet, OnePerCamera(S)
  PROVE  IsFiniteSet(S) /\ Cardinality(S) <= Cardinality(Cameras)
<1> DEFINE cameraOf == [p \in S |-> p.cam]
<1>1. cameraOf \in [S -> Cameras]
  BY DEF Packet
<1>2. \A p, q \in S : cameraOf[p] = cameraOf[q] => p = q
  BY DEF OnePerCamera
<1>3. cameraOf \in Injection(S, Cameras)
  BY <1>1, <1>2 DEF Injection, IsInjective
<1> QED BY <1>3, FS_Injection, CamerasAssumption

\* The slots of the packets the loop retains.
LEMMA HeldSize ==
  ASSUME TypeOK, RetainedInv
  PROVE  /\ IsFiniteSet(SlotsOf(held))
         /\ Cardinality(SlotsOf(held)) <= Cardinality(Cameras) + 1
         /\ OnePerCamera(held) => Cardinality(SlotsOf(held)) <= Cardinality(Cameras)
<1> DEFINE n == Cardinality(Cameras)
<1>1. n \in Nat
  BY FS_CardinalityType, CamerasAssumption
<1>2. held \subseteq Packet
  BY DEF TypeOK
<1> HIDE DEF n
<1>3. IsFiniteSet(held) /\ Cardinality(held) <= n + 1 /\ (OnePerCamera(held) => Cardinality(held) <= n)
  <2>1. CASE OnePerCamera(held)
    <3>1. IsFiniteSet(held) /\ Cardinality(held) <= n /\ Cardinality(held) \in Nat
      BY <1>2, <2>1, OnePerCameraSize, FS_CardinalityType DEF n
    <3> QED BY <1>1, <3>1
  <2>2. CASE ~OnePerCamera(held)
    <3>1. PICK q \in held : OnePerCamera(held \ {q})
      BY <2>2 DEF RetainedInv
    <3>2. /\ IsFiniteSet(held \ {q}) /\ Cardinality(held \ {q}) <= n
          /\ Cardinality(held \ {q}) \in Nat
      BY <1>2, <3>1, OnePerCameraSize, FS_CardinalityType DEF n
    <3>3. held = (held \ {q}) \cup {q}
      OBVIOUS
    <3>4. IsFiniteSet(held) /\ Cardinality(held) = Cardinality(held \ {q}) + 1
      BY <3>2, <3>3, FS_AddElement
    <3> QED BY <1>1, <2>2, <3>2, <3>4
  <2> QED BY <2>1, <2>2
<1>4. IsFiniteSet(SlotsOf(held)) /\ Cardinality(SlotsOf(held)) <= Cardinality(held)
  <2> DEFINE f == [p \in {q \in held : q.slot # NoSlot} |-> p.slot]
  <2>1. /\ IsFiniteSet({q \in held : q.slot # NoSlot})
        /\ Cardinality({q \in held : q.slot # NoSlot}) <= Cardinality(held)
    BY <1>3, FS_Subset
  <2>2. /\ f \in [{q \in held : q.slot # NoSlot} -> SlotsOf(held)]
        /\ \A t \in SlotsOf(held) : \E p \in {q \in held : q.slot # NoSlot} : f[p] = t
    BY DEF SlotsOf
  <2>3. /\ IsFiniteSet(SlotsOf(held))
        /\ Cardinality(SlotsOf(held)) <= Cardinality({q \in held : q.slot # NoSlot})
    BY <2>1, <2>2, ImageSize
  <2>4. /\ Cardinality(SlotsOf(held)) \in Nat /\ Cardinality(held) \in Nat
        /\ Cardinality({q \in held : q.slot # NoSlot}) \in Nat
    BY <1>3, <2>1, <2>3, FS_CardinalityType
  <2> QED BY <2>1, <2>3, <2>4
<1>5. Cardinality(SlotsOf(held)) \in Nat /\ Cardinality(held) \in Nat
  BY <1>3, <1>4, FS_CardinalityType
<1> QED BY <1>1, <1>3, <1>4, <1>5 DEF n

\* The slots the threads own, if thread c owns none: every other thread has at most its
\* packet's and that of a packet it has evicted.
LEMMA ThreadSlots ==
  ASSUME NEW c \in Cameras, NEW g, g[c] = NoSlot,
         NEW S, S = {g[d] : d \in Cameras} \ {NoSlot}
  PROVE  IsFiniteSet(S) /\ Cardinality(S) <= Cardinality(Cameras) - 1
<1> DEFINE others == {d \in Cameras \ {c} : g[d] # NoSlot}
           f == [d \in others |-> g[d]]
<1>1. IsFiniteSet(Cameras \ {c}) /\ Cardinality(Cameras \ {c}) = Cardinality(Cameras) - 1
  BY CamerasAssumption, FS_RemoveElement
<1>2. /\ IsFiniteSet(others) /\ Cardinality(others) <= Cardinality(Cameras \ {c})
  BY <1>1, FS_Subset
<1>3. f \in [others -> S] /\ \A s \in S : \E d \in others : f[d] = s
  OBVIOUS
<1> HIDE DEF others, f
<1>4. IsFiniteSet(S) /\ Cardinality(S) <= Cardinality(others)
  BY <1>2, <1>3, ImageSize
<1>5. /\ Cardinality(S) \in Nat /\ Cardinality(others) \in Nat
      /\ Cardinality(Cameras \ {c}) \in Nat /\ Cardinality(Cameras) \in Nat
  BY <1>1, <1>2, <1>4, CamerasAssumption, FS_CardinalityType
<1> QED BY <1>1, <1>2, <1>4, <1>5

\* Fewer slots are in use than the store may have, if they are all among these.
LEMMA NotAllTaken ==
  ASSUME StoreInv, available = {}, NEW S, IsFiniteSet(S), inUse \subseteq S, NEW n \in Nat,
         Cardinality(S) <= n, n < MaxSlots
  PROVE  Cardinality(DOMAIN slots) < MaxSlots
<1>1. DOMAIN slots \in SUBSET S
  BY DEF StoreInv
<1>2. Cardinality(DOMAIN slots) <= Cardinality(S) /\ IsFiniteSet(DOMAIN slots)
  BY <1>1, FS_Subset
<1>3. Cardinality(DOMAIN slots) \in Nat /\ Cardinality(S) \in Nat /\ MaxSlots \in Nat
  BY <1>2, FS_CardinalityType, MaxSlotsAssumption
<1> QED BY <1>2, <1>3

\* The loop and the publishers never all wait for each other: a publisher is parked only
\* while the queue is full or every slot is owned, and the loop only while it is empty and
\* it retains no more than one packet per camera; so some thread has a slot to give back.
THEOREM NeverAllWait == Spec => []NeverAllWaiting
<1>1. ASSUME OwnershipInv, StoreInv, RetainedInv, NoLostWakeup PROVE NeverAllWaiting
  <2> SUFFICES ASSUME MaxSlots > Cardinality(Cameras), cpc = "wait",
                      NEW c \in Cameras, pc[c] \in Parked, ~event, ~(setCalls > 0),
                      \A d \in Cameras : pc[d] \in Parked \cup {"idle"}
               PROVE  FALSE
    BY DEF NeverAllWaiting
  <2> USE <1>1 DEF Parked
  <2>1. queue = <<>>
    BY DEF NoLostWakeup
  <2>2. \A d \in Cameras : pc[d] # "awaitSpace"
    <3>1. Len(queue) < QueueSize
      BY <2>1, QueueSizeAssumption
    <3> QED BY <3>1 DEF NoLostWakeup
  <2>3. pc[c] = "awaitSlot" /\ available = {}
    BY <2>2 DEF NoLostWakeup
  <2>4. QueueSlots = {} /\ DoomedSlots = {} /\ PubSlots = {} /\ EvSlots = {}
    <3>1. \A d \in Cameras : PubSlot(d) = NoSlot /\ EvSlot(d) = NoSlot
      BY <2>2 DEF PubSlot, EvSlot, Owning, Releasing, Holding
    <3>2. DOMAIN queue = {}
      BY <2>1
    <3> QED BY <3>1, <3>2 DEF QueueSlots, DoomedSlots, PubSlots, EvSlots, SlotsOf, OwnershipInv,
                              DoomedInside
  <2>5. inUse \subseteq SlotsOf(held)
    BY <2>4 DEF OwnershipInv, SlotInv, OnePlace, Apart, HeldSlots
  <2>6. IsFiniteSet(SlotsOf(held)) /\ Cardinality(SlotsOf(held)) <= Cardinality(Cameras)
    BY HeldSize DEF OwnershipInv, RetainedInv
  <2>7. Cardinality(Cameras) \in Nat /\ Cardinality(Cameras) < MaxSlots
    BY CamerasAssumption, FS_CardinalityType, MaxSlotsAssumption
  <2>8. Cardinality(DOMAIN slots) < MaxSlots
    BY <2>3, <2>5, <2>6, <2>7, NotAllTaken
  <2>9. Cardinality(DOMAIN slots) >= MaxSlots
    BY <2>3 DEF StoreInv, Cleared
  <2>10. Cardinality(DOMAIN slots) \in Nat /\ MaxSlots \in Nat
    BY FS_CardinalityType, MaxSlotsAssumption DEF StoreInv
  <2> QED BY <2>8, <2>9, <2>10
<1> QED BY <1>1, TypeCorrect, OwnershipHolds, StoreInit, StoreNext, RetainedInit, RetainedNext,
           WakeupNeverLost, PTL DEF Spec

\* With three slots per camera a publisher never finds the store exhausted while nothing
\* is queued that it could evict: the loop owns at most one slot per camera and one more,
\* and every other thread two.
THEOREM SlotsEnough == Spec => []PublisherNeverStarved
<1>1. ASSUME OwnershipInv, StoreInv, RetainedInv PROVE PublisherNeverStarved
  <2> SUFFICES ASSUME MaxSlots >= 3 * Cardinality(Cameras), queue = <<>>, doomed = {},
                      NEW c \in Cameras, pc[c] \in {"acquire", "reacquire"}, SlotsExhausted
               PROVE  FALSE
    BY DEF PublisherNeverStarved
  <2> USE <1>1
  <2> DEFINE n == Cardinality(Cameras)
             all == (SlotsOf(held) \cup PubSlots) \cup EvSlots
  <2>1. n \in Nat \ {0}
    BY CamerasAssumption, FS_CardinalityType, FS_EmptySet
  <2> HIDE DEF n
  <2>2. IsFiniteSet(SlotsOf(held)) /\ Cardinality(SlotsOf(held)) <= n + 1
    BY HeldSize DEF OwnershipInv, n
  <2>3. PubSlot(c) = NoSlot /\ EvSlot(c) = NoSlot
    BY DEF PubSlot, EvSlot, Owning, Releasing, Holding
  <2>4. IsFiniteSet(PubSlots) /\ Cardinality(PubSlots) <= n - 1
    <3> DEFINE g == [d \in Cameras |-> PubSlot(d)]
    <3>1. g[c] = NoSlot /\ PubSlots = {g[d] : d \in Cameras} \ {NoSlot}
      BY <2>3 DEF PubSlots
    <3> HIDE DEF g
    <3> QED BY <3>1, ThreadSlots DEF n
  <2>5. IsFiniteSet(EvSlots) /\ Cardinality(EvSlots) <= n - 1
    <3> DEFINE g == [d \in Cameras |-> EvSlot(d)]
    <3>1. g[c] = NoSlot /\ EvSlots = {g[d] : d \in Cameras} \ {NoSlot}
      BY <2>3 DEF EvSlots
    <3> HIDE DEF g
    <3> QED BY <3>1, ThreadSlots DEF n
  <2>6. /\ Cardinality(SlotsOf(held)) \in Nat /\ Cardinality(PubSlots) \in Nat
        /\ Cardinality(EvSlots) \in Nat
    BY <2>2, <2>4, <2>5, FS_CardinalityType
  <2>7. /\ IsFiniteSet(SlotsOf(held) \cup PubSlots)
        /\ Cardinality(SlotsOf(held) \cup PubSlots) <= (n + 1) + (n - 1)
    <3>1. /\ IsFiniteSet(SlotsOf(held) \cup PubSlots)
          /\ Cardinality(SlotsOf(held) \cup PubSlots) =
               Cardinality(SlotsOf(held)) + Cardinality(PubSlots)
                 - Cardinality(SlotsOf(held) \cap PubSlots)
      BY <2>2, <2>4, FS_Union
    <3>2. Cardinality(SlotsOf(held) \cap PubSlots) \in Nat
      BY <2>2, FS_Intersection, FS_CardinalityType
    <3> QED BY <2>1, <2>2, <2>4, <2>6, <3>1, <3>2
  <2>8. IsFiniteSet(all) /\ Cardinality(all) <= 3 * n - 1
    <3>1. /\ IsFiniteSet(all)
          /\ Cardinality(all) = Cardinality(SlotsOf(held) \cup PubSlots) + Cardinality(EvSlots)
                                  - Cardinality((SlotsOf(held) \cup PubSlots) \cap EvSlots)
      BY <2>5, <2>7, FS_Union
    <3>2. /\ Cardinality((SlotsOf(held) \cup PubSlots) \cap EvSlots) \in Nat
          /\ Cardinality(SlotsOf(held) \cup PubSlots) \in Nat
      BY <2>7, FS_Intersection, FS_CardinalityType
    <3> QED BY <2>1, <2>5, <2>6, <2>7, <3>1, <3>2
  <2>9. inUse \subseteq all
    <3>1. QueueSlots = {} /\ DoomedSlots = {}
      BY DEF QueueSlots, DoomedSlots, SlotsOf
    <3> QED BY <3>1 DEF OwnershipInv, SlotInv, OnePlace, Apart, HeldSlots
  <2>10. 3 * n - 1 \in Nat /\ 3 * n - 1 < MaxSlots
    BY <2>1, MaxSlotsAssumption DEF n
  <2> HIDE DEF all
  <2>11. Cardinality(DOMAIN slots) < MaxSlots
    BY <2>8, <2>9, <2>10, NotAllTaken DEF SlotsExhausted
  <2>12. Cardinality(DOMAIN slots) \in Nat /\ MaxSlots \in Nat
    BY FS_CardinalityType, MaxSlotsAssumption DEF StoreInv
  <2> QED BY <2>11, <2>12 DEF SlotsExhausted
<1> QED BY <1>1, TypeCorrect, OwnershipHolds, StoreInit, StoreNext, RetainedInit, RetainedNext,
           PTL DEF Spec

(***************************************************************************)
(* A packet shows the frame it was captured with.                          *)
(***************************************************************************)

\* Thread c has written the pixels of its packet and still owns the slot.
Carrying(c) == pc[c] \in Owning \ {"write"}

Queued == {queue[i] : i \in DOMAIN queue}

Shown == Queued \cup held \cup {pkt[c] : c \in {d \in Cameras : Carrying(d)}}

ContentInv == \A p \in Shown : p.slot \in DOMAIN slots => slots[p.slot] = Frame(p)

IntegrityInv == OwnershipInv /\ ContentInv

\* A thread that publishes moves no other thread and changes no other packet.
LEMMA OthersStay ==
  ASSUME TypeOK, NEW c \in Cameras, Publish(c)
  PROVE  /\ \E label \in PublisherStates : Moves(c, label)
         /\ \A d \in Cameras : d # c => pkt'[d] = pkt[d] /\ (Carrying(d)' <=> Carrying(d))
<1>1. ThreadTypeOK /\ pkt \in [Cameras -> Packet]
  BY TypeParts DEF TypeOK
<1>2. \E label \in PublisherStates :
        \/ pc' = Goto(c, label) \/ Dequeue(Goto(c, label))
        \/ \E p \in Packet : Release(p, Goto(c, label))
  BY PoliciesAssumption
     DEF Publish, Capture, Acquire, EvictForSlot, ReleaseForSlot, Reacquire, Write, Put, Enqueue,
         BlockingPut, EvictForSpace, ReleaseForSpace, RetryPut, ReleaseOwn, Wakeup, TypeOK,
         PublisherStates
<1>3. PICK label \in PublisherStates : Moves(c, label)
  BY <1>1, <1>2, GotoMoves, DequeueMoves, ReleaseMoves
<1>4. \A d \in Cameras : d # c => pkt'[d] = pkt[d]
  BY <1>1
     DEF Publish, Capture, Acquire, EvictForSlot, ReleaseForSlot, Reacquire, Write, Put, Enqueue,
         BlockingPut, EvictForSpace, ReleaseForSpace, RetryPut, ReleaseOwn, Wakeup, ForgetLocals,
         AcquireSlot, TakeAvailable, CreateSlot
<1> QED BY <1>3, <1>4 DEF Moves, Carrying

\* A step of publish queues nothing but the packet of the thread.
LEMMA QueuedAfter ==
  ASSUME TypeOK, NEW c \in Cameras, Publish(c)
  PROVE  \A p \in Queued' : p \in Queued \/ (Carrying(c) /\ p = pkt[c])
<1>1. queue \in Seq(Packet)
  BY DEF TypeOK
<1>2. CASE UNCHANGED queue
  BY <1>2 DEF Queued
<1>3. CASE queue # <<>> /\ queue' = Tail(queue)
  <2> DEFINE n == Len(queue)
  <2>1. n \in Nat \ {0} /\ DOMAIN queue = 1 .. n
    BY <1>1, <1>3, LenProperties, EmptySeq
  <2>2. /\ queue' \in Seq(Packet) /\ Len(queue') = n - 1
        /\ \A i \in 1 .. n - 1 : queue'[i] = queue[i + 1]
    BY <1>1, <1>3, HeadTailProperties
  <2> HIDE DEF n
  <2>3. DOMAIN queue' = 1 .. n - 1 /\ \A i \in 1 .. n - 1 : i + 1 \in 1 .. n
    BY <2>1, <2>2, LenProperties
  <2> QED BY <2>1, <2>2, <2>3 DEF Queued
<1>4. CASE Carrying(c) /\ queue' = Append(queue, pkt[c])
  <2> DEFINE n == Len(queue)
  <2>1. n \in Nat /\ DOMAIN queue = 1 .. n /\ pkt[c] \in Packet
    BY <1>1, LenProperties DEF TypeOK
  <2>2. /\ queue' \in Seq(Packet) /\ Len(queue') = n + 1 /\ queue'[n + 1] = pkt[c]
        /\ \A i \in 1 .. n : queue'[i] = queue[i]
    BY <1>1, <1>4, <2>1, AppendProperties
  <2> HIDE DEF n
  <2>3. DOMAIN queue' = 1 .. n + 1 /\ \A i \in 1 .. n + 1 : i \in 1 .. n \/ i = n + 1
    BY <2>1, <2>2, LenProperties
  <2> QED BY <1>4, <2>1, <2>2, <2>3 DEF Queued
<1>5. CASE Capture(c) \/ Acquire(c) \/ ReleaseForSlot(c) \/ Reacquire(c) \/ Write(c)
           \/ ReleaseForSpace(c) \/ ReleaseOwn(c) \/ Wakeup(c)
  BY <1>2, <1>5 DEF Capture, Acquire, ReleaseForSlot, Reacquire, Write, ReleaseForSpace,
                    ReleaseOwn, Wakeup
<1>6. CASE EvictForSlot(c) \/ EvictForSpace(c)
  BY <1>2, <1>3, <1>6 DEF EvictForSlot, EvictForSpace, Dequeue
<1>7. CASE Put(c) \/ BlockingPut(c) \/ RetryPut(c)
  <2>1. Carrying(c)
    BY <1>7 DEF Put, BlockingPut, RetryPut, Carrying, Owning, Holding
  <2> QED BY <1>2, <1>4, <1>7, <2>1 DEF Put, BlockingPut, RetryPut, Enqueue
<1> QED BY <1>5, <1>6, <1>7 DEF Publish

\* A step of publish writes to no slot but a new one and the one the thread owns.
LEMMA SlotsAfter ==
  ASSUME TypeOK, NEW c \in Cameras, Publish(c), NEW s \in DOMAIN slots'
  PROVE  \/ s \in DOMAIN slots /\ slots'[s] = slots[s]
         \/ s = nextSlot
         \/ pc[c] = "write" /\ s = pkt[c].slot
<1>1. CASE UNCHANGED slots
  BY <1>1
<1>2. CASE CreateSlot(c)
  BY <1>2 DEF CreateSlot
<1>3. CASE pc[c] = "write" /\ slots' = [slots EXCEPT ![pkt[c].slot] = Frame(pkt[c])]
  BY <1>3
<1>4. CASE Capture(c) \/ EvictForSlot(c) \/ Put(c) \/ BlockingPut(c) \/ EvictForSpace(c)
           \/ RetryPut(c) \/ Wakeup(c)
  BY <1>1, <1>4 DEF Capture, EvictForSlot, Put, BlockingPut, EvictForSpace, RetryPut, Wakeup, store
<1>5. CASE ReleaseForSlot(c) \/ ReleaseForSpace(c) \/ ReleaseOwn(c)
  BY <1>1, <1>5, ReleasePools DEF ReleaseForSlot, ReleaseForSpace, ReleaseOwn
<1>6. CASE Acquire(c) \/ Reacquire(c)
  BY <1>1, <1>2, <1>6 DEF Acquire, Reacquire, AcquireSlot, TakeAvailable, store
<1>7. CASE Write(c)
  BY <1>1, <1>3, <1>7 DEF Write
<1> QED BY <1>4, <1>5, <1>6, <1>7 DEF Publish

\* What the thread itself carries after its step.
LEMMA OwnAfter ==
  ASSUME TypeOK, EmptyHanded, NEW c \in Cameras, Publish(c), Carrying(c)'
  PROVE  \/ pkt'[c].slot = NoSlot
         \/ Carrying(c) /\ pkt'[c] = pkt[c]
         \/ /\ pc[c] = "write" /\ pkt'[c] = pkt[c]
            /\ slots'[pkt[c].slot] = Frame(pkt[c])
<1>1. ThreadTypeOK /\ pkt \in [Cameras -> Packet]
  BY TypeParts DEF TypeOK
<1>2. CASE Capture(c)
  BY <1>1, <1>2 DEF Capture, EmptyHanded, Owning, Holding, Packet
<1>3. CASE Write(c)
  BY <1>1, <1>3 DEF Write, ForgetLocals, Packet
<1>4. CASE Put(c) \/ BlockingPut(c) \/ EvictForSpace(c) \/ ReleaseForSpace(c) \/ RetryPut(c)
  BY <1>4 DEF Put, BlockingPut, EvictForSpace, ReleaseForSpace, RetryPut, Carrying, Owning, Holding
<1>5. CASE ReleaseOwn(c) \/ Wakeup(c)
  BY <1>1, <1>5 DEF ReleaseOwn, Wakeup, ForgetLocals, Packet
<1>6. CASE Acquire(c) \/ Reacquire(c)
  <2>1. PICK label \in PublisherStates : pc' = Goto(c, label) /\ label \notin Owning \ {"write"}
    BY <1>6, PoliciesAssumption
       DEF Acquire, Reacquire, TypeOK, PublisherStates, Owning, Holding
  <2>2. Moves(c, label)
    BY <1>1, <2>1, GotoMoves
  <2> QED BY <2>1, <2>2 DEF Moves, Carrying
<1>7. CASE EvictForSlot(c) \/ ReleaseForSlot(c)
  <2>1. PICK label \in {"releaseForSlot", "idle", "reacquire"} :
          pc' = Goto(c, label) \/ Dequeue(Goto(c, label)) \/ Release(victim[c], Goto(c, label))
    BY <1>7 DEF EvictForSlot, ReleaseForSlot
  <2>2. Moves(c, label)
    BY <1>1, <2>1, GotoMoves, DequeueMoves, ReleaseMoves DEF PublisherStates
  <2> QED BY <2>1, <2>2 DEF Moves, Carrying, Owning, Holding
<1> QED BY <1>2, <1>3, <1>4, <1>5, <1>6, <1>7 DEF Publish

LEMMA PublishContent ==
  ASSUME OwnershipInv, ContentInv, NEW c \in Cameras, Publish(c)
  PROVE  ContentInv'
<1>1. TypeOK /\ EmptyHanded /\ PubOnce
      /\ Apart(QueueSlots, PubSlots, EvSlots, HeldSlots, DoomedSlots, available, inUse,
               DOMAIN slots, Created)
  BY DEF OwnershipInv, SlotInv, OnePlace
<1>2. /\ \A d \in Cameras : d # c => pkt'[d] = pkt[d] /\ (Carrying(d)' <=> Carrying(d))
      /\ \A p \in Queued' : p \in Queued \/ (Carrying(c) /\ p = pkt[c])
      /\ held' = held
  BY <1>1, OthersStay, QueuedAfter
     DEF Publish, Capture, Acquire, EvictForSlot, ReleaseForSlot, Reacquire, Write, Put, BlockingPut,
         EvictForSpace, ReleaseForSpace, RetryPut, ReleaseOwn, Wakeup, loop
<1>3. DOMAIN slots' \subseteq Nat /\ nextSlot \in Nat
  BY <1>1, TypeNext DEF Next, TypeOK
<1>4. ASSUME NEW p \in Shown, p.slot \in DOMAIN slots'
      PROVE  slots'[p.slot] = Frame(p)
  <2>1. p.slot # NoSlot
    BY <1>3, <1>4 DEF NoSlot
  <2>2. CASE p \in Queued \cup held
    <3>1. p.slot \in QueueSlots \cup HeldSlots
      BY <2>1, <2>2 DEF Queued, QueueSlots, HeldSlots, SlotsOf
    <3>2. p.slot # nextSlot
      BY <1>1, <1>3, <3>1 DEF Apart, Created
    <3>3. ~(pc[c] = "write" /\ p.slot = pkt[c].slot)
      <4>1. pc[c] = "write" /\ p.slot = pkt[c].slot => p.slot \in PubSlots
        BY <2>1 DEF PubSlots, PubSlot, Owning
      <4> QED BY <1>1, <3>1, <4>1 DEF Apart
    <3> QED BY <1>1, <1>4, <3>2, <3>3, SlotsAfter DEF ContentInv
  <2>3. CASE p \notin Queued \cup held
    <3>1. PICK d \in Cameras : Carrying(d) /\ p = pkt[d]
      BY <2>3 DEF Shown
    <3>2. PubSlot(d) = p.slot
      BY <3>1 DEF PubSlot, Carrying
    <3>3. p.slot \in PubSlots
      BY <2>1, <3>2 DEF PubSlots
    <3>4. p.slot # nextSlot
      BY <1>1, <1>3, <3>3 DEF Apart, Created
    <3>5. ~(pc[c] = "write" /\ p.slot = pkt[c].slot)
      <4>1. pc[c] = "write" /\ p.slot = pkt[c].slot => PubSlot(c) = PubSlot(d)
        BY <3>2 DEF PubSlot, Owning
      <4> QED BY <1>1, <2>1, <3>1, <3>2, <4>1 DEF PubOnce, Carrying
    <3> QED BY <1>1, <1>4, <3>4, <3>5, SlotsAfter DEF ContentInv
  <2> QED BY <2>2, <2>3
<1>5. ASSUME Carrying(c)', pkt'[c].slot \in DOMAIN slots'
      PROVE  slots'[pkt'[c].slot] = Frame(pkt'[c])
  <2>1. pkt'[c].slot # NoSlot
    BY <1>3, <1>5 DEF NoSlot
  <2>2. CASE Carrying(c) /\ pkt'[c] = pkt[c]
    BY <1>4, <1>5, <2>2 DEF Shown
  <2>3. CASE pkt'[c] = pkt[c] /\ slots'[pkt[c].slot] = Frame(pkt[c])
    BY <2>3
  <2> QED BY <1>1, <1>5, <2>1, <2>2, <2>3, OwnAfter
<1>6. ASSUME NEW p \in Shown' PROVE p \in Shown \/ (Carrying(c)' /\ p = pkt'[c])
  <2>1. CASE p \in Queued'
    BY <1>2, <2>1 DEF Shown
  <2>2. CASE p \in held'
    BY <1>2, <2>2 DEF Shown
  <2>3. CASE \E d \in Cameras : Carrying(d)' /\ p = pkt'[d]
    BY <1>2, <2>3 DEF Shown
  <2> QED BY <1>6, <2>1, <2>2, <2>3 DEF Shown
<1> QED BY <1>4, <1>5, <1>6 DEF ContentInv

\* The loop moves packets and forgets slots, and writes to none.
LEMMA LoopContent ==
  ASSUME OwnershipInv, ContentInv, Consume \/ Tidy
  PROVE  ContentInv'
<1>1. TypeOK /\ queue \in Seq(Packet)
  BY DEF OwnershipInv, TypeOK
<1>2. UNCHANGED pkt /\ Stays
  <2>1. UNCHANGED pkt
    BY DEF Consume, StartGet, TryGet, ClearEvent, Recheck, RunSetCall, ResumeGet, ReleaseHeld,
           Tidy, Discard, ReleaseDoomed, EndDiscard, Close, ClearStore, Unlink
  <2>2. \/ UNCHANGED pc \/ Dequeue(pc) \/ NotifyAllFull(pc)
        \/ \E p \in held \cup doomed : Release(p, pc)
    BY DEF Consume, StartGet, TryGet, ClearEvent, Recheck, RunSetCall, ResumeGet, ReleaseHeld,
           Tidy, Discard, ReleaseDoomed, EndDiscard, Close, ClearStore, Unlink
  <2> QED BY <1>1, <2>1, <2>2, StaysLoop, TypeParts
<1>3. \A c \in Cameras : Carrying(c)' <=> Carrying(c)
  BY <1>2 DEF Stays, Carrying
<1>4. slots' = slots \/ slots' = <<>>
  <2>1. CASE \E p \in held \cup doomed : Release(p, pc) /\ UNCHANGED queue
    BY <2>1, ReleasePools
  <2>2. CASE ClearStore
    BY <2>2 DEF ClearStore
  <2>3. CASE UNCHANGED store
    BY <2>3 DEF store
  <2> QED BY <2>1, <2>2, <2>3
          DEF Consume, StartGet, TryGet, ClearEvent, Recheck, RunSetCall, ResumeGet, ReleaseHeld,
              Tidy, Discard, ReleaseDoomed, EndDiscard, Close, Unlink
<1>5. Queued' \subseteq Queued /\ held' \subseteq held \cup Queued
  <2>1. CASE TryGet
    <3>1. CASE queue = <<>> /\ UNCHANGED <<queue, held>>
      BY <3>1 DEF Queued
    <3>2. CASE queue # <<>> /\ queue' = Tail(queue) /\ held' = held \cup {Head(queue)}
      <4> DEFINE n == Len(queue)
      <4>1. n \in Nat \ {0} /\ DOMAIN queue = 1 .. n /\ Head(queue) = queue[1]
        BY <1>1, <3>2, LenProperties, EmptySeq
      <4>2. /\ queue' \in Seq(Packet) /\ Len(queue') = n - 1
            /\ \A i \in 1 .. n - 1 : queue'[i] = queue[i + 1]
        BY <1>1, <3>2, HeadTailProperties
      <4> HIDE DEF n
      <4>3. DOMAIN queue' = 1 .. n - 1 /\ \A i \in 1 .. n - 1 : i + 1 \in 1 .. n
        BY <4>1, <4>2, LenProperties
      <4>4. 1 \in 1 .. n
        BY <4>1
      <4> QED BY <3>2, <4>1, <4>2, <4>3, <4>4 DEF Queued
    <3> QED BY <2>1, <3>1, <3>2 DEF TryGet, Dequeue
  <2>2. ASSUME NEW c \in Cameras, Discard(c) PROVE Queued' \subseteq Queued /\ held' = held
    <3>1. PICK kept \in Enumerations({i \in DOMAIN queue : queue[i].cam # c}) :
            queue' = [i \in DOMAIN kept |-> queue[kept[i]]]
      BY <2>2 DEF Discard
    <3>2. \A i \in DOMAIN kept : kept[i] \in DOMAIN queue
      BY <1>1, <3>1, EnumerationOnce
    <3> QED BY <2>2, <3>1, <3>2 DEF Discard, Queued
  <2>3. CASE Close
    BY <2>3 DEF Close, Queued
  <2>4. ASSUME NEW p, ReleaseHeld(p) PROVE queue' = queue /\ held' \subseteq held
    BY <2>4 DEF ReleaseHeld
  <2>5. CASE UNCHANGED <<queue, held>>
    BY <2>5 DEF Queued
  <2>6. CASE \E p \in held : ReleaseHeld(p)
    BY <2>4, <2>6 DEF Queued
  <2>7. CASE StartGet \/ ClearEvent \/ Recheck \/ RunSetCall \/ ResumeGet \/ EndDiscard
             \/ ClearStore \/ Unlink \/ \E p \in doomed : ReleaseDoomed(p)
    BY <2>5, <2>7 DEF StartGet, ClearEvent, Recheck, RunSetCall, ResumeGet, EndDiscard, ClearStore,
                      Unlink, ReleaseDoomed, loop
  <2> QED BY <2>1, <2>2, <2>3, <2>6, <2>7 DEF Consume, Tidy
<1>6. Shown' \subseteq Shown
  BY <1>2, <1>3, <1>5 DEF Shown
<1>7. DOMAIN <<>> = {}
  OBVIOUS
<1> QED BY <1>4, <1>6, <1>7 DEF ContentInv

LEMMA IntegrityInit == Init => IntegrityInv
<1>1. Init => ContentInv
  BY DEF Init, ContentInv
<1> QED BY <1>1, OwnershipInit DEF IntegrityInv

LEMMA IntegrityNext == IntegrityInv /\ [Next]_vars => IntegrityInv'
<1> SUFFICES ASSUME IntegrityInv, [Next]_vars PROVE ContentInv'
  BY OwnershipNext DEF IntegrityInv
<1>1. CASE UNCHANGED vars
  BY <1>1 DEF vars, loop, store, IntegrityInv, ContentInv, Shown, Queued, Carrying
<1> QED BY <1>1, PublishContent, LoopContent DEF Next, IntegrityInv

\* A queued or delivered packet shows the frame it was captured with: no thread
\* copies pixels into a slot while a packet that owns it is queued or delivered.
THEOREM FramesIntact == Spec => []FrameIntegrity
<1>1. ASSUME IntegrityInv PROVE FrameIntegrity
  BY <1>1 DEF IntegrityInv, ContentInv, Shown, Queued, FrameIntegrity
<1> QED BY <1>1, IntegrityInit, IntegrityNext, PTL DEF Spec

(***************************************************************************)
(* The refinement of FrameQueue.                                           *)
(***************************************************************************)

\* Where a thread is outside publish, or has nothing left to do but to wake the loop.
Outside == {"idle", "wakeup"}

\* The state of FrameQueue that a state of the buffer stands for.
FramesOf(packets) == [i \in DOMAIN packets |-> Frame(packets[i])]
Captured == [c \in Cameras |-> pkt[c].seq]
Offering == {c \in Cameras : pc[c] \notin Outside}

\* A packet names the camera whose thread made it.
OwnCamera == \A c \in Cameras : pkt[c].cam = c

\* No thread gets a frame, and none changes its number.
SameFrames == \A d \in Cameras : pkt'[d].cam = pkt[d].cam /\ pkt'[d].seq = pkt[d].seq

\* A notified thread is inside publish before and after.
LEMMA NotifyOneOffering ==
  ASSUME NEW threads \in Counters, NEW parked, NEW resumed,
         \/ parked = "awaitSlot" /\ resumed = "acquire"
         \/ parked = "awaitSpace" /\ resumed = "blockingPut",
         NotifyOne(parked, resumed, threads), NEW d \in Cameras
  PROVE  pc'[d] \in Outside <=> threads[d] \in Outside
<1>1. CASE pc' = threads
  BY <1>1
<1>2. CASE \E w \in Cameras : threads[w] = parked /\ pc' = [threads EXCEPT ![w] = resumed]
  BY <1>2 DEF Counters, Outside
<1> QED BY <1>1, <1>2 DEF NotifyOne

LEMMA NotifiedOffering ==
  ASSUME NEW threads \in Counters,
         \/ pc' = threads
         \/ NotifyAllFull(threads)
         \/ Dequeue(threads)
         \/ \E p : Release(p, threads)
  PROVE  Offering' = {d \in Cameras : threads[d] \notin Outside}
<1>1. CASE pc' = threads
  BY <1>1 DEF Offering
<1>2. CASE NotifyAllFull(threads)
  BY <1>2 DEF NotifyAllFull, Counters, Outside, Offering
<1>3. CASE Dequeue(threads)
  BY <1>3, NotifyOneOffering DEF Dequeue, Offering
<1>4. ASSUME NEW p, Release(p, threads)
      PROVE  Offering' = {d \in Cameras : threads[d] \notin Outside}
  <2>1. CASE p.slot \in inUse
    BY <1>4, <2>1, NotifyOneOffering DEF Release, Offering
  <2>2. CASE p.slot \notin inUse
    BY <1>4, <2>2, <1>1 DEF Release
  <2> QED BY <2>1, <2>2
<1> QED BY <1>1, <1>2, <1>3, <1>4

\* Where thread c goes says whether it goes on to offer its frame.
LEMMA GotoOffering ==
  ASSUME ThreadTypeOK, NEW c \in Cameras, NEW label \in PublisherStates,
         \/ pc' = Goto(c, label)
         \/ Dequeue(Goto(c, label))
         \/ \E p : Release(p, Goto(c, label))
  PROVE  /\ label \notin Outside => Offering' = Offering \cup {c}
         /\ label \in Outside => Offering' = Offering \ {c}
<1>1. Goto(c, label) \in Counters
  BY GotoType
<1>2. \A d \in Cameras : Goto(c, label)[d] = IF d = c THEN label ELSE pc[d]
  BY DEF Goto, ThreadTypeOK
<1>3. Offering' = {d \in Cameras : Goto(c, label)[d] \notin Outside}
  BY <1>1, NotifiedOffering
<1> QED BY <1>2, <1>3 DEF Offering

\* What a step does to the queue of frames and to the threads that offer one.
Offers(c) ==
  /\ c \notin Offering /\ Offering' = Offering \cup {c}
  /\ pkt' = [pkt EXCEPT ![c].seq = @ + 1] /\ queue' = queue
Accepts(c) ==
  /\ c \in Offering /\ Offering' = Offering \ {c}
  /\ Len(queue) < QueueSize /\ queue' = Append(queue, pkt[c]) /\ pkt' = pkt
Loses(c) ==
  /\ c \in Offering /\ Offering' = Offering \ {c}
  /\ SameFrames /\ queue' = queue
Takes ==
  /\ queue # <<>> /\ queue' = Tail(queue)
  /\ Offering' = Offering /\ pkt' = pkt
Hidden == Offering' = Offering /\ SameFrames /\ queue' = queue

DropsCamera(c) ==
  /\ \E kept \in Enumerations({i \in DOMAIN queue : queue[i].cam # c}) :
       queue' = [i \in DOMAIN kept |-> queue[kept[i]]]
  /\ Offering' = Offering /\ pkt' = pkt
DropsAll == queue' = <<>> /\ Offering' = Offering /\ pkt' = pkt

FrameStep(c) == Offers(c) \/ Accepts(c) \/ Loses(c) \/ Takes \/ Hidden

LEMMA PublishFrames ==
  ASSUME TypeOK, NEW c \in Cameras, Publish(c)
  PROVE  FrameStep(c)
<1> USE DEF FrameStep
<1>1. ThreadTypeOK /\ pkt \in [Cameras -> Packet]
  BY DEF TypeOK, ThreadTypeOK
<1>2. pc[c] \notin Outside => c \in Offering
  BY DEF Offering
<1>3. \A label \in PublisherStates : pc' = Goto(c, label) =>
        /\ label \notin Outside => Offering' = Offering \cup {c}
        /\ label \in Outside => Offering' = Offering \ {c}
  BY <1>1, GotoOffering
<1>4. \A s : pkt' = [pkt EXCEPT ![c].slot = s] => SameFrames
  BY <1>1 DEF SameFrames, Packet
<1>5. pkt' = pkt => SameFrames
  BY DEF SameFrames
<1>6. ForgetLocals(c) => SameFrames
  BY <1>4 DEF ForgetLocals
<1>7. AcquireSlot(c) => SameFrames
  BY <1>4 DEF AcquireSlot, TakeAvailable, CreateSlot
<1>8. policy \in {"block", "drop_oldest", "drop_newest"}
  BY PoliciesAssumption DEF TypeOK
<1>10. CASE Capture(c)
  BY <1>3, <1>10 DEF Capture, Offers, Offering, Outside, PublisherStates
<1>11. CASE Acquire(c)
  <2>1. queue' = queue /\ c \in Offering
    BY <1>2, <1>11 DEF Acquire, Outside
  <2>2. SameFrames
    BY <1>5, <1>7, <1>11 DEF Acquire
  <2>3. \E label \in {"write", "awaitSlot", "evictForSlot", "idle"} : pc' = Goto(c, label)
    BY <1>8, <1>11 DEF Acquire
  <2> QED BY <1>3, <2>1, <2>2, <2>3 DEF Loses, Hidden, Outside, PublisherStates
<1>12. CASE EvictForSlot(c)
  <2>1. c \in Offering /\ pkt' = pkt
    BY <1>2, <1>12 DEF EvictForSlot, Outside
  <2>2. CASE Dequeue(Goto(c, "releaseForSlot"))
    <3>1. Offering' = Offering
      BY <1>1, <2>1, <2>2, GotoOffering DEF Outside, PublisherStates
    <3> QED BY <2>1, <2>2, <3>1 DEF Takes, Dequeue
  <2>3. CASE pc' = Goto(c, "idle") /\ queue' = queue
    BY <1>3, <1>5, <2>1, <2>3 DEF Loses, Outside, PublisherStates
  <2> QED BY <1>12, <2>2, <2>3 DEF EvictForSlot
<1>13. CASE ReleaseForSlot(c)
  <2>1. c \in Offering /\ pkt' = pkt /\ queue' = queue
    BY <1>2, <1>13 DEF ReleaseForSlot, Outside
  <2>2. Offering' = Offering
    BY <1>1, <1>13, <2>1, GotoOffering DEF ReleaseForSlot, Outside, PublisherStates
  <2> QED BY <1>5, <2>1, <2>2 DEF Hidden
<1>14. CASE Reacquire(c)
  <2>1. c \in Offering /\ queue' = queue
    BY <1>2, <1>14 DEF Reacquire, Outside
  <2>2. SameFrames
    BY <1>6, <1>7, <1>14 DEF Reacquire
  <2>3. \E label \in {"write", "idle"} : pc' = Goto(c, label)
    BY <1>14 DEF Reacquire
  <2> QED BY <1>3, <2>1, <2>2, <2>3 DEF Loses, Hidden, Outside, PublisherStates
<1>15. CASE Write(c)
  <2>1. c \in Offering /\ queue' = queue
    BY <1>2, <1>15 DEF Write, Outside
  <2>2. SameFrames
    BY <1>5, <1>6, <1>15 DEF Write
  <2>3. \E label \in {"put", "idle"} : pc' = Goto(c, label)
    BY <1>15 DEF Write
  <2> QED BY <1>3, <2>1, <2>2, <2>3 DEF Loses, Hidden, Outside, PublisherStates
<1>16. ASSUME Enqueue(c), pc[c] \notin Outside, pkt' = pkt
       PROVE  Accepts(c)
  BY <1>2, <1>3, <1>16 DEF Enqueue, Accepts, Outside, PublisherStates
<1>17. ASSUME NEW label \in PublisherStates \ Outside, pc' = Goto(c, label), pc[c] \notin Outside,
              pkt' = pkt, queue' = queue
       PROVE  Hidden
  BY <1>2, <1>3, <1>5, <1>17 DEF Hidden
<1>18. CASE Put(c)
  <2>1. pc[c] \notin Outside /\ pkt' = pkt
    BY <1>18 DEF Put, Outside
  <2>2. CASE Enqueue(c)
    BY <1>16, <2>1, <2>2
  <2>3. CASE ~Enqueue(c)
    <3>1. /\ queue' = queue
          /\ \E label \in {"blockingPut", "evictForSpace", "releaseOwn"} : pc' = Goto(c, label)
      BY <1>8, <1>18, <2>3 DEF Put
    <3> QED BY <1>17, <2>1, <3>1 DEF Outside, PublisherStates
  <2> QED BY <2>2, <2>3
<1>19. CASE BlockingPut(c)
  BY <1>16, <1>17, <1>19 DEF BlockingPut, Outside, PublisherStates
<1>20. CASE EvictForSpace(c)
  <2>1. pc[c] \notin Outside /\ c \in Offering /\ pkt' = pkt
    BY <1>2, <1>20 DEF EvictForSpace, Outside
  <2>2. CASE Dequeue(Goto(c, "releaseForSpace"))
    <3>1. Offering' = Offering
      BY <1>1, <2>1, <2>2, GotoOffering DEF Outside, PublisherStates
    <3> QED BY <2>1, <2>2, <3>1 DEF Takes, Dequeue
  <2>3. CASE pc' = Goto(c, "retryPut") /\ queue' = queue
    BY <1>17, <2>1, <2>3 DEF Outside, PublisherStates
  <2> QED BY <1>20, <2>2, <2>3 DEF EvictForSpace
<1>21. CASE ReleaseForSpace(c)
  <2>1. c \in Offering /\ pkt' = pkt /\ queue' = queue
    BY <1>2, <1>21 DEF ReleaseForSpace, Outside
  <2>2. Offering' = Offering
    BY <1>1, <1>21, <2>1, GotoOffering DEF ReleaseForSpace, Outside, PublisherStates
  <2> QED BY <1>5, <2>1, <2>2 DEF Hidden
<1>22. CASE RetryPut(c)
  BY <1>16, <1>17, <1>22 DEF RetryPut, Outside, PublisherStates
<1>23. CASE ReleaseOwn(c)
  <2>1. c \in Offering /\ queue' = queue
    BY <1>2, <1>23 DEF ReleaseOwn, Outside
  <2>2. Offering' = Offering \ {c}
    BY <1>1, <1>23, GotoOffering DEF ReleaseOwn, Outside, PublisherStates
  <2>3. SameFrames
    BY <1>6, <1>23 DEF ReleaseOwn
  <2> QED BY <2>1, <2>2, <2>3 DEF Loses
<1>24. CASE Wakeup(c)
  <2>1. c \notin Offering /\ queue' = queue
    BY <1>24 DEF Wakeup, Offering, Outside
  <2>2. Offering' = Offering
    BY <1>3, <1>24, <2>1 DEF Wakeup, Outside, PublisherStates
  <2>3. SameFrames
    BY <1>6, <1>24 DEF Wakeup
  <2> QED BY <2>1, <2>2, <2>3 DEF Hidden
<1> QED BY <1>10, <1>11, <1>12, <1>13, <1>14, <1>15, <1>18, <1>19, <1>20, <1>21, <1>22, <1>23,
           <1>24 DEF Publish

LEMMA FramesOfType ==
  ASSUME NEW q \in Seq(Packet)
  PROVE  /\ FramesOf(q) \in Seq([cam : Cameras, seq : Nat])
         /\ Len(FramesOf(q)) = Len(q)
         /\ DOMAIN FramesOf(q) = 1 .. Len(q)
         /\ \A i \in 1 .. Len(q) : FramesOf(q)[i] = Frame(q[i])
<1>1. DOMAIN q = 1 .. Len(q) /\ Len(q) \in Nat
  OBVIOUS
<1>2. \A i \in 1 .. Len(q) : q[i] \in Packet
  OBVIOUS
<1>3. FramesOf(q) \in [1 .. Len(q) -> [cam : Cameras, seq : Nat]]
  BY <1>1, <1>2 DEF FramesOf, Frame, Packet
<1> QED BY <1>1, <1>3 DEF FramesOf

LEMMA FramesOfAppend ==
  ASSUME NEW q \in Seq(Packet), NEW p \in Packet
  PROVE  FramesOf(Append(q, p)) = Append(FramesOf(q), Frame(p))
<1>1. Append(q, p) \in Seq(Packet) /\ Len(Append(q, p)) = Len(q) + 1
  OBVIOUS
<1>2. \A i \in 1 .. Len(q) + 1 : Append(q, p)[i] = IF i = Len(q) + 1 THEN p ELSE q[i]
  OBVIOUS
<1> DEFINE r == Append(q, p)  s == Append(FramesOf(q), Frame(p))
<1>3. /\ DOMAIN s = 1 .. Len(q) + 1
      /\ \A i \in 1 .. Len(q) + 1 : s[i] = IF i = Len(q) + 1 THEN Frame(p) ELSE FramesOf(q)[i]
      /\ s = [i \in DOMAIN s |-> s[i]]
  <2> DEFINE F == [cam : Cameras, seq : Nat]
  <2>1. Frame(p) \in F
    BY DEF Frame, Packet
  <2>2. FramesOf(q) \in Seq(F) /\ Len(FramesOf(q)) = Len(q) /\ Len(q) \in Nat
    BY FramesOfType, LenProperties
  <2> HIDE DEF F
  <2>3. s \in Seq(F) /\ Len(s) = Len(q) + 1
    BY <2>1, <2>2, AppendProperties
  <2>4. \A i \in 1 .. Len(q) : s[i] = FramesOf(q)[i]
    BY <2>1, <2>2, AppendProperties
  <2>5. s[Len(q) + 1] = Frame(p)
    BY <2>1, <2>2, AppendProperties
  <2> HIDE DEF s
  <2>6. s \in [1 .. Len(q) + 1 -> F]
    BY <2>3, LenProperties
  <2> QED BY <2>2, <2>4, <2>5, <2>6
<1> HIDE DEF s, r
<1>4. FramesOf(r) = [i \in 1 .. Len(q) + 1 |-> Frame(r[i])]
  <2>1. DOMAIN r = 1 .. Len(q) + 1
    BY <1>1 DEF r
  <2> QED BY <2>1 DEF FramesOf
<1>5. \A i \in 1 .. Len(q) + 1 : s[i] = Frame(r[i])
  <2>1. \A i \in 1 .. Len(q) : FramesOf(q)[i] = Frame(q[i])
    BY FramesOfType
  <2>2. Len(q) \in Nat
    OBVIOUS
  <2> QED BY <1>2, <1>3, <2>1, <2>2 DEF r
<1> QED BY <1>3, <1>4, <1>5 DEF r, s

LEMMA FramesOfTail ==
  ASSUME NEW q \in Seq(Packet), q # <<>>
  PROVE  FramesOf(Tail(q)) = Tail(FramesOf(q)) /\ FramesOf(q) # <<>>
<1>1. Len(q) \in Nat \ {0}
  OBVIOUS
<1>2. /\ Tail(q) \in Seq(Packet) /\ Len(Tail(q)) = Len(q) - 1
      /\ \A i \in 1 .. Len(q) - 1 : Tail(q)[i] = q[i + 1]
  OBVIOUS
<1>3. FramesOf(q) # <<>>
  BY <1>1, FramesOfType
<1> DEFINE f == FramesOf(q)  r == Tail(q)
<1>4. f \in Seq([cam : Cameras, seq : Nat]) /\ Len(f) = Len(q) /\ f # <<>>
  BY <1>3, FramesOfType
<1>5. \A i \in 1 .. Len(q) : f[i] = Frame(q[i])
  BY FramesOfType
<1> HIDE DEF f, r
<1>6. Tail(f) = [i \in 1 .. Len(q) - 1 |-> f[i + 1]]
  <2> DEFINE F == [cam : Cameras, seq : Nat]
  <2>1. f \in Seq(F)
    BY <1>4
  <2> HIDE DEF F
  <2>2. /\ Tail(f) \in Seq(F) /\ Len(Tail(f)) = Len(q) - 1
        /\ \A i \in 1 .. Len(Tail(f)) : Tail(f)[i] = f[i + 1]
    BY <1>4, <2>1, HeadTailProperties
  <2>3. Tail(f) \in [1 .. Len(q) - 1 -> F]
    BY <2>2, LenProperties
  <2> QED BY <2>2, <2>3
<1>7. FramesOf(r) = [i \in 1 .. Len(q) - 1 |-> Frame(r[i])]
  <2>1. DOMAIN r = 1 .. Len(q) - 1
    BY <1>1, <1>2 DEF r
  <2> QED BY <2>1 DEF FramesOf
<1>8. \A i \in 1 .. Len(q) - 1 : f[i + 1] = Frame(r[i])
  BY <1>1, <1>2, <1>5 DEF r
<1> QED BY <1>3, <1>6, <1>7, <1>8 DEF f, r

\* The frames of a filtered queue are the filtered frames.
LEMMA FramesOfKept ==
  ASSUME NEW q \in Seq(Packet), NEW c \in Cameras,
         NEW kept \in Enumerations({i \in DOMAIN q : q[i].cam # c})
  PROVE  /\ {i \in DOMAIN FramesOf(q) : FramesOf(q)[i].cam # c} = {i \in DOMAIN q : q[i].cam # c}
         /\ FramesOf([i \in DOMAIN kept |-> q[kept[i]]])
              = [i \in DOMAIN kept |-> FramesOf(q)[kept[i]]]
<1>1. DOMAIN FramesOf(q) = DOMAIN q /\ \A i \in DOMAIN q : FramesOf(q)[i] = Frame(q[i])
  BY DEF FramesOf
<1>2. {i \in DOMAIN FramesOf(q) : FramesOf(q)[i].cam # c} = {i \in DOMAIN q : q[i].cam # c}
  BY <1>1 DEF Frame
<1>3. \A i \in DOMAIN kept : kept[i] \in DOMAIN q
  BY DEF Enumerations
<1> DEFINE k == [i \in DOMAIN kept |-> q[kept[i]]]
<1>4. FramesOf(k) = [i \in DOMAIN kept |-> Frame(k[i])]
  BY DEF FramesOf
<1>5. \A i \in DOMAIN kept : Frame(k[i]) = FramesOf(q)[kept[i]]
  BY <1>1, <1>3
<1> QED BY <1>2, <1>4, <1>5

LEMMA LoopFrames ==
  ASSUME TypeOK, Consume \/ Tidy
  PROVE  Takes \/ Hidden \/ (\E c \in Cameras : DropsCamera(c)) \/ DropsAll
<1>1. pc \in Counters
  BY DEF TypeOK, Counters
<1>2. ASSUME \/ pc' = pc
             \/ NotifyAllFull(pc)
             \/ Dequeue(pc)
             \/ \E p : Release(p, pc)
      PROVE  Offering' = Offering
  BY <1>1, <1>2, NotifiedOffering DEF Offering
<1>3. pkt' = pkt => SameFrames
  BY DEF SameFrames
<1>4. CASE TryGet
  BY <1>2, <1>3, <1>4 DEF TryGet, Dequeue, Takes, Hidden
<1>5. CASE StartGet \/ ClearEvent \/ Recheck \/ RunSetCall \/ ResumeGet
  BY <1>2, <1>3, <1>5 DEF StartGet, ClearEvent, Recheck, RunSetCall, ResumeGet, Hidden
<1>6. CASE \E p \in held : ReleaseHeld(p)
  BY <1>2, <1>3, <1>6 DEF ReleaseHeld, Hidden
<1>7. CASE \E p \in doomed : ReleaseDoomed(p)
  BY <1>2, <1>3, <1>7 DEF ReleaseDoomed, Hidden
<1>8. CASE EndDiscard \/ ClearStore \/ Unlink
  BY <1>2, <1>3, <1>8 DEF EndDiscard, ClearStore, Unlink, Hidden
<1>9. ASSUME NEW c \in Cameras, Discard(c) PROVE DropsCamera(c)
  <2>1. pc' = pc \/ NotifyAllFull(pc)
    BY <1>9 DEF Discard
  <2> QED BY <1>2, <1>9, <2>1 DEF Discard, DropsCamera
<1>10. CASE Close
  BY <1>2, <1>10 DEF Close, DropsAll
<1> QED BY <1>4, <1>5, <1>6, <1>7, <1>8, <1>9, <1>10 DEF Consume, Tidy

\* Every step leaves the camera of every packet as it is.
LEMMA OwnCameraNext ==
  ASSUME TypeOK, OwnCamera, [Next]_vars
  PROVE  OwnCamera'
<1>1. pkt \in [Cameras -> Packet]
  BY DEF TypeOK
<1>2. ASSUME NEW c \in Cameras, Offers(c) PROVE OwnCamera'
  <2>1. pkt' = [pkt EXCEPT ![c].seq = pkt[c].seq + 1]
    BY <1>2 DEF Offers
  <2> QED BY <1>1, <2>1 DEF OwnCamera, Packet
<1>3. SameFrames => OwnCamera'
  BY DEF SameFrames, OwnCamera
<1>4. pkt' = pkt => OwnCamera'
  BY DEF OwnCamera
<1>5. CASE UNCHANGED vars
  BY <1>4, <1>5 DEF vars
<1>6. CASE \E c \in Cameras : Publish(c)
  BY <1>2, <1>3, <1>4, <1>6, PublishFrames DEF FrameStep, Accepts, Loses, Takes, Hidden
<1>7. CASE Consume \/ Tidy
  BY <1>3, <1>4, <1>7, LoopFrames DEF Takes, Hidden, DropsCamera, DropsAll
<1> QED BY <1>5, <1>6, <1>7 DEF Next

\* Each effect is a step of FrameQueue, or none.
LEMMA EffectIsQueueStep ==
  ASSUME TypeOK, OwnCamera, NEW c \in Cameras,
         FrameStep(c) \/ DropsCamera(c) \/ DropsAll
  PROVE  Frames!Next \/ UNCHANGED Frames!vars
<1> USE DEF Outside
<1>1. queue \in Seq(Packet) /\ pkt \in [Cameras -> Packet]
  BY DEF TypeOK
<1>2. pkt' = pkt => Captured' = Captured
  BY DEF Captured
<1>3. Frames!Offer(c) \/ Frames!Accept(c) \/ Frames!Lose(c) \/ Frames!DropCamera(c)
        \/ Frames!TakeHead \/ Frames!DropAll => Frames!Next
  BY DEF Frames!Next
<1>4. SameFrames => Captured' = Captured
  BY DEF SameFrames, Captured
<1>5. CASE Offers(c)
  <2>1. Captured' = [Captured EXCEPT ![c] = Captured[c] + 1]
    BY <1>1, <1>5 DEF Offers, Captured, Packet
  <2>2. FramesOf(queue') = FramesOf(queue)
    BY <1>5 DEF Offers
  <2>3. Frames!Offer(c)
    BY <1>5, <2>1, <2>2 DEF Offers, Frames!Offer, Captured, Offering, FramesOf
  <2> QED BY <1>3, <2>3
<1>6. CASE Accepts(c)
  <2>1. pkt[c] \in Packet /\ Frame(pkt[c]) = [cam |-> c, seq |-> Captured[c]]
    BY <1>1 DEF Captured, Frame, OwnCamera
  <2>2. FramesOf(queue') = Append(FramesOf(queue), [cam |-> c, seq |-> Captured[c]])
    BY <1>1, <1>6, <2>1, FramesOfAppend DEF Accepts
  <2>3. Len(FramesOf(queue)) < QueueSize
    BY <1>1, <1>6, FramesOfType DEF Accepts
  <2>4. Frames!Accept(c)
    BY <1>2, <1>6, <2>2, <2>3 DEF Accepts, Frames!Accept, Captured, Offering, FramesOf
  <2> QED BY <1>3, <2>4
<1>7. CASE Loses(c)
  <2>1. FramesOf(queue') = FramesOf(queue)
    BY <1>7 DEF Loses
  <2>2. Frames!Lose(c)
    BY <1>4, <1>7, <2>1 DEF Loses, Frames!Lose, Captured, Offering, FramesOf
  <2> QED BY <1>3, <2>2
<1>8. CASE Takes
  <2>1. FramesOf(queue') = Tail(FramesOf(queue)) /\ FramesOf(queue) # <<>>
    BY <1>1, <1>8, FramesOfTail DEF Takes
  <2>2. Frames!TakeHead
    BY <1>2, <1>8, <2>1 DEF Takes, Frames!TakeHead, Captured, Offering, FramesOf
  <2> QED BY <1>3, <2>2
<1>9. CASE Hidden
  <2>1. FramesOf(queue') = FramesOf(queue)
    BY <1>9 DEF Hidden
  <2>2. UNCHANGED Frames!vars
    BY <1>4, <1>9, <2>1 DEF Hidden, Frames!vars, Captured, Offering, FramesOf
  <2> QED BY <2>2
<1>10. CASE DropsCamera(c)
  <2> DEFINE stay == {i \in DOMAIN queue : queue[i].cam # c}
             left == {i \in DOMAIN FramesOf(queue) : FramesOf(queue)[i].cam # c}
  <2>1. PICK kept \in Enumerations(stay) : queue' = [i \in DOMAIN kept |-> queue[kept[i]]]
    BY <1>10 DEF DropsCamera
  <2>2. left = stay /\ FramesOf(queue') = [i \in DOMAIN kept |-> FramesOf(queue)[kept[i]]]
    BY <1>1, <2>1, FramesOfKept
  <2> DEFINE n == Cardinality(stay)
  <2>3. n \in 0 .. Len(queue) /\ Len(queue) = Len(FramesOf(queue))
    BY <1>1, <2>1, KeptOfQueue, FramesOfType
  <2>4. Frames!Enumerates(kept, n, left) /\ DOMAIN kept = 1 .. n
    BY <2>1, <2>2 DEF Enumerations, Frames!Enumerates
  <2>5. kept \in [1 .. n -> DOMAIN FramesOf(queue)]
    BY <2>4 DEF Frames!Enumerates
  <2> HIDE DEF n, left
  <2>6. \E m \in 0 .. Len(FramesOf(queue)) : \E f \in [1 .. m -> DOMAIN FramesOf(queue)] :
          /\ Frames!Enumerates(f, m, left)
          /\ FramesOf(queue') = [i \in 1 .. m |-> FramesOf(queue)[f[i]]]
    <3>1. FramesOf(queue') = [i \in 1 .. n |-> FramesOf(queue)[kept[i]]]
      BY <2>2, <2>4
    <3> QED BY <2>3, <2>4, <2>5, <3>1
  <2>7. Frames!DropCamera(c)
    <3>1. UNCHANGED Captured /\ UNCHANGED Offering
      BY <1>2, <1>10 DEF DropsCamera
    <3> QED BY <2>6, <3>1 DEF left, Frames!DropCamera, Captured, Offering, FramesOf
  <2> QED BY <1>3, <2>7
<1>11. CASE DropsAll
  <2>1. FramesOf(queue') = <<>>
    BY <1>11 DEF DropsAll, FramesOf
  <2>2. Frames!DropAll
    BY <1>2, <1>11, <2>1 DEF DropsAll, Frames!DropAll, Captured, Offering, FramesOf
  <2> QED BY <1>3, <2>2
<1> QED BY <1>5, <1>6, <1>7, <1>8, <1>9, <1>10, <1>11 DEF FrameStep

\* The buffer delivers each camera's frames in capture order and at most once, and
\* never holds more than it may, for every policy and every interleaving of its
\* threads: each step of publish, get, discard_camera and close is a step of
\* FrameQueue, or leaves the waiting frames as they are.
THEOREM BufferImplementsQueue == Spec => ImplementsFrameQueue
<1> DEFINE Inv == TypeOK /\ OwnCamera
<1>1. Init => Inv
  BY TypeInit DEF Init, OwnCamera, NoPacket
<1>2. Inv /\ [Next]_vars => Inv'
  BY TypeNext, OwnCameraNext
<1>3. Init => Frames!Init
  BY DEF Init, Frames!Init, NoPacket
<1>4. Inv /\ [Next]_vars => [Frames!Next]_Frames!vars
  <2> SUFFICES ASSUME Inv, [Next]_vars PROVE Frames!Next \/ UNCHANGED Frames!vars
    OBVIOUS
  <2>1. CASE UNCHANGED vars
    BY <2>1 DEF vars, Frames!vars
  <2>2. CASE \E c \in Cameras : Publish(c)
    BY <2>2, PublishFrames, EffectIsQueueStep
  <2>3. CASE Consume \/ Tidy
    <3>1. PICK c \in Cameras : TRUE
      BY CamerasAssumption
    <3> QED BY <2>3, <3>1, LoopFrames, EffectIsQueueStep DEF FrameStep
  <2> QED BY <2>1, <2>2, <2>3 DEF Next
<1> QED BY <1>1, <1>2, <1>3, <1>4, PTL DEF Spec, ImplementsFrameQueue, Frames!Spec

(***************************************************************************)
(* The order of each camera's frames.                                      *)
(***************************************************************************)

\* The packets somebody has taken out of the queue, to process or to release them.
Taken == held \cup {victim[c] : c \in {d \in Cameras : victim[d] # NoPacket(d)}}

\* Packet p was captured before every packet of its camera in q.
Older(p, q) == \A i \in DOMAIN q : q[i].cam = p.cam => p.seq < q[i].seq

Ordered(q) ==
  \A i, j \in DOMAIN q : i < j /\ q[i].cam = q[j].cam => q[i].seq < q[j].seq

\* Packet p was captured before the one its camera is offering.
Past(p) ==
  /\ p.seq <= pkt[p.cam].seq
  /\ p.cam \in Offering => p.seq < pkt[p.cam].seq

\* Of each camera, what was taken out of the queue, by get or by a publisher that evicts,
\* is older than what waits, which waits in capture order and is older than what the
\* camera's thread is about to queue: get delivers in capture order and at most once, and
\* drop_oldest evicts no frame that is newer than one it keeps (frame_buffer.py 176-252).
CaptureOrder ==
  /\ Ordered(queue)
  /\ \A p \in Taken : Older(p, queue)
  /\ \A p \in Taken \cup {queue[i] : i \in DOMAIN queue} : Past(p)

LEMMA OrderTail ==
  ASSUME NEW q \in Seq(Packet), q # <<>>, Ordered(q)
  PROVE  /\ Ordered(Tail(q)) /\ Older(Head(q), Tail(q))
         /\ \A p : Older(p, q) => Older(p, Tail(q))
         /\ \A i \in DOMAIN Tail(q) : \E j \in DOMAIN q : Tail(q)[i] = q[j]
         /\ Head(q) \in {q[i] : i \in DOMAIN q}
<1>1. /\ Len(q) \in Nat \ {0} /\ DOMAIN q = 1 .. Len(q) /\ Head(q) = q[1]
      /\ DOMAIN Tail(q) = 1 .. Len(q) - 1
      /\ \A i \in 1 .. Len(q) - 1 : Tail(q)[i] = q[i + 1]
  BY TailOfQueue, LenProperties, HeadTailProperties
<1> QED BY <1>1 DEF Ordered, Older

LEMMA OrderAppend ==
  ASSUME NEW q \in Seq(Packet), NEW p \in Packet, Ordered(q),
         \A i \in DOMAIN q : q[i].cam = p.cam => q[i].seq < p.seq
  PROVE  /\ Ordered(Append(q, p))
         /\ \A o : Older(o, q) /\ (o.cam = p.cam => o.seq < p.seq) => Older(o, Append(q, p))
         /\ \A i \in DOMAIN Append(q, p) :
              Append(q, p)[i] = p \/ \E j \in DOMAIN q : Append(q, p)[i] = q[j]
<1>1. /\ Len(q) \in Nat /\ DOMAIN q = 1 .. Len(q)
      /\ DOMAIN Append(q, p) = 1 .. Len(q) + 1
      /\ \A i \in 1 .. Len(q) : Append(q, p)[i] = q[i]
      /\ Append(q, p)[Len(q) + 1] = p
  BY LenProperties, AppendProperties
<1> QED BY <1>1 DEF Ordered, Older

LEMMA OrderKept ==
  ASSUME NEW q \in Seq(Packet), Ordered(q), NEW S \in SUBSET (DOMAIN q),
         NEW kept \in Enumerations(S)
  PROVE  /\ Ordered([i \in DOMAIN kept |-> q[kept[i]]])
         /\ \A p : Older(p, q) => Older(p, [i \in DOMAIN kept |-> q[kept[i]]])
         /\ \A i \in DOMAIN kept : kept[i] \in DOMAIN q
<1>1. /\ \A i \in DOMAIN kept : kept[i] \in DOMAIN q
      /\ \A i, j \in DOMAIN kept : i < j => kept[i] < kept[j]
  BY DEF Enumerations
<1> QED BY <1>1 DEF Ordered, Older

\* No step makes a frame older, or offers one that is not new.
NumbersGrow ==
  \A c \in Cameras :
    /\ pkt'[c].seq >= pkt[c].seq
    /\ c \in Offering' => c \in Offering \/ pkt'[c].seq > pkt[c].seq

LEMMA StaysPast ==
  ASSUME pkt \in [Cameras -> Packet], pkt' \in [Cameras -> Packet], NumbersGrow,
         NEW p \in Packet, Past(p)
  PROVE  Past(p)'
<1>1. p.cam \in Cameras /\ p.seq \in Nat /\ pkt[p.cam].seq \in Nat /\ pkt'[p.cam].seq \in Nat
  BY DEF Packet
<1> QED BY <1>1 DEF Past, NumbersGrow

LEMMA EffectsGrow ==
  ASSUME TypeOK, NEW c \in Cameras, FrameStep(c) \/ DropsCamera(c) \/ DropsAll
  PROVE  NumbersGrow
<1>1. \A d \in Cameras : pkt[d].seq \in Nat
  BY DEF TypeOK, Packet
<1>2. CASE Offers(c)
  <2>1. \A d \in Cameras : pkt'[d].seq = IF d = c THEN pkt[d].seq + 1 ELSE pkt[d].seq
    BY <1>2 DEF Offers, TypeOK, Packet
  <2> QED BY <1>1, <1>2, <2>1 DEF Offers, NumbersGrow
<1>3. CASE /\ \A d \in Cameras : pkt'[d].seq = pkt[d].seq
           /\ Offering' \subseteq Offering
  BY <1>1, <1>3 DEF NumbersGrow
<1>4. CASE Accepts(c) \/ Loses(c) \/ Takes \/ Hidden \/ DropsCamera(c) \/ DropsAll
  BY <1>3, <1>4 DEF Accepts, Loses, Takes, Hidden, DropsCamera, DropsAll, SameFrames
<1> QED BY <1>2, <1>4 DEF FrameStep

\* What is taken out of the queue is its head.
TakesHead(p) == queue # <<>> /\ queue' = Tail(queue) /\ p = Head(queue)

LEMMA VictimsTaken ==
  ASSUME TypeOK, NEW c \in Cameras, Publish(c), NEW p \in Taken'
  PROVE  p \in Taken \/ TakesHead(p)
<1>1. victim \in [Cameras -> Packet]
  BY DEF TypeOK
<1>2. held' = held
  BY DEF Publish, Capture, Acquire, EvictForSlot, ReleaseForSlot, Reacquire, Write, Put,
         BlockingPut, EvictForSpace, ReleaseForSpace, RetryPut, ReleaseOwn, Wakeup, loop
<1>3. CASE victim' = victim
  BY <1>2, <1>3 DEF Taken
<1>4. CASE victim' = [victim EXCEPT ![c] = NoPacket(c)]
  BY <1>1, <1>2, <1>4 DEF Taken
<1>5. CASE /\ victim' = [victim EXCEPT ![c] = Head(queue)]
           /\ queue # <<>> /\ queue' = Tail(queue)
  BY <1>1, <1>2, <1>5 DEF Taken, TakesHead
<1>6. CASE Capture(c) \/ Acquire(c) \/ ReleaseForSlot(c) \/ Put(c) \/ BlockingPut(c)
             \/ ReleaseForSpace(c) \/ RetryPut(c)
  BY <1>3, <1>6 DEF Capture, Acquire, ReleaseForSlot, Put, BlockingPut, ReleaseForSpace, RetryPut
<1>7. CASE Reacquire(c) \/ Write(c) \/ ReleaseOwn(c) \/ Wakeup(c)
  BY <1>3, <1>4, <1>7 DEF Reacquire, Write, ReleaseOwn, Wakeup, ForgetLocals
<1>8. CASE EvictForSlot(c) \/ EvictForSpace(c)
  BY <1>3, <1>4, <1>5, <1>8 DEF EvictForSlot, EvictForSpace, Dequeue
<1> QED BY <1>6, <1>7, <1>8 DEF Publish

LEMMA HeldTaken ==
  ASSUME Consume \/ Tidy, NEW p \in Taken'
  PROVE  p \in Taken \/ TakesHead(p)
<1>1. victim' = victim
  BY DEF Consume, Tidy, StartGet, TryGet, ClearEvent, Recheck, RunSetCall, ResumeGet, ReleaseHeld,
         Discard, ReleaseDoomed, EndDiscard, Close, ClearStore, Unlink
<1>2. CASE held' \subseteq held
  BY <1>1, <1>2 DEF Taken
<1>3. CASE TryGet
  BY <1>1, <1>3 DEF TryGet, Dequeue, Taken, TakesHead
<1>4. CASE StartGet \/ ClearEvent \/ Recheck \/ RunSetCall \/ ResumeGet
             \/ \E q \in held : ReleaseHeld(q)
  BY <1>2, <1>4 DEF StartGet, ClearEvent, Recheck, RunSetCall, ResumeGet, ReleaseHeld, loop
<1>5. CASE Tidy
  BY <1>2, <1>5 DEF Tidy, Discard, ReleaseDoomed, EndDiscard, Close, ClearStore, Unlink
<1> QED BY <1>3, <1>4, <1>5 DEF Consume

\* What the effects do to the order in the queue.
LEMMA OrderKeptByEffects ==
  ASSUME TypeOK, OwnCamera, CaptureOrder, NEW c \in Cameras,
         FrameStep(c) \/ DropsCamera(c) \/ DropsAll
  PROVE  /\ Ordered(queue')
         /\ \A p \in Taken : Older(p, queue')
         /\ \A i \in DOMAIN queue' :
              \/ \E j \in DOMAIN queue : queue'[i] = queue[j]
              \/ Accepts(c) /\ queue'[i] = pkt[c]
<1>1. queue \in Seq(Packet) /\ pkt[c] \in Packet /\ pkt[c].cam = c
  BY DEF TypeOK, OwnCamera
<1>2. Ordered(queue) /\ \A p \in Taken : Older(p, queue)
  BY DEF CaptureOrder
<1>3. CASE queue' = queue
  BY <1>2, <1>3
<1>4. CASE Accepts(c)
  <2>1. /\ c \in Offering /\ queue' = Append(queue, pkt[c])
    BY <1>4 DEF Accepts
  <2>2. \A p \in Taken \cup {queue[i] : i \in DOMAIN queue} : p.cam = c => p.seq < pkt[c].seq
    BY <2>1 DEF CaptureOrder, Past
  <2>3. \A i \in DOMAIN queue : queue[i].cam = pkt[c].cam => queue[i].seq < pkt[c].seq
    BY <1>1, <2>2
  <2>4. Ordered(queue') /\ \A i \in DOMAIN queue' :
          queue'[i] = pkt[c] \/ \E j \in DOMAIN queue : queue'[i] = queue[j]
    BY <1>1, <1>2, <2>1, <2>3, OrderAppend
  <2>5. ASSUME NEW p \in Taken PROVE Older(p, queue')
    BY <1>1, <1>2, <2>1, <2>2, <2>3, OrderAppend
  <2> QED BY <1>4, <2>4, <2>5
<1>5. CASE Takes
  BY <1>1, <1>2, <1>5, OrderTail DEF Takes
<1>6. CASE DropsCamera(c)
  <2> DEFINE S == {i \in DOMAIN queue : queue[i].cam # c}
  <2>1. PICK kept \in Enumerations(S) : queue' = [i \in DOMAIN kept |-> queue[kept[i]]]
    BY <1>6 DEF DropsCamera
  <2>2. S \in SUBSET (DOMAIN queue)
    OBVIOUS
  <2> HIDE DEF S
  <2>3. /\ Ordered(queue') /\ \A p : Older(p, queue) => Older(p, queue')
        /\ \A i \in DOMAIN kept : kept[i] \in DOMAIN queue
    BY <1>1, <1>2, <2>1, <2>2, OrderKept
  <2>4. \A i \in DOMAIN queue' : queue'[i] = queue[kept[i]] /\ kept[i] \in DOMAIN queue
    BY <2>1, <2>3
  <2> QED BY <1>2, <2>3, <2>4
<1>7. CASE DropsAll
  BY <1>7 DEF DropsAll, Ordered, Older
<1> QED BY <1>3, <1>4, <1>5, <1>6, <1>7 DEF FrameStep, Offers, Loses, Hidden

LEMMA OrderNext ==
  ASSUME TypeOK, TypeOK', OwnCamera, CaptureOrder, [Next]_vars
  PROVE  CaptureOrder'
<1>1. CASE UNCHANGED vars
  BY <1>1 DEF vars, loop, CaptureOrder, Taken, Past, Offering
<1>2. CASE Next
  <2>1. PICK c \in Cameras : FrameStep(c) \/ DropsCamera(c) \/ DropsAll
    <3>1. CASE \E c \in Cameras : Publish(c)
      BY <3>1, PublishFrames
    <3>2. CASE Consume \/ Tidy
      BY <3>2, LoopFrames, CamerasAssumption DEF FrameStep
    <3> QED BY <1>2, <3>1, <3>2 DEF Next
  <2>2. \A p \in Taken' : p \in Taken \/ TakesHead(p)
    BY <1>2, VictimsTaken, HeldTaken DEF Next
  <2>3. /\ Ordered(queue')
        /\ \A p \in Taken : Older(p, queue')
        /\ \A i \in DOMAIN queue' :
             \/ \E j \in DOMAIN queue : queue'[i] = queue[j]
             \/ Accepts(c) /\ queue'[i] = pkt[c]
    BY <2>1, OrderKeptByEffects
  <2>4. \A p : TakesHead(p) => Older(p, queue') /\ p \in {queue[i] : i \in DOMAIN queue}
    BY OrderTail DEF TakesHead, TypeOK, CaptureOrder
  <2>5. ASSUME NEW p \in Taken \cup {queue[i] : i \in DOMAIN queue} PROVE Past(p)'
    <3>1. p \in Packet
      BY ElementOfSeq, LenProperties DEF TypeOK, Taken
    <3>2. Past(p)
      BY DEF CaptureOrder
    <3> QED BY <2>1, <3>1, <3>2, EffectsGrow, StaysPast DEF TypeOK
  <2>6. ASSUME Accepts(c), NEW p, p = pkt[c] PROVE Past(p)'
    <3>1. pkt' = pkt /\ c \notin Offering' /\ pkt[c].cam = c /\ pkt[c].seq \in Nat
      BY <2>6 DEF Accepts, TypeOK, Packet, OwnCamera
    <3> QED BY <2>6, <3>1 DEF Past
  <2>7. \A p \in Taken' : Older(p, queue') /\ Past(p)'
    BY <2>2, <2>3, <2>4, <2>5
  <2>8. ASSUME NEW p \in {queue'[i] : i \in DOMAIN queue'} PROVE Past(p)'
    BY <2>3, <2>5, <2>6
  <2> QED BY <2>3, <2>7, <2>8 DEF CaptureOrder
<1> QED BY <1>1, <1>2

\* Whatever the policy and the interleaving, of each camera no frame overtakes another.
THEOREM CaptureOrderKept == Spec => []CaptureOrder
<1>1. Init => CaptureOrder
  BY DEF Init, CaptureOrder, Taken, Ordered, Older
<1>2. Init => OwnCamera
  BY DEF Init, OwnCamera, NoPacket
<1>3. TypeOK /\ TypeOK' /\ OwnCamera /\ CaptureOrder /\ [Next]_vars => OwnCamera' /\ CaptureOrder'
  BY OwnCameraNext, OrderNext
<1> QED BY <1>1, <1>2, <1>3, TypeCorrect, PTL DEF Spec

=============================================================================
