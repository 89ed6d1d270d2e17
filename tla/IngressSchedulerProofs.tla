----------------------- MODULE IngressSchedulerProofs -----------------------
(***************************************************************************)
(* Proofs about the inference ingress, for any number of persons, any      *)
(* window, gap, cooldown and queue bound.                                  *)
(***************************************************************************)
EXTENDS IngressScheduler, SequenceTheorems, TLAPS

USE DEF Idle

(***************************************************************************)
(* Windows are the sequences of samples of length 1 to Window.             *)
(***************************************************************************)

LEMMA WindowIsSeq ==
  ASSUME NEW w \in Windows \cup {<<>>}
  PROVE  w \in Seq(Sample) /\ Len(w) \in 0 .. Window
<1>1. CASE w = <<>>
  BY <1>1, EmptySeq, WindowAssumption
<1>2. CASE w # <<>>
  <2>1. PICK n \in 1 .. Window : w \in [1 .. n -> Sample]
    BY <1>2 DEF Windows
  <2>2. w \in Seq(Sample)
    BY <2>1, SeqDef, WindowAssumption
  <2>3. Len(w) = n
    BY <2>1, <2>2, LenProperties, WindowAssumption
  <2> QED BY <2>2, <2>3
<1> QED BY <1>1, <1>2

LEMMA SeqIsWindow ==
  ASSUME NEW w \in Seq(Sample), Len(w) \in 1 .. Window
  PROVE  w \in Windows /\ w # <<>>
BY LenProperties, EmptySeq DEF Windows

\* push returns a window again, which ends with the new sample.
LEMMA WindowWithType ==
  ASSUME NEW p, NEW sample \in Sample, buffers[p] \in Windows \cup {<<>>}
  PROVE  /\ WindowWith(p, sample) \in Windows
         /\ WindowWith(p, sample) # <<>>
         /\ Last(WindowWith(p, sample)) = sample
<1> DEFINE kept == IF Interrupted(p, sample) THEN <<>> ELSE buffers[p]
<1>1. kept \in Windows \cup {<<>>}
  OBVIOUS
<1>2. kept \in Seq(Sample) /\ Len(kept) \in 0 .. Window
  BY <1>1, WindowIsSeq
<1> HIDE DEF kept
<1>3. CASE Len(kept) < Window
  <2>1. Append(kept, sample) \in Seq(Sample) /\ Len(Append(kept, sample)) = Len(kept) + 1
        /\ Append(kept, sample)[Len(kept) + 1] = sample
    BY <1>2, AppendProperties
  <2>2. WindowWith(p, sample) = Append(kept, sample)
    BY <1>3 DEF WindowWith, kept
  <2>3. /\ WindowWith(p, sample) \in Seq(Sample)
        /\ Len(WindowWith(p, sample)) = Len(kept) + 1
        /\ WindowWith(p, sample)[Len(kept) + 1] = sample
    BY <2>1, <2>2, Zenon
  <2>4. Len(WindowWith(p, sample)) \in 1 .. Window
    <3> DEFINE len == Len(WindowWith(p, sample))
    <3>1. len = Len(kept) + 1
      BY <2>3
    <3> HIDE DEF len
    <3>2. len \in 1 .. Window
      BY <1>2, <1>3, <3>1, WindowAssumption
    <3> QED BY <3>2 DEF len
  <2>5. Last(WindowWith(p, sample)) = sample
    BY <2>3 DEF Last
  <2> QED BY <2>3, <2>4, <2>5, SeqIsWindow
<1>4. CASE ~(Len(kept) < Window)
  <2>1. kept # <<>> /\ Len(kept) = Window
    BY <1>2, <1>4, EmptySeq, WindowAssumption
  <2>2. Tail(kept) \in Seq(Sample) /\ Len(Tail(kept)) = Window - 1
    BY <1>2, <2>1, HeadTailProperties
  <2>3. Append(Tail(kept), sample) \in Seq(Sample) /\ Len(Append(Tail(kept), sample)) = Window
        /\ Append(Tail(kept), sample)[Window] = sample
    BY <2>2, AppendProperties, WindowAssumption
  <2>4. WindowWith(p, sample) = Append(Tail(kept), sample)
    BY <1>4 DEF WindowWith, kept
  <2>5. WindowWith(p, sample) \in Seq(Sample) /\ Len(WindowWith(p, sample)) \in 1 .. Window
    BY <2>3, <2>4, WindowAssumption
  <2>6. Last(WindowWith(p, sample)) = sample
    BY <2>3, <2>4 DEF Last
  <2> QED BY <2>5, <2>6, SeqIsWindow
<1> QED BY <1>3, <1>4

(***************************************************************************)
(* Type correctness.                                                       *)
(***************************************************************************)

LEMMA TypeInit == Init => TypeOK
BY EmptySeq, TimeAssumption DEF Init, TypeOK, Never

LEMMA TypeNext == TypeOK /\ [Next]_vars => TypeOK'
<1> SUFFICES ASSUME TypeOK, [Next]_vars PROVE TypeOK'
  OBVIOUS
<1> USE DEF TypeOK
<1>1. CASE Tick
  BY <1>1, TimeAssumption DEF Tick, lqueue
<1>2. ASSUME NEW p \in Persons, NEW pending \in BOOLEAN, NEW fit \in BOOLEAN,
             Ingest(p, [at |-> now, pending |-> pending], fit)
      PROVE  TypeOK'
  <2> DEFINE sample == [at |-> now, pending |-> pending]
             w == WindowWith(p, sample)
  <2>1. sample \in Sample
    BY TimeAssumption DEF Sample
  <2>2. w \in Windows
    BY <2>1, WindowWithType
  <2> HIDE DEF w
  <2>3. buffers' \in [Persons -> Windows \cup {<<>>}]
    BY <1>2, <2>2 DEF Ingest, w
  <2>4. lastSeen' \in [Persons -> 0 .. MaxTime] /\ now' \in 1 .. MaxTime
    BY <1>2, TimeAssumption DEF Ingest
  <2>5. lastEnqueued' \in [Persons -> {Never} \cup 1 .. MaxTime]
    BY <1>2 DEF Ingest
  <2>6. /\ latest' \in [Persons -> Windows \cup {<<>>}]
        /\ queued' \subseteq Persons
        /\ notify' \in Seq(Persons)
    <3>0. PutLatest(p, w) \/ UNCHANGED lqueue
      BY <1>2 DEF Ingest, w, lqueue
    <3>1. CASE PutLatest(p, w)
      <4>1. latest' \in [Persons -> Windows \cup {<<>>}]
        BY <3>1, <2>2 DEF PutLatest
      <4>2. queued' \subseteq Persons
        BY <3>1 DEF PutLatest
      <4>3. notify' = notify \/ notify' = Append(notify, p)
        BY <3>1 DEF PutLatest
      <4>4. Append(notify, p) \in Seq(Persons)
        BY AppendProperties
      <4>5. notify' \in Seq(Persons)
        BY <4>3, <4>4
      <4> QED BY <4>1, <4>2, <4>5
    <3>2. CASE UNCHANGED lqueue
      BY <3>2 DEF lqueue
    <3> QED BY <3>0, <3>1, <3>2
  <2>7. serving' \in Windows \cup {Idle}
    BY <1>2 DEF Ingest
  <2> QED BY <2>3, <2>4, <2>5, <2>6, <2>7
<1>3. CASE Take
  <2>1. Head(notify) \in Persons /\ Tail(notify) \in Seq(Persons)
    BY <1>3, HeadTailProperties DEF Take
  <2> QED BY <1>3, <2>1 DEF Take
<1>4. CASE Finish
  BY <1>4 DEF Finish, lqueue
<1>5. CASE UNCHANGED vars
  BY <1>5 DEF vars, lqueue
<1> QED BY <1>1, <1>2, <1>3, <1>4, <1>5 DEF Next, IngestAny

\* Whatever is ingested and served, every variable of the ingress keeps its type
\* and no window or batch exceeds temporal_buffer_size.
THEOREM TypeCorrect == Spec => []TypeOK
BY TypeInit, TypeNext, PTL DEF Spec

(***************************************************************************)
(* The three structures of the latest-only queue agree.                    *)
(***************************************************************************)

LEMMA QueueConsistentInit == Init => QueueConsistent
BY QueueMaxAssumption DEF Init, QueueConsistent

\* put_latest: a replaced or a new mailbox.
LEMMA PutLatestConsistent ==
  ASSUME TypeOK, QueueConsistent,
         NEW p \in Persons, NEW w \in Windows, w # <<>>, PutLatest(p, w)
  PROVE  QueueConsistent'
<1> USE DEF TypeOK
<1>1. latest' = [latest EXCEPT ![p] = w]
  BY DEF PutLatest
<1>2. CASE UNCHANGED <<queued, notify>>
  BY <1>1, <1>2 DEF QueueConsistent
<1>3. CASE /\ p \notin queued /\ ~QueueFull
           /\ queued' = queued \cup {p}
           /\ notify' = Append(notify, p)
  <2> DEFINE n == Len(notify)
  <2>1. n \in Nat /\ DOMAIN notify = 1 .. n
    BY LenProperties
  <2>2. /\ Append(notify, p) \in Seq(Persons)
        /\ Len(Append(notify, p)) = n + 1
        /\ \A i \in 1 .. n : Append(notify, p)[i] = notify[i]
        /\ Append(notify, p)[n + 1] = p
    BY AppendProperties
  <2> HIDE DEF n
  <2>3. /\ DOMAIN notify' = 1 .. n + 1
        /\ \A i \in 1 .. n : notify'[i] = notify[i]
        /\ notify'[n + 1] = p
        /\ Len(notify') = n + 1
    BY <1>3, <2>2, LenProperties
  <2>4. queued = {notify[i] : i \in 1 .. n}
    BY <2>1 DEF QueueConsistent
  <2>5. queued' = {notify'[i] : i \in DOMAIN notify'}
    <3>1. \A q \in queued' : \E i \in 1 .. n + 1 : q = notify'[i]
      <4>1. \A q \in queued : \E i \in 1 .. n : q = notify'[i]
        BY <2>3, <2>4
      <4>2. n + 1 \in 1 .. n + 1 /\ \A i \in 1 .. n : i \in 1 .. n + 1
        BY <2>1
      <4> QED BY <1>3, <2>3, <4>1, <4>2
    <3>2. \A i \in 1 .. n + 1 : notify'[i] \in queued'
      <4>1. \A i \in 1 .. n + 1 : i \in 1 .. n \/ i = n + 1
        BY <2>1
      <4>2. \A i \in 1 .. n : notify'[i] \in queued
        BY <2>3, <2>4
      <4> QED BY <1>3, <2>3, <4>1, <4>2
    <3> QED BY <2>3, <3>1, <3>2
  <2>6. \A i, j \in DOMAIN notify' : notify'[i] = notify'[j] => i = j
    BY <1>3, <2>1, <2>3, <2>4 DEF QueueConsistent
  <2>7. \A q \in queued' : latest'[q] # <<>>
    BY <1>1, <1>3 DEF QueueConsistent
  <2>8. QueueMax > 0 => Len(notify') <= QueueMax
    BY <1>3, <2>1, <2>3, QueueMaxAssumption DEF QueueFull, n
  <2> QED BY <2>5, <2>6, <2>7, <2>8 DEF QueueConsistent
<1> QED BY <1>2, <1>3 DEF PutLatest

\* get: the head leaves all three structures.
LEMMA TakeConsistent ==
  ASSUME TypeOK, QueueConsistent, Take
  PROVE  QueueConsistent' /\ serving' # Idle
<1> USE DEF TypeOK
<1> DEFINE n == Len(notify)
<1>1. n \in Nat \ {0} /\ DOMAIN notify = 1 .. n /\ Head(notify) = notify[1]
  BY LenProperties, EmptySeq DEF Take
<1>2. /\ Tail(notify) \in Seq(Persons)
      /\ Len(Tail(notify)) = n - 1
      /\ \A i \in 1 .. n - 1 : Tail(notify)[i] = notify[i + 1]
  BY HeadTailProperties DEF Take
<1> HIDE DEF n
<1>3. /\ DOMAIN notify' = 1 .. n - 1
      /\ Len(notify') = n - 1
      /\ \A i \in 1 .. n - 1 : notify'[i] = notify[i + 1]
  BY <1>2, LenProperties DEF Take
<1>4. queued' = queued \ {notify[1]}
  BY <1>1 DEF Take
<1>5. queued' = {notify'[i] : i \in DOMAIN notify'}
  <2>1. queued = {notify[i] : i \in 1 .. n}
    BY <1>1 DEF QueueConsistent
  <2>2. \A i \in 1 .. n - 1 : notify[i + 1] \in queued /\ notify[i + 1] # notify[1]
    BY <1>1, <2>1 DEF QueueConsistent
  <2>3. \A q \in queued' : \E i \in 1 .. n - 1 : q = notify[i + 1]
    <3> SUFFICES ASSUME NEW q \in queued' PROVE \E i \in 1 .. n - 1 : q = notify[i + 1]
      OBVIOUS
    <3>1. PICK j \in 1 .. n : q = notify[j]
      BY <1>4, <2>1
    <3>2. j # 1
      BY <1>4, <3>1
    <3>3. j - 1 \in 1 .. n - 1 /\ q = notify[(j - 1) + 1]
      BY <1>1, <3>1, <3>2
    <3> QED BY <3>3
  <2>4. \A q \in queued' : \E i \in 1 .. n - 1 : q = notify'[i]
    BY <1>3, <2>3
  <2>5. \A i \in 1 .. n - 1 : notify'[i] \in queued'
    BY <1>3, <1>4, <2>2
  <2> QED BY <1>3, <2>4, <2>5
<1>6. \A i, j \in DOMAIN notify' : notify'[i] = notify'[j] => i = j
  <2> SUFFICES ASSUME NEW i \in 1 .. n - 1, NEW j \in 1 .. n - 1, notify[i + 1] = notify[j + 1]
               PROVE  i = j
    BY <1>3
  <2>1. i + 1 \in DOMAIN notify /\ j + 1 \in DOMAIN notify
    BY <1>1
  <2>2. i + 1 = j + 1
    BY <2>1 DEF QueueConsistent
  <2> QED BY <1>1, <2>2
<1>7. \A q \in queued' : latest'[q] # <<>>
  BY <1>1, <1>4 DEF QueueConsistent, Take
<1>8. QueueMax > 0 => Len(notify') <= QueueMax
  BY <1>1, <1>3, QueueMaxAssumption DEF QueueConsistent, n
<1>9. serving' # Idle
  <2>1. notify[1] \in queued
    BY <1>1 DEF QueueConsistent
  <2> QED BY <1>1, <2>1 DEF Take, QueueConsistent
<1> QED BY <1>5, <1>6, <1>7, <1>8, <1>9 DEF QueueConsistent

\* What ingest does to the queue: put_latest with a window, or nothing.
LEMMA IngestCases ==
  ASSUME TypeOK, NEW p \in Persons, NEW pending \in BOOLEAN, NEW fit \in BOOLEAN,
         Ingest(p, [at |-> now, pending |-> pending], fit)
  PROVE  /\ UNCHANGED serving
         /\ \/ UNCHANGED lqueue
            \/ \E w \in Windows : w # <<>> /\ PutLatest(p, w)
<1> DEFINE sample == [at |-> now, pending |-> pending]
           w == WindowWith(p, sample)
<1>1. sample \in Sample
  BY TimeAssumption DEF Sample, TypeOK
<1>2. w \in Windows /\ w # <<>>
  BY <1>1, WindowWithType DEF TypeOK
<1> HIDE DEF w
<1>3. PutLatest(p, w) \/ UNCHANGED lqueue
  BY DEF Ingest, w, lqueue
<1> QED BY <1>2, <1>3 DEF Ingest

LEMMA QueueConsistentNext == TypeOK /\ QueueConsistent /\ [Next]_vars => QueueConsistent'
<1> SUFFICES ASSUME TypeOK, QueueConsistent, [Next]_vars PROVE QueueConsistent'
  OBVIOUS
<1>1. ASSUME UNCHANGED lqueue PROVE QueueConsistent'
  BY <1>1 DEF QueueConsistent, lqueue
<1>2. CASE Tick
  BY <1>1, <1>2 DEF Tick, lqueue
<1>3. CASE IngestAny
  BY <1>1, <1>3, IngestCases, PutLatestConsistent DEF IngestAny
<1>4. CASE Take
  BY <1>4, TakeConsistent
<1>5. CASE Finish
  BY <1>1, <1>5 DEF Finish, lqueue
<1>6. CASE UNCHANGED vars
  BY <1>1, <1>6 DEF vars, lqueue
<1> QED BY <1>2, <1>3, <1>4, <1>5, <1>6 DEF Next

\* An id is marked as queued iff it is notified, exactly once, within the bound,
\* and there is a batch for it: every round of get finds one.
THEOREM QueueAlwaysConsistent == Spec => []QueueConsistent
<1>1. Spec => []TypeOK
  BY TypeCorrect
<1> QED BY <1>1, QueueConsistentInit, QueueConsistentNext, PTL DEF Spec

(***************************************************************************)
(* The freshest batch waits.                                               *)
(***************************************************************************)

\* Only a dispatch changes the cooldown, and it dispatches the new window.
LEMMA IngestDispatches ==
  ASSUME TypeOK, NEW p \in Persons, NEW pending \in BOOLEAN, NEW fit \in BOOLEAN,
         Ingest(p, [at |-> now, pending |-> pending], fit)
  PROVE  \/ UNCHANGED <<lqueue, lastEnqueued>>
         \/ \E w \in Windows :
              /\ Last(w).at = now
              /\ PutLatest(p, w)
              /\ Cooldown > 0 => lastEnqueued' = [lastEnqueued EXCEPT ![p] = now]
<1> DEFINE sample == [at |-> now, pending |-> pending]
           w == WindowWith(p, sample)
<1>1. sample \in Sample
  BY TimeAssumption DEF Sample, TypeOK
<1>2. w \in Windows /\ Last(w).at = now
  BY <1>1, WindowWithType DEF TypeOK
<1> HIDE DEF w
<1>3. \/ UNCHANGED <<lqueue, lastEnqueued>>
      \/ /\ PutLatest(p, w)
         /\ Cooldown > 0 => lastEnqueued' = [lastEnqueued EXCEPT ![p] = now]
  BY DEF Ingest, w
<1> QED BY <1>2, <1>3

LEMMA FreshestNext == TypeOK /\ FreshestBatchWaits /\ [Next]_vars => FreshestBatchWaits'
<1> SUFFICES ASSUME TypeOK, FreshestBatchWaits, [Next]_vars PROVE FreshestBatchWaits'
  OBVIOUS
<1>1. ASSUME UNCHANGED <<lqueue, lastEnqueued>> PROVE FreshestBatchWaits'
  BY <1>1 DEF FreshestBatchWaits, lqueue, Last
<1>2. ASSUME NEW p \in Persons, NEW w \in Windows, Last(w).at = now, PutLatest(p, w),
             Cooldown > 0 => lastEnqueued' = [lastEnqueued EXCEPT ![p] = now]
      PROVE  FreshestBatchWaits'
  <2> SUFFICES ASSUME NEW q \in queued', Cooldown > 0
               PROVE  Last(latest'[q]).at = lastEnqueued'[q]
    BY DEF FreshestBatchWaits, Last
  <2>1. CASE q = p
    <3>1. latest'[q] = w /\ lastEnqueued'[q] = now
      BY <1>2, <2>1 DEF PutLatest, TypeOK
    <3> QED BY <1>2, <3>1
  <2>2. CASE q # p
    <3>1. q \in queued /\ latest'[q] = latest[q] /\ lastEnqueued'[q] = lastEnqueued[q]
      BY <1>2, <2>2 DEF PutLatest, TypeOK
    <3> QED BY <3>1 DEF FreshestBatchWaits
  <2> QED BY <2>1, <2>2
<1>3. CASE IngestAny
  BY <1>1, <1>2, <1>3, IngestDispatches DEF IngestAny
<1>4. CASE Take
  <2> SUFFICES ASSUME NEW q \in queued', Cooldown > 0
               PROVE  Last(latest'[q]).at = lastEnqueued'[q]
    BY DEF FreshestBatchWaits, Last
  <2>1. q \in queued /\ latest'[q] = latest[q] /\ lastEnqueued'[q] = lastEnqueued[q]
    BY <1>4 DEF Take, TypeOK
  <2> QED BY <2>1 DEF FreshestBatchWaits
<1>5. CASE Tick \/ Finish
  BY <1>1, <1>5 DEF Tick, Finish
<1>6. CASE UNCHANGED vars
  BY <1>1, <1>6 DEF vars
<1> QED BY <1>3, <1>4, <1>5, <1>6 DEF Next

\* A batch never waits behind a fresher one of the same person: what waits ends
\* with the sample that started the running cooldown.
THEOREM FreshestAlwaysWaits == Spec => []FreshestBatchWaits
<1>1. Spec => []TypeOK
  BY TypeCorrect
<1>2. Init => FreshestBatchWaits
  BY DEF Init, FreshestBatchWaits
<1> QED BY <1>1, <1>2, FreshestNext, PTL DEF Spec

(***************************************************************************)
(* Batches never span a change of identity.                                *)
(***************************************************************************)

LEMMA CoherentAppend ==
  ASSUME NEW w \in Seq(Sample), Coherent(w), NEW sample \in Sample,
         w # <<>> => sample.at - Last(w).at \in 0 .. GapReset /\ ~sample.pending
  PROVE  Coherent(Append(w, sample))
<1> DEFINE n == Len(w)
           v == Append(w, sample)
<1>1. n \in Nat /\ (n = 0 <=> w = <<>>)
  BY LenProperties, EmptySeq
<1>2. Len(v) = n + 1 /\ v[n + 1] = sample /\ \A i \in 1 .. n : v[i] = w[i]
  BY AppendProperties
<1>3. w # <<>> => Last(w) = w[n]
  BY DEF Last
<1> HIDE DEF n, v
<1>4. ASSUME NEW i \in 2 .. n + 1
      PROVE  v[i].at - v[i - 1].at \in 0 .. GapReset /\ ~v[i].pending
  <2>1. CASE i = n + 1
    <3>1. n \in 1 .. n /\ w # <<>> /\ v[i] = sample /\ v[i - 1] = w[n]
      BY <1>1, <1>2, <2>1
    <3> QED BY <1>3, <3>1
  <2>2. CASE i # n + 1
    <3>1. i \in 2 .. n /\ i - 1 \in 1 .. n /\ i \in 1 .. n
      BY <1>1, <2>2
    <3>2. v[i] = w[i] /\ v[i - 1] = w[i - 1]
      BY <1>2, <3>1
    <3> QED BY <3>1, <3>2 DEF Coherent, n
  <2> QED BY <2>1, <2>2
<1>5. Coherent(v)
  BY <1>2, <1>4 DEF Coherent
<1> QED BY <1>5 DEF v

LEMMA CoherentTail ==
  ASSUME NEW w \in Seq(Sample), w # <<>>, Coherent(w)
  PROVE  /\ Coherent(Tail(w))
         /\ Tail(w) # <<>> => Last(Tail(w)) = Last(w)
<1> DEFINE n == Len(w)
           v == Tail(w)
<1>1. n \in Nat \ {0}
  BY EmptySeq
<1>2. v \in Seq(Sample) /\ Len(v) = n - 1 /\ \A i \in 1 .. n - 1 : v[i] = w[i + 1]
  BY HeadTailProperties
<1>3. v # <<>> => n - 1 \in 1 .. n - 1
  BY <1>1, <1>2, EmptySeq
<1>4. Last(w) = w[n] /\ Last(v) = v[n - 1]
  BY <1>2 DEF Last
<1> HIDE DEF n, v
<1>5. ASSUME NEW i \in 2 .. n - 1
      PROVE  v[i].at - v[i - 1].at \in 0 .. GapReset /\ ~v[i].pending
  <2>1. i + 1 \in 2 .. n /\ i \in 1 .. n - 1 /\ i - 1 \in 1 .. n - 1
        /\ (i - 1) + 1 = (i + 1) - 1
    BY <1>1
  <2>2. v[i] = w[i + 1] /\ v[i - 1] = w[(i + 1) - 1]
    BY <1>2, <2>1
  <2> QED BY <2>1, <2>2 DEF Coherent, n
<1>6. Coherent(v)
  BY <1>2, <1>5 DEF Coherent
<1>7. v # <<>> => Last(v) = Last(w)
  <2>1. v # <<>> => v[n - 1] = w[(n - 1) + 1]
    BY <1>2, <1>3
  <2>2. (n - 1) + 1 = n
    BY <1>1
  <2> QED BY <1>4, <2>1, <2>2
<1> QED BY <1>6, <1>7 DEF v

\* The temporal buffer of every person is coherent up to its last sample, which
\* is as old as _last_seen says.
WindowInv ==
  \A p \in Persons :
    /\ Coherent(buffers[p])
    /\ buffers[p] # <<>> => Last(buffers[p]).at = lastSeen[p]
    /\ lastSeen[p] <= now

CoherenceInv == WindowInv /\ BatchesCoherent

LEMMA CoherentEmpty == Coherent(<<>>)
BY EmptySeq DEF Coherent

\* push keeps the window coherent: it goes on only after a short gap with a
\* sample that is not pending, and starts anew otherwise.
LEMMA WindowWithCoherent ==
  ASSUME TypeOK, WindowInv, NEW p \in Persons, NEW pending \in BOOLEAN
  PROVE  Coherent(WindowWith(p, [at |-> now, pending |-> pending]))
<1> DEFINE sample == [at |-> now, pending |-> pending]
           kept == IF Interrupted(p, sample) THEN <<>> ELSE buffers[p]
           Continues(w) == w # <<>> => sample.at - Last(w).at \in 0 .. GapReset /\ ~sample.pending
<1>1. sample \in Sample /\ sample.at = now /\ sample.pending = pending
  BY TimeAssumption DEF Sample, TypeOK
<1>2. buffers[p] \in Seq(Sample)
  BY WindowIsSeq DEF TypeOK
<1>3. kept \in Seq(Sample) /\ Coherent(kept)
  BY <1>2, CoherentEmpty, EmptySeq DEF WindowInv
<1>4. Continues(kept)
  <2>1. CASE Interrupted(p, sample)
    BY <2>1
  <2>2. CASE ~Interrupted(p, sample)
    <3>1. now - lastSeen[p] \in 0 .. GapReset /\ ~sample.pending
      BY <2>2, TimeAssumption DEF Interrupted, WindowInv, TypeOK
    <3>2. kept # <<>> => Last(kept).at = lastSeen[p]
      BY <2>2 DEF WindowInv
    <3> QED BY <1>1, <3>1, <3>2
  <2> QED BY <2>1, <2>2
<1> HIDE DEF kept
<1>5. CASE Len(kept) < Window
  <2>1. Coherent(Append(kept, sample))
    BY <1>1, <1>3, <1>4, CoherentAppend
  <2> QED BY <1>5, <2>1 DEF WindowWith, kept
<1>6. CASE ~(Len(kept) < Window)
  <2>1. kept # <<>>
    BY <1>6, EmptySeq, WindowAssumption
  <2>2. Tail(kept) \in Seq(Sample) /\ Coherent(Tail(kept)) /\ Continues(Tail(kept))
    BY <1>3, <1>4, <2>1, CoherentTail, HeadTailProperties
  <2>3. Coherent(Append(Tail(kept), sample))
    BY <1>1, <2>2, CoherentAppend
  <2> QED BY <1>6, <2>3 DEF WindowWith, kept
<1> QED BY <1>5, <1>6

LEMMA CoherenceInit == Init => CoherenceInv
BY CoherentEmpty DEF Init, CoherenceInv, WindowInv, BatchesCoherent

LEMMA CoherenceNext == TypeOK /\ CoherenceInv /\ [Next]_vars => CoherenceInv'
<1> SUFFICES ASSUME TypeOK, CoherenceInv, [Next]_vars PROVE CoherenceInv'
  OBVIOUS
<1> USE DEF CoherenceInv
<1>1. ASSUME UNCHANGED <<buffers, lastSeen, latest, serving>>, now' \in {now, now + 1}
      PROVE  CoherenceInv'
  BY <1>1 DEF WindowInv, BatchesCoherent, Coherent, Last, TypeOK
<1>2. ASSUME NEW p \in Persons, NEW pending \in BOOLEAN, NEW fit \in BOOLEAN,
             Ingest(p, [at |-> now, pending |-> pending], fit)
      PROVE  CoherenceInv'
  <2> DEFINE sample == [at |-> now, pending |-> pending]
             w == WindowWith(p, sample)
  <2>1. sample \in Sample /\ sample.at = now
    BY TimeAssumption DEF Sample, TypeOK
  <2>2. Coherent(w) /\ Last(w).at = now
    BY <2>1, WindowWithCoherent, WindowWithType DEF TypeOK
  <2> HIDE DEF w
  <2>3. /\ buffers' = [buffers EXCEPT ![p] = w]
        /\ lastSeen' = [lastSeen EXCEPT ![p] = now]
        /\ UNCHANGED <<now, serving>>
        /\ UNCHANGED latest \/ latest' = [latest EXCEPT ![p] = w]
    BY <1>2 DEF Ingest, PutLatest, lqueue, w
  <2>4. WindowInv'
    <3> SUFFICES ASSUME NEW q \in Persons
                 PROVE  /\ Coherent(buffers'[q])
                        /\ buffers'[q] # <<>> => Last(buffers'[q]).at = lastSeen'[q]
                        /\ lastSeen'[q] <= now'
      BY DEF WindowInv, Coherent, Last
    <3>1. CASE q = p
      <4>1. buffers'[q] = w /\ lastSeen'[q] = now /\ now' = now
        BY <2>3, <3>1 DEF TypeOK
      <4> QED BY <2>2, <4>1 DEF TypeOK
    <3>2. CASE q # p
      <4>1. buffers'[q] = buffers[q] /\ lastSeen'[q] = lastSeen[q] /\ now' = now
        BY <2>3, <3>2 DEF TypeOK
      <4> QED BY <4>1 DEF WindowInv
    <3> QED BY <3>1, <3>2
  <2>5. BatchesCoherent'
    <3>1. \A q \in Persons : latest'[q] = latest[q] \/ latest'[q] = w
      BY <2>3 DEF TypeOK
    <3>2. \A q \in Persons : Coherent(latest'[q])
      BY <2>2, <3>1 DEF BatchesCoherent
    <3>3. Coherent(serving')
      BY <2>3 DEF BatchesCoherent
    <3> QED BY <3>2, <3>3 DEF BatchesCoherent, Coherent
  <2> QED BY <2>4, <2>5
<1>3. CASE Take
  <2>1. WindowInv'
    BY <1>3 DEF Take, WindowInv, Coherent, Last
  <2>2. notify \in Seq(Persons) /\ Head(notify) \in Persons
    BY <1>3, HeadTailProperties DEF Take, TypeOK
  <2>3. Coherent(serving')
    BY <1>3, <2>2 DEF Take, BatchesCoherent
  <2>4. \A q \in Persons : latest'[q] = latest[q] \/ latest'[q] = <<>>
    BY <1>3 DEF Take, TypeOK
  <2>5. \A q \in Persons : Coherent(latest'[q])
    BY <2>4, CoherentEmpty DEF BatchesCoherent
  <2>6. BatchesCoherent'
    BY <2>3, <2>5 DEF BatchesCoherent, Coherent
  <2> QED BY <2>1, <2>6
<1>4. CASE Finish
  <2>1. WindowInv'
    BY <1>4 DEF Finish, WindowInv, Coherent, Last
  <2>2. Coherent(serving') /\ \A q \in Persons : Coherent(latest'[q])
    BY <1>4, CoherentEmpty DEF Finish, lqueue, BatchesCoherent
  <2>3. BatchesCoherent'
    BY <2>2 DEF BatchesCoherent, Coherent
  <2> QED BY <2>1, <2>3
<1>5. CASE Tick
  BY <1>1, <1>5 DEF Tick, lqueue
<1>6. CASE UNCHANGED vars
  BY <1>1, <1>6 DEF vars, lqueue
<1> QED BY <1>2, <1>3, <1>4, <1>5, <1>6 DEF Next, IngestAny

\* No batch that waits or is processed mixes two stretches of an identity,
\* although windows are evicted, reset and copied at any time.
THEOREM BatchesAlwaysCoherent == Spec => []BatchesCoherent
<1>1. Spec => []TypeOK
  BY TypeCorrect
<1>2. CoherenceInv => BatchesCoherent
  BY DEF CoherenceInv
<1> QED BY <1>1, <1>2, CoherenceInit, CoherenceNext, PTL DEF Spec

(***************************************************************************)
(* The latest-only queue implements the mailboxes.                         *)
(***************************************************************************)

Waiting == [i \in DOMAIN notify |-> [person |-> notify[i], batch |-> latest[notify[i]]]]

Mailbox == [person : Persons, batch : Windows \cup {<<>>}]

WaitingTypeOK ==
  /\ Waiting \in Seq(Mailbox)
  /\ Len(Waiting) = Len(notify)
  /\ DOMAIN Waiting = 1 .. Len(notify)
  /\ Len(notify) \in Nat

LEMMA WaitingType == TypeOK => WaitingTypeOK
<1> SUFFICES ASSUME TypeOK PROVE WaitingTypeOK
  OBVIOUS
<1> DEFINE n == Len(notify)
<1>1. n \in Nat /\ DOMAIN notify = 1 .. n /\ \A i \in 1 .. n : notify[i] \in Persons
  BY LenProperties, ElementOfSeq DEF TypeOK
<1> HIDE DEF n
<1>2. \A i \in 1 .. n : [person |-> notify[i], batch |-> latest[notify[i]]] \in Mailbox
  BY <1>1 DEF Mailbox, TypeOK
<1>3. Waiting \in [1 .. n -> Mailbox]
  BY <1>1, <1>2 DEF Waiting
<1>4. Waiting \in Seq(Mailbox)
  BY <1>1, <1>3, SeqDef
<1>5. Len(Waiting) = n
  BY <1>1, <1>3, <1>4, LenProperties
<1> QED BY <1>1, <1>3, <1>4, <1>5 DEF n, WaitingTypeOK

LEMMA WaitingTypePrimed == TypeOK' => WaitingTypeOK'
BY WaitingType, PTL

LEMMA MailboxesInit == Init => Mailboxes!Init
<1> SUFFICES ASSUME Init PROVE Mailboxes!Init
  OBVIOUS
<1>1. TypeOK
  BY TypeInit
<1>2. Len(notify) = 0
  BY EmptySeq DEF Init
<1>3. Waiting = <<>>
  BY <1>1, <1>2, WaitingType, EmptySeq DEF WaitingTypeOK
<1> QED BY <1>3 DEF Init, Mailboxes!Init, Waiting

\* A step of put_latest replaces a mailbox, opens one, or is refused.
LEMMA PutLatestMailboxes ==
  ASSUME TypeOK, TypeOK', QueueConsistent, UNCHANGED serving,
         NEW p \in Persons, NEW w \in Windows, PutLatest(p, w)
  PROVE  \/ Mailboxes!Replace
         \/ Mailboxes!Register(p)
         \/ UNCHANGED <<Waiting, serving>>
<1> DEFINE n == Len(notify)
<1>1. /\ n \in Nat /\ DOMAIN notify = 1 .. n
      /\ Waiting \in Seq(Mailbox) /\ Len(Waiting) = n /\ DOMAIN Waiting = 1 .. n
      /\ \A i \in 1 .. n : notify[i] \in Persons
  BY WaitingType, LenProperties, ElementOfSeq DEF TypeOK, WaitingTypeOK
<1>2. /\ Waiting' \in Seq(Mailbox) /\ Len(Waiting') = Len(notify')
      /\ DOMAIN Waiting' = 1 .. Len(notify')
  BY WaitingTypePrimed DEF WaitingTypeOK
<1>3. latest' = [latest EXCEPT ![p] = w]
  BY DEF PutLatest
<1> HIDE DEF n
<1>4. \A i \in 1 .. n : Waiting[i] = [person |-> notify[i], batch |-> latest[notify[i]]]
  BY <1>1 DEF Waiting
<1>5. ASSUME notify' = notify
      PROVE  /\ DOMAIN Waiting' = 1 .. n /\ Len(Waiting') = n
             /\ \A i \in 1 .. n :
                  Waiting'[i] = [person |-> notify[i],
                                 batch |-> IF notify[i] = p THEN w ELSE latest[notify[i]]]
  BY <1>1, <1>2, <1>3, <1>5 DEF Waiting, TypeOK, n
<1>6. CASE notify' = notify /\ p \in queued
  <2>1. PICK i \in 1 .. n : notify[i] = p
    BY <1>1, <1>6 DEF QueueConsistent
  <2>2. \A j \in 1 .. n : j # i => notify[j] # p
    BY <1>1, <2>1 DEF QueueConsistent
  <2>3. Waiting'[i] = [person |-> p, batch |-> w]
    BY <1>5, <1>6, <2>1
  <2>4. \A j \in 1 .. n : j # i => Waiting'[j] = Waiting[j]
    BY <1>4, <1>5, <1>6, <2>2
  <2> DEFINE new == [Waiting EXCEPT ![i].batch = Waiting'[i].batch]
  <2>5. Waiting[i] = [person |-> p, batch |-> latest[p]]
    BY <1>4, <2>1
  <2>6. new \in Seq(Mailbox) /\ Len(new) = n
        /\ new[i] = [person |-> p, batch |-> w]
        /\ \A j \in 1 .. n : j # i => new[j] = Waiting[j]
    <3>1. [Waiting[i] EXCEPT !.batch = Waiting'[i].batch] = [person |-> p, batch |-> w]
      BY <2>3, <2>5
    <3>2. [person |-> p, batch |-> w] \in Mailbox
      BY DEF Mailbox
    <3>3. new = [Waiting EXCEPT ![i] = [person |-> p, batch |-> w]]
      BY <3>1
    <3> QED BY <1>1, <2>1, <3>2, <3>3, ExceptSeq
  <2> HIDE DEF new
  <2>7. Waiting' = new
    BY <1>2, <1>5, <1>6, <2>3, <2>4, <2>6, SeqEqual
  <2>8. Waiting'[i].batch \in Windows
    BY <2>3
  <2>9. Mailboxes!Replace
    BY <1>1, <1>5, <1>6, <2>7, <2>8 DEF Mailboxes!Replace, Waiting, new
  <2> QED BY <2>9
<1>7. CASE notify' = notify /\ p \notin queued
  <2>1. \A i \in 1 .. n : notify[i] # p
    BY <1>1, <1>7 DEF QueueConsistent
  <2>2. \A i \in 1 .. n : Waiting'[i] = Waiting[i]
    BY <1>4, <1>5, <1>7, <2>1
  <2>3. Waiting' = Waiting
    BY <1>1, <1>2, <1>5, <1>7, <2>2, SeqEqual
  <2> QED BY <2>3
<1>8. CASE p \notin queued /\ ~QueueFull /\ notify' = Append(notify, p)
  <2> DEFINE box == [person |-> p, batch |-> w]
             new == Append(Waiting, box)
  <2>1. \A i \in 1 .. n : notify[i] # p
    BY <1>1, <1>8 DEF QueueConsistent
  <2>2. Len(notify') = n + 1 /\ notify'[n + 1] = p /\ \A i \in 1 .. n : notify'[i] = notify[i]
    BY <1>8, AppendProperties DEF TypeOK, n
  <2>3. \A i \in 1 .. n : Waiting'[i] = Waiting[i]
    <3> SUFFICES ASSUME NEW i \in 1 .. n PROVE Waiting'[i] = Waiting[i]
      OBVIOUS
    <3>1. i \in DOMAIN Waiting' /\ notify'[i] = notify[i]
      BY <1>1, <1>2, <2>2
    <3>2. latest'[notify[i]] = latest[notify[i]]
      BY <1>1, <1>3, <2>1 DEF TypeOK
    <3>3. Waiting'[i] = [person |-> notify'[i], batch |-> latest'[notify'[i]]]
      BY <3>1 DEF Waiting
    <3> QED BY <1>4, <3>1, <3>2, <3>3
  <2>4. Waiting'[n + 1] = box
    <3>1. n + 1 \in DOMAIN Waiting'
      BY <1>1, <1>2, <2>2
    <3>2. latest'[p] = w
      BY <1>3 DEF TypeOK
    <3>3. Waiting'[n + 1] = [person |-> notify'[n + 1], batch |-> latest'[notify'[n + 1]]]
      BY <3>1 DEF Waiting
    <3> QED BY <2>2, <3>2, <3>3
  <2>5. new \in Seq(Mailbox) /\ Len(new) = n + 1 /\ new[n + 1] = box
        /\ \A i \in 1 .. n : new[i] = Waiting[i]
    <3>1. box \in Mailbox
      BY DEF Mailbox
    <3> QED BY <1>1, <3>1, AppendProperties
  <2> HIDE DEF new, box
  <2>6. Len(Waiting') = n + 1
    BY <1>2, <2>2
  <2>7. \A i \in 1 .. n + 1 : Waiting'[i] = new[i]
    <3>1. \A i \in 1 .. n + 1 : i \in 1 .. n \/ i = n + 1
      BY <1>1
    <3> QED BY <2>3, <2>4, <2>5, <3>1
  <2>8. Waiting' = new
    BY <1>2, <2>5, <2>6, <2>7, SeqEqual
  <2>9. /\ \A i \in DOMAIN Waiting : Waiting[i].person # p
        /\ QueueMax > 0 => Len(Waiting) < QueueMax
    BY <1>1, <1>4, <1>8, <2>1, QueueMaxAssumption DEF QueueFull, n
  <2>10. Waiting'[Len(Waiting')].batch = w
    BY <2>4, <2>6 DEF box
  <2>11. Mailboxes!Register(p)
    BY <1>1, <2>6, <2>8, <2>9, <2>10 DEF Mailboxes!Register, Waiting, new, box
  <2> QED BY <2>11
<1> QED BY <1>6, <1>7, <1>8 DEF PutLatest

\* get delivers the content of the first mailbox.
LEMMA TakeMailboxes ==
  ASSUME TypeOK, TypeOK', QueueConsistent, Take
  PROVE  Mailboxes!Deliver
<1> DEFINE n == Len(notify)
<1>1. /\ n \in Nat \ {0} /\ DOMAIN notify = 1 .. n /\ Head(notify) = notify[1]
      /\ Waiting \in Seq(Mailbox) /\ Len(Waiting) = n /\ DOMAIN Waiting = 1 .. n
      /\ \A i \in 1 .. n : notify[i] \in Persons
  BY WaitingType, LenProperties, ElementOfSeq, EmptySeq DEF TypeOK, WaitingTypeOK, Take
<1>2. /\ Waiting' \in Seq(Mailbox) /\ Len(Waiting') = Len(notify')
      /\ DOMAIN Waiting' = 1 .. Len(notify')
  BY WaitingTypePrimed DEF WaitingTypeOK
<1>3. Len(notify') = n - 1 /\ \A i \in 1 .. n - 1 : notify'[i] = notify[i + 1]
  BY HeadTailProperties DEF Take, TypeOK
<1> HIDE DEF n
<1>4. \A i \in 1 .. n : Waiting[i] = [person |-> notify[i], batch |-> latest[notify[i]]]
  BY <1>1 DEF Waiting
<1>5. Waiting # <<>> /\ Head(Waiting) = Waiting[1]
  BY <1>1, EmptySeq
<1>6. Tail(Waiting) \in Seq(Mailbox) /\ Len(Tail(Waiting)) = n - 1
      /\ \A i \in 1 .. n - 1 : Tail(Waiting)[i] = Waiting[i + 1]
  BY <1>1, <1>5, HeadTailProperties
<1>7. \A i \in 1 .. n - 1 : Waiting'[i] = Tail(Waiting)[i]
  <2> SUFFICES ASSUME NEW i \in 1 .. n - 1 PROVE Waiting'[i] = Tail(Waiting)[i]
    OBVIOUS
  <2>1. i + 1 \in 1 .. n /\ 1 \in 1 .. n /\ i + 1 # 1
    BY <1>1
  <2>2. notify'[i] = notify[i + 1] /\ i \in DOMAIN Waiting'
    BY <1>2, <1>3
  <2>3. notify[i + 1] # notify[1]
    BY <1>1, <2>1 DEF QueueConsistent
  <2>4. latest'[notify[i + 1]] = latest[notify[i + 1]]
    BY <1>1, <2>1, <2>3 DEF Take, TypeOK
  <2>5. Waiting'[i] = [person |-> notify'[i], batch |-> latest'[notify'[i]]]
    BY <2>2 DEF Waiting
  <2> QED BY <1>4, <1>6, <2>1, <2>2, <2>4, <2>5
<1>8. Waiting' = Tail(Waiting)
  BY <1>2, <1>3, <1>6, <1>7, SeqEqual
<1>9. Head(Waiting).batch = serving'
  <2>1. Waiting[1] = [person |-> notify[1], batch |-> latest[notify[1]]]
    BY <1>1, <1>4
  <2> QED BY <1>1, <1>5, <2>1 DEF Take
<1>10. serving' # <<>>
  BY TakeConsistent
<1> QED BY <1>5, <1>8, <1>9, <1>10 DEF Mailboxes!Deliver, Waiting, Take

LEMMA MailboxesNext ==
  ASSUME TypeOK, TypeOK', QueueConsistent, [Next]_vars
  PROVE  [Mailboxes!Next]_<<Waiting, serving>>
<1>1. ASSUME UNCHANGED <<lqueue, serving>>
      PROVE  UNCHANGED <<Waiting, serving>>
  BY <1>1 DEF Waiting, lqueue
<1>2. CASE Tick
  BY <1>1, <1>2 DEF Tick
<1>3. CASE IngestAny
  <2>1. PICK p \in Persons, pending \in BOOLEAN, fit \in BOOLEAN :
          Ingest(p, [at |-> now, pending |-> pending], fit)
    BY <1>3 DEF IngestAny
  <2>2. UNCHANGED serving /\ (UNCHANGED lqueue \/ \E w \in Windows : PutLatest(p, w))
    BY <2>1, IngestCases
  <2>3. CASE UNCHANGED lqueue
    BY <1>1, <2>2, <2>3
  <2>4. CASE \E w \in Windows : PutLatest(p, w)
    BY <2>2, <2>4, PutLatestMailboxes DEF Mailboxes!Next
  <2> QED BY <2>2, <2>3, <2>4
<1>4. CASE Take
  BY <1>4, TakeMailboxes DEF Mailboxes!Next
<1>5. CASE Finish
  <2>1. UNCHANGED Waiting
    BY <1>5 DEF Finish, Waiting, lqueue
  <2> QED BY <1>5, <2>1 DEF Finish, Mailboxes!Next, Mailboxes!Done, Waiting
<1>6. CASE UNCHANGED vars
  BY <1>1, <1>6 DEF vars
<1> QED BY <1>2, <1>3, <1>4, <1>5, <1>6 DEF Next

\* The latest-only queue, with its three structures, behaves as a bounded queue
\* of one mailbox per person: a newer batch keeps the place of the older one, a
\* batch is lost only by being replaced or refused, and get never skips one.
THEOREM QueueImplementsMailboxes == Spec => ImplementsMailboxes
<1>1. Spec => []TypeOK
  BY TypeCorrect
<1>2. Spec => []QueueConsistent
  BY QueueAlwaysConsistent
<1>3. TypeOK /\ TypeOK' /\ QueueConsistent /\ [Next]_vars
      => [Mailboxes!Next]_<<Waiting, serving>>
  BY MailboxesNext
<1>4. Spec => Mailboxes!Init /\ [][Mailboxes!Next]_<<Waiting, serving>>
  BY <1>1, <1>2, <1>3, MailboxesInit, PTL DEF Spec
<1> QED BY <1>4, PTL DEF ImplementsMailboxes, Mailboxes!Spec, Waiting

\* Who waits is never overtaken: in every step a person keeps the place, or moves up by
\* one because the first person's freshest batch is delivered.  A newer batch of the same
\* person does not send them back to the end, and nobody is taken off the queue unserved
\* (ingress_scheduler.py, put_latest and get).
NeverOvertaken ==
  \A i \in DOMAIN notify :
    \/ i \in DOMAIN notify' /\ notify'[i] = notify[i]
    \/ /\ serving = <<>> /\ serving' = latest[notify[1]]
       /\ i > 1 => i - 1 \in DOMAIN notify' /\ notify'[i - 1] = notify[i]

\* Persons are served in the order in which they began to wait.
THEOREM PersonsInTurn == Spec => [][NeverOvertaken]_vars
<1>1. ASSUME TypeOK, [Next]_vars, ~UNCHANGED vars PROVE NeverOvertaken
  <2>1. notify \in Seq(Persons) /\ Len(notify) \in Nat /\ DOMAIN notify = 1 .. Len(notify)
    BY <1>1, LenProperties DEF TypeOK
  <2>2. CASE notify' = notify
    BY <2>2 DEF NeverOvertaken
  <2>3. CASE IngestAny
    <3>1. PICK p \in Persons, pending \in BOOLEAN, fit \in BOOLEAN :
            Ingest(p, [at |-> now, pending |-> pending], fit)
      BY <2>3 DEF IngestAny
    <3>2. UNCHANGED lqueue \/ \E w \in Windows : PutLatest(p, w)
      BY <1>1, <3>1, IngestCases
    <3>3. notify' = notify \/ notify' = Append(notify, p)
      BY <3>2 DEF PutLatest, lqueue
    <3>4. CASE notify' = Append(notify, p)
      BY <2>1, <3>4, AppendProperties DEF NeverOvertaken
    <3> QED BY <2>2, <3>3, <3>4
  <2>4. CASE Take
    <3>1. /\ notify # <<>> /\ notify' = Tail(notify)
          /\ serving = <<>> /\ serving' = latest[notify[1]]
      BY <2>1, <2>4, HeadTailProperties DEF Take, Idle
    <3>2. \A i \in DOMAIN notify : i > 1 => i - 1 \in DOMAIN notify' /\ notify'[i - 1] = notify[i]
      BY <2>1, <3>1, HeadTailProperties, LenProperties
    <3> QED BY <3>1, <3>2 DEF NeverOvertaken
  <2>5. CASE Tick \/ Finish
    BY <2>2, <2>5 DEF Tick, Finish, lqueue
  <2> QED BY <1>1, <2>3, <2>4, <2>5 DEF Next
<1>2. TypeOK /\ [Next]_vars => [NeverOvertaken]_vars
  BY <1>1
<1> QED BY <1>2, TypeCorrect, PTL DEF Spec

=============================================================================
