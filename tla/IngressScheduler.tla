-------------------------- MODULE IngressScheduler --------------------------
(***************************************************************************)
(* The ingress of the inference plane of one camera: the temporal buffer,  *)
(* the dispatch gate with its cooldown, the latest-only queue, and the     *)
(* orchestrator that empties it (backend/src/services/inference/           *)
(* ingress_scheduler.py, temporal_buffer.py, orchestrator.py).             *)
(*                                                                         *)
(* All of it runs on the event loop.  ingest has no await, so it is one    *)
(* step; the orchestrator gives the loop up only in get and while a batch  *)
(* is with the model server, when any number of samples may arrive.        *)
(*                                                                         *)
(* A missing entry of _buffers or _latest is the empty sequence: the code  *)
(* tells the two apart nowhere.                                            *)
(***************************************************************************)
EXTENDS Integers, Sequences

CONSTANTS
  Persons,    (* The persistent ids.                                       *)
  Window,     (* temporal_buffer_size.                                     *)
  MinFrames,  (* dispatch_min_temporal_frames.                             *)
  GapReset,   (* identity_gap_reset_seconds, in ticks.                     *)
  Cooldown,   (* dispatch_cooldown_seconds, in ticks; 0 disables it.       *)
  QueueMax,   (* ingress_queue_maxsize; 0 means no bound.                  *)
  MaxTime     (* Bound of the model: the last tick.                        *)

ASSUME WindowAssumption == Window \in Nat \ {0} /\ MinFrames \in Nat
ASSUME TimeAssumption == GapReset \in Nat /\ Cooldown \in Nat /\ MaxTime \in Nat \ {0}
ASSUME QueueMaxAssumption == QueueMax \in Nat

VARIABLES
  now,           (* The clock.                                             *)
  buffers,       (* TemporalBufferService._buffers: the samples, per id.   *)
  lastSeen,      (* TemporalBufferService._last_seen.                      *)
  latest,        (* _LatestOnlyQueue._latest: the newest batch, per id.    *)
  queued,        (* _LatestOnlyQueue._queued.                              *)
  notify,        (* _LatestOnlyQueue._notify: the ids to serve, in order.  *)
  lastEnqueued,  (* InferenceIngressScheduler._last_enqueued_at.           *)
  serving        (* The batch the orchestrator is processing, or Idle.     *)

lqueue == <<latest, queued, notify>>
vars == <<now, buffers, lastSeen, lqueue, lastEnqueued, serving>>

Sample == [at : 0 .. MaxTime, pending : BOOLEAN]

\* What the temporal buffer of a person may hold, and so what a batch may be.
Windows == UNION {[1 .. n -> Sample] : n \in 1 .. Window}

Idle == <<>>

\* An id without an entry in _last_enqueued_at: no cooldown is running for it.
Never == -Cooldown

Last(s) == s[Len(s)]

Init ==
  /\ now = 1
  /\ buffers = [p \in Persons |-> <<>>]
  /\ lastSeen = [p \in Persons |-> 0]
  /\ latest = [p \in Persons |-> <<>>]
  /\ queued = {}
  /\ notify = <<>>
  /\ lastEnqueued = [p \in Persons |-> Never]
  /\ serving = Idle

Tick ==
  /\ now < MaxTime
  /\ now' = now + 1
  /\ UNCHANGED <<buffers, lastSeen, lqueue, lastEnqueued, serving>>

-----------------------------------------------------------------------------
(* ingest, for a sample of person p.                                       *)

\* Fault: a pending identity keeps the window of the resolved one.
GapOnly(p, sample) == now - lastSeen[p] > GapReset

\* The identity was lost for too long or is not confirmed any more.
Interrupted(p, sample) == now - lastSeen[p] > GapReset \/ sample.pending

\* push: the window of p with the sample in it, without its oldest sample if
\* that makes it too long.
WindowWith(p, sample) ==
  LET kept == IF Interrupted(p, sample) THEN <<>> ELSE buffers[p]
  IN  IF Len(kept) < Window THEN Append(kept, sample)
                            ELSE Append(Tail(kept), sample)

\* The gate: enough frames, and (`fit`) a current detection, with enough
\* hits and a crop that is large enough.
GatePasses(window, fit) == Len(window) >= MinFrames /\ fit

CoolingDown(p) == now - lastEnqueued[p] < Cooldown

QueueFull == QueueMax > 0 /\ Len(notify) >= QueueMax

\* Fault: the first batch of a waiting id is kept, not the newest.
PutFirst(p, batch) ==
  /\ latest' = [latest EXCEPT ![p] = IF p \in queued THEN @ ELSE batch]
  /\ IF p \in queued \/ QueueFull
     THEN UNCHANGED <<queued, notify>>
     ELSE /\ queued' = queued \cup {p}
          /\ notify' = Append(notify, p)

\* Fault: the id is notified again for every batch.
PutAlwaysNotifies(p, batch) ==
  /\ latest' = [latest EXCEPT ![p] = batch]
  /\ queued' = queued \cup {p}
  /\ notify' = IF QueueFull THEN notify ELSE Append(notify, p)

\* put_latest: the batch replaces the one that waits; an id that does not wait
\* is notified, unless QueueFull is raised, which leaves the batch in _latest.
PutLatest(p, batch) ==
  /\ latest' = [latest EXCEPT ![p] = batch]
  /\ IF p \in queued \/ QueueFull
     THEN UNCHANGED <<queued, notify>>
     ELSE /\ queued' = queued \cup {p}
          /\ notify' = Append(notify, p)

\* Bound of the model: a person is sampled once per tick.
Ingest(p, sample, fit) ==
  /\ lastSeen[p] < now
  /\ buffers' = [buffers EXCEPT ![p] = WindowWith(p, sample)]
  /\ lastSeen' = [lastSeen EXCEPT ![p] = now]
  /\ IF GatePasses(WindowWith(p, sample), fit) /\ ~CoolingDown(p)
     THEN /\ lastEnqueued' = IF Cooldown > 0 THEN [lastEnqueued EXCEPT ![p] = now]
                                             ELSE lastEnqueued
          /\ PutLatest(p, WindowWith(p, sample))
     ELSE UNCHANGED <<lqueue, lastEnqueued>>
  /\ UNCHANGED <<now, serving>>

-----------------------------------------------------------------------------
(* The orchestrator.                                                       *)

\* Fault: a served id stays marked as queued.
TakeUndiscarded ==
  /\ serving = Idle
  /\ notify # <<>>
  /\ notify' = Tail(notify)
  /\ serving' = latest[Head(notify)]
  /\ latest' = [latest EXCEPT ![Head(notify)] = <<>>]
  /\ UNCHANGED <<now, buffers, lastSeen, queued, lastEnqueued>>

\* One round of get's loop: the next id, and the batch that is its newest by
\* now.  An id without a batch would leave the orchestrator idle, in get.
Take ==
  /\ serving = Idle
  /\ notify # <<>>
  /\ notify' = Tail(notify)
  /\ queued' = queued \ {Head(notify)}
  /\ serving' = latest[Head(notify)]
  /\ latest' = [latest EXCEPT ![Head(notify)] = <<>>]
  /\ UNCHANGED <<now, buffers, lastSeen, lastEnqueued>>

\* _process_batch returns or raises, whatever the model server did.
Finish ==
  /\ serving # Idle
  /\ serving' = Idle
  /\ UNCHANGED <<now, buffers, lastSeen, lqueue, lastEnqueued>>

IngestAny ==
  \E p \in Persons, pending, fit \in BOOLEAN :
    Ingest(p, [at |-> now, pending |-> pending], fit)

Next == Tick \/ IngestAny \/ Take \/ Finish

Spec == Init /\ [][Next]_vars

-----------------------------------------------------------------------------
(* Properties.                                                             *)

\* Every variable has its type; no window is longer than its bound.
TypeOK ==
  /\ now \in 1 .. MaxTime
  /\ buffers \in [Persons -> Windows \cup {<<>>}]
  /\ lastSeen \in [Persons -> 0 .. MaxTime]
  /\ latest \in [Persons -> Windows \cup {<<>>}]
  /\ queued \subseteq Persons
  /\ notify \in Seq(Persons)
  /\ lastEnqueued \in [Persons -> {Never} \cup 1 .. MaxTime]
  /\ serving \in Windows \cup {Idle}

\* _queued, _notify and _latest agree (37-54): an id is marked iff it is
\* notified, once, within the bound, and then there is a batch for it, so that
\* get never comes back empty-handed.
QueueConsistent ==
  /\ queued = {notify[i] : i \in DOMAIN notify}
  /\ \A i, j \in DOMAIN notify : notify[i] = notify[j] => i = j
  /\ \A p \in queued : latest[p] # <<>>
  /\ QueueMax > 0 => Len(notify) <= QueueMax

\* "The model always sees the freshest crops" (20-21): the batch that waits for
\* a person ends with the sample of that person's last dispatch.
FreshestBatchWaits ==
  \A p \in queued : Cooldown > 0 => Last(latest[p]).at = lastEnqueued[p]

\* A batch that waits or is processed never spans a change of identity: no gap
\* beyond GapReset, and no pending sample after its first (temporal_buffer.py
\* 37-40), however the window was evicted, reset and copied before.
Coherent(batch) ==
  \A i \in 2 .. Len(batch) :
    /\ batch[i].at - batch[i - 1].at \in 0 .. GapReset
    /\ ~batch[i].pending

BatchesCoherent ==
  /\ Coherent(serving)
  /\ \A p \in Persons : Coherent(latest[p])

\* The latest-only queue is a bounded queue of one mailbox per person.
Mailboxes == INSTANCE Mailboxes WITH
  Batches <- Windows,
  waiting <- [i \in DOMAIN notify |-> [person |-> notify[i], batch |-> latest[notify[i]]]]

ImplementsMailboxes == Mailboxes!Spec

\* "Per-person cooldown: skip if the same person was enqueued within the
\* cooldown window" (157): the batch that started a running cooldown waits or
\* has been served; it was not refused.
CooldownFollowsEnqueue ==
  \A p \in Persons : CoolingDown(p) => p \in queued \/ latest[p] = <<>>
=============================================================================
