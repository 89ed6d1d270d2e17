------------------------- MODULE IdentityLifecycle -------------------------
(***************************************************************************)
(* Persistent identities.  Every bundle of frames the pipeline processes   *)
(* yields tracks with embeddings; one worker thread looks them up in       *)
(* Milvus and writes them back, IdentityAssignmentService remembers which  *)
(* identity each track has, and its events tell the subscribers, if Kafka  *)
(* takes them.  Cameras are removed by the pipeline's task and, at the     *)
(* shutdown, by the lifespan, whatever the task is waiting for             *)
(* (backend/src: opencv_pipeline/identity/service.py,                      *)
(* services/tracking/identity/milvus_store.py, utils/async_blocking.py,    *)
(* opencv_pipeline/output/publisher.py, main.py, and stop, _remove_camera  *)
(* and _process_bundle in opencv_pipeline/runtime.py).                     *)
(*                                                                         *)
(* An embedding is abstracted to a look.  Two looks are the same vector, or *)
(* similar enough to pass the threshold (Near), or neither.  The order of  *)
(* the tracks in a batch matters only for which payload of an identity is  *)
(* the last one: any of them may be.                                       *)
(***************************************************************************)
EXTENDS Naturals, FiniteSets

CONSTANTS
  Cameras,
  LocalIds,     (* The numbers a tracker gives its tracks.                 *)
  Looks,
  Near,         (* The pairs of distinct looks that pass the threshold.    *)
  Ids,          (* Bound of the model: the identities ever created.        *)
  Ttl,          (* identity_ttl_seconds, in ticks.                         *)
  MaxBatches,   (* Bound of the model: batches with an embedding.          *)
  Faults,       (* What may fail: Milvus at a "lookup" or a "write", "kafka".*)
  None

ASSUME BoundsAssumption == Ttl \in Nat \ {0} /\ MaxBatches \in Nat
ASSUME NearAssumption == Near \subseteq Looks \X Looks
ASSUME IdsAssumption == None \notin Ids
ASSUME FaultsAssumption == Faults \subseteq {"lookup", "write", "kafka"}

VARIABLES
  open,      (* The store holds a client.                                  *)
  collection,(* The collection exists.                                     *)
  stored,    (* The collection: look and first_seen_ts of each identity.   *)
  assigned,  (* _track_assignments: identity and age since last_seen.      *)
  batches,   (* Batches so far, which is also the time in first_seen_ts.   *)
  pc,        (* Where the pipeline task is.                                *)
  batch,     (* The looks of the tracks whose identity is being resolved.  *)
  thread,    (* Where the worker thread of the batch is.                   *)
  results,   (* Its IdentityMatch for every track of the batch.            *)
  firsts,    (* The first_seen_ts of the payloads it is about to upsert.   *)
  active,    (* _active_cameras.                                           *)
  lifespan,  (* How far the lifespan has got with stopping the pipeline.   *)
  todo,      (* The cameras that each stop() has still to remove.          *)
  broken,    (* The bundle being resolved has a frame of a removed camera. *)
  flight, told, trust  (* The published events, see TrackEvents.           *)

connection == <<open, collection>>
worker == <<thread, results, firsts>>
stopping == <<active, lifespan, todo, broken>>
published == <<flight, told, trust>>
vars == <<connection, stored, assigned, batches, pc, batch, worker, stopping, published>>

Tracks == Cameras \X LocalIds

Known == [t \in Tracks |-> assigned[t].id]

\* Events are published for a bundle, and by the two tasks that remove cameras.
Events == INSTANCE TrackEvents WITH known <- Known, Senders <- {"bundle", "task", "lifespan"}

NoAssignment == [id |-> None, age |-> 0]

Assigned == {t \in Tracks : assigned[t] # NoAssignment}

Init ==
  /\ open = FALSE
  /\ collection \in BOOLEAN
  /\ stored = <<>>
  /\ assigned = [t \in Tracks |-> NoAssignment]
  /\ batches = 0
  /\ pc = "starting"
  /\ batch = <<>>
  /\ thread = "none"
  /\ results = <<>>
  /\ firsts = <<>>
  /\ active = {}
  /\ lifespan = "up"
  /\ todo = [remover \in {"task", "lifespan"} |-> {}]
  /\ broken = FALSE
  /\ flight = {}
  /\ told = [t \in Tracks |-> None]
  /\ trust = [t \in Tracks |-> "sure"]

-----------------------------------------------------------------------------
(* The worker thread: _locked_batch_resolve.                               *)

\* _get_client and _ensure_collection_ready, under the lock.
Connect == open' = TRUE /\ collection' = TRUE

\* The hits for a look: the nearest records, or those that pass the threshold.
Hits(look) ==
  LET same == {i \in DOMAIN stored : stored[i].look = look}
  IN IF same # {} THEN same ELSE {i \in DOMAIN stored : <<stored[i].look, look>> \in Near}

\* Fault: a hit whose track was not assigned before is taken for a new identity.
SearchForgets ==
  /\ thread = "ready"
  /\ \E ids \in [DOMAIN batch -> Ids \ DOMAIN stored] :
       /\ \A t, u \in DOMAIN batch : ids[t] = ids[u] => t = u
       /\ results' = [t \in DOMAIN batch |-> [id |-> ids[t], matched |-> FALSE]]
  /\ firsts' = [i \in {results'[t].id : t \in DOMAIN batch} |-> batches]
  /\ thread' = "searched"
  /\ Connect
  /\ UNCHANGED <<stored, assigned, batches, pc, batch, stopping, published>>

\* All searches precede the upsert; a track without a hit gets a new identity,
\* the other the identity of its best hit.
Search ==
  /\ thread = "ready"
  /\ \E ids \in [DOMAIN batch -> Ids] :
       /\ \A t \in DOMAIN batch :
            IF Hits(batch[t]) # {} THEN ids[t] \in Hits(batch[t])
            ELSE ids[t] \notin DOMAIN stored /\ \A u \in DOMAIN batch \ {t} : ids[u] # ids[t]
       /\ results' = [t \in DOMAIN batch |->
                        [id |-> ids[t], matched |-> Hits(batch[t]) # {}]]
  /\ firsts' = [i \in {results'[t].id : t \in DOMAIN batch} |-> batches]
  /\ thread' = "searched"
  /\ Connect
  /\ UNCHANGED <<stored, assigned, batches, pc, batch, stopping, published>>

\* Fault: the stored timestamps are not fetched.
LookupSkipped ==
  /\ thread = "searched"
  /\ thread' = "looked"
  /\ UNCHANGED <<connection, stored, assigned, batches, pc, batch, results, firsts, stopping, published>>

\* client.get: the payloads of known identities keep their first_seen_ts, unless
\* the call fails, which is passed over.
Lookup ==
  /\ thread = "searched"
  /\ \/ /\ firsts' = [i \in DOMAIN firsts |->
                        IF i \in DOMAIN stored THEN stored[i].first ELSE firsts[i]]
        /\ thread' = "looked"
     \/ /\ "lookup" \in Faults
        /\ \E t \in DOMAIN batch : results[t].matched
        /\ thread' = "guessed"
        /\ UNCHANGED firsts
  /\ UNCHANGED <<connection, stored, assigned, batches, pc, batch, results, stopping, published>>

\* One payload per identity, the last one, is upserted.  The answer may be lost:
\* the call fails although Milvus has stored the records.
Upsert ==
  /\ thread \in {"looked", "guessed"}
  /\ \E last \in [DOMAIN firsts -> DOMAIN batch] :
       /\ \A i \in DOMAIN firsts : results[last[i]].id = i
       /\ stored' = [i \in DOMAIN stored \cup DOMAIN firsts |->
                       IF i \in DOMAIN firsts THEN [look |-> batch[last[i]], first |-> firsts[i]]
                       ELSE stored[i]]
  /\ thread' \in {"done"} \cup (IF "write" \in Faults THEN {"failed"} ELSE {})
  /\ UNCHANGED <<connection, assigned, batches, pc, batch, results, firsts, stopping, published>>

\* Fault: the failure is passed over.
CallFailsUnnoticed ==
  /\ "write" \in Faults
  /\ thread \in {"looked", "guessed"}
  /\ thread' = "done"
  /\ UNCHANGED <<connection, stored, assigned, batches, pc, batch, results, firsts, stopping, published>>

\* has_collection, search or upsert fails: nothing is written.
CallFails ==
  /\ "write" \in Faults
  /\ thread \in {"ready", "looked", "guessed"}
  /\ thread' = "failed"
  /\ UNCHANGED <<connection, stored, assigned, batches, pc, batch, results, firsts, stopping, published>>

-----------------------------------------------------------------------------
(* The cameras, and stop(), which the pipeline's task and the lifespan call. *)

\* Who waits for the publication of nothing.
Free(sender) == \A m \in flight : m.by # sender

Expiry(t) == [kind |-> "expired", track |-> t, id |-> assigned[t].id, previous |-> None]

\* Fault: the assignments of a removed camera are dropped in silence.
RemoveSilently(remover, c) ==
  /\ active' = active \ {c}
  /\ assigned' = IF c \in active THEN [t \in Tracks |-> IF t[1] = c THEN NoAssignment ELSE assigned[t]]
                 ELSE assigned
  /\ UNCHANGED published

\* _remove_camera: the tracks of the camera expire, and the events are published on
\* their own.  Somebody else may have removed the camera meanwhile.
Remove(remover, c) ==
  LET gone == {t \in Assigned : t[1] = c /\ c \in active}
  IN /\ active' = active \ {c}
     /\ assigned' = [t \in Tracks |-> IF t \in gone THEN NoAssignment ELSE assigned[t]]
     /\ Events!Sent({[by |-> remover, event |-> Expiry(t)] : t \in gone})
     /\ UNCHANGED told

\* stop() in the finally clause of run_forever.
StartStop ==
  IF lifespan # "up" /\ active = {} THEN pc' = "stopped" /\ UNCHANGED todo
  ELSE pc' = "stopping" /\ todo' = [todo EXCEPT !["task"] = active]

\* stop() once more, awaited by the lifespan at the shutdown; it returns at once if the
\* task has already removed all cameras, or is waiting with the last one.  (What a shutdown does to
\* a pipeline that is still starting is described in Lifespan.)
BeginShutdown ==
  /\ pc # "starting"
  /\ lifespan = "up"
  /\ IF pc \in {"stopping", "stopped"} /\ active = {} THEN lifespan' = "closed" /\ UNCHANGED todo
     ELSE lifespan' = "removing" /\ todo' = [todo EXCEPT !["lifespan"] = active]
  /\ UNCHANGED <<connection, stored, assigned, batches, pc, batch, worker, active, broken, published>>

\* One camera after the other.  The lifespan may come between a bundle's frame and
\* _active_cameras[camera_id] at the end of its processing, which then fails.
Visit(remover, c) ==
  /\ (remover = "task" /\ pc = "stopping") \/ (remover = "lifespan" /\ lifespan = "removing")
  /\ c \in todo[remover]
  /\ Free(remover)
  /\ todo' = [todo EXCEPT ![remover] = @ \ {c}]
  /\ Remove(remover, c)
  /\ IF remover = "lifespan" /\ pc = "resolving" /\ c \in active
     THEN broken' \in {TRUE} \cup (IF \E t \in DOMAIN batch : t[1] = c THEN {} ELSE {broken})
     ELSE UNCHANGED broken
  /\ UNCHANGED <<connection, stored, batches, pc, batch, worker, lifespan>>

\* Then it takes the store's lock to close it: it waits for a thread that is between
\* its search and its upsert.
Close(remover) ==
  /\ todo[remover] = {} /\ Free(remover)
  /\ thread \notin {"searched", "looked", "guessed"}
  /\ open' = FALSE
  /\ \/ /\ remover = "task" /\ pc = "stopping"
        /\ pc' = "stopped" /\ UNCHANGED lifespan
     \/ /\ remover = "lifespan" /\ lifespan = "removing"
        /\ lifespan' = "closed" /\ UNCHANGED pc
  /\ UNCHANGED <<collection, stored, assigned, batches, batch, worker, active, todo, broken, published>>

\* The lifespan cancels the task: what it was waiting for is given up, be it the
\* answer of the worker thread, which goes on by itself, or a publication.
Cancel ==
  LET given == {m \in flight : m.by \in {"bundle", "task"}}
  IN /\ lifespan = "closed"
     /\ lifespan' = "cancelled"
     /\ Events!Lost(given)
     /\ \/ pc \in {"idle", "resolving", "publishing"} /\ StartStop
        \/ pc = "stopping" /\ pc' = "aborted" /\ UNCHANGED todo
        \/ pc = "stopped" /\ UNCHANGED <<pc, todo>>
     /\ UNCHANGED <<connection, stored, assigned, batches, batch, worker, active, broken, told>>

\* refresh_cameras removes a camera that is deleted or has changed its source.
Refresh(c) ==
  /\ pc = "idle"
  /\ Free("task")
  /\ c \in active
  /\ Remove("task", c)
  /\ UNCHANGED <<connection, stored, batches, pc, batch, worker, lifespan, todo, broken>>

\* It starts the others, without a look at whether the pipeline is being stopped.
Add(c) ==
  /\ pc = "idle"
  /\ Free("task")
  /\ c \notin active
  /\ active' = active \cup {c}
  /\ UNCHANGED <<connection, stored, assigned, batches, pc, batch, worker, lifespan, todo, broken,
                 published>>

-----------------------------------------------------------------------------
(* The pipeline task: assign, and the events of _process_bundle.           *)

\* ensure_ready, when the runtime starts, and the first refresh; a failure closes the
\* client and ends the task.
EnsureReady ==
  /\ pc = "starting"
  /\ \/ Connect /\ pc' = "idle" /\ active' = Cameras
     \/ "write" \in Faults /\ pc' = "stopped" /\ UNCHANGED <<connection, active>>
  /\ UNCHANGED <<stored, assigned, batches, batch, worker, lifespan, todo, broken, published>>

\* A bundle has frames of active cameras.  Before its tracks are resolved, the lifespan
\* may have removed some of them.
Bundle(cameras, fails) ==
  /\ pc = "idle"
  /\ Free("task")
  /\ ~fails => active # {} /\ cameras \subseteq active
  /\ fails => lifespan # "up" /\ active # Cameras

\* Tracks without an embedding are not resolved.  batch_resolve hands the others
\* to a thread; without any, assign goes on at once.
Resolve(looks) ==
  /\ \E fails \in BOOLEAN : Bundle({t[1] : t \in DOMAIN looks}, fails) /\ broken' = fails
  /\ looks # <<>>
  /\ batches < MaxBatches
  /\ batches' = batches + 1
  /\ batch' = looks
  /\ thread' = "ready"
  /\ pc' = "resolving"
  /\ UNCHANGED <<connection, stored, assigned, results, firsts, active, lifespan, todo, published>>

\* Fault: a new identity is always announced as created.
EventOfNew(t) ==
  [kind |-> IF results[t].matched THEN "updated" ELSE "created",
   track |-> t, id |-> results[t].id, previous |-> None]

\* _apply_matches: the event for a track of the batch.
EventOf(t) ==
  LET id == results[t].id
      previous == assigned[t].id
  IN [kind |-> CASE previous = None -> IF results[t].matched THEN "updated" ELSE "created"
                 [] previous \notin {None, id} -> "merged"
                 [] OTHER -> "updated",
      track |-> t, id |-> id,
      previous |-> IF previous = id THEN None ELSE previous]

\* Fault: without embeddings in the bundle nothing expires.
StaleIfBusy(present) == IF present = {} THEN {} ELSE {t \in Assigned \ present : assigned[t].age >= Ttl}

\* expire_stale looks at the assignments once the batch has been applied.
Stale(present) == {t \in Assigned \ present : assigned[t].age >= Ttl}

\* If the bundle has a frame of a removed camera, the task fails before it publishes
\* anything; otherwise it waits for the publication of all events.
Conclude(present, fails) ==
  LET events == {EventOf(t) : t \in present} \cup {Expiry(t) : t \in Stale(present)}
  IN /\ assigned' = [t \in Tracks |->
                       IF t \in present THEN [id |-> results[t].id, age |-> 0]
                       ELSE IF t \in Stale(present) THEN NoAssignment ELSE assigned[t]]
     /\ IF fails THEN Events!Dropped({e.track : e \in events}) /\ StartStop
        ELSE /\ Events!Sent({[by |-> "bundle", event |-> e] : e \in events})
             /\ pc' = "publishing"
             /\ UNCHANGED todo
     /\ UNCHANGED <<connection, stored, batches, active, lifespan, told>>

Apply ==
  /\ pc = "resolving"
  /\ thread = "done"
  /\ Conclude(DOMAIN batch, broken)
  /\ thread' = "none"
  /\ batch' = <<>>
  /\ results' = <<>>
  /\ firsts' = <<>>
  /\ broken' = FALSE

NothingToResolve ==
  /\ \E fails \in BOOLEAN : Bundle({}, fails) /\ Conclude({}, fails)
  /\ UNCHANGED <<batch, worker, broken>>

\* The client is closed, and the failure raised out of run_forever.
Raise ==
  /\ pc = "resolving"
  /\ thread = "failed"
  /\ StartStop
  /\ open' = FALSE
  /\ UNCHANGED <<collection, stored, assigned, batches, batch, worker, active, lifespan, broken,
                 published>>

\* Somebody has called stop(), or anything else fails.
LeaveLoop ==
  /\ pc = "idle"
  /\ Free("task")
  /\ StartStop
  /\ UNCHANGED <<connection, stored, assigned, batches, batch, worker, active, lifespan, broken,
                 published>>

\* The publications of the bundle have ended.
Published ==
  /\ pc = "publishing"
  /\ Free("bundle")
  /\ IF lifespan = "up" THEN pc' = "idle" /\ UNCHANGED todo ELSE StartStop
  /\ UNCHANGED <<connection, stored, assigned, batches, batch, worker, active, lifespan, broken,
                 published>>

-----------------------------------------------------------------------------
(* Kafka, and the time.                                                    *)

Deliver(m) ==
  /\ Events!Received(m)
  /\ UNCHANGED <<connection, stored, assigned, batches, pc, batch, worker, stopping>>

\* publish_identity_events passes over the failure, and nobody tries again.
Lose(m) ==
  /\ "kafka" \in Faults
  /\ Events!Lost({m})
  /\ UNCHANGED <<connection, stored, assigned, batches, pc, batch, worker, stopping, told>>

Tick ==
  /\ \E t \in Assigned : assigned[t].age < Ttl
  /\ assigned' = [t \in Tracks |->
                    IF t \in Assigned /\ assigned[t].age < Ttl
                    THEN [assigned[t] EXCEPT !.age = @ + 1] ELSE assigned[t]]
  /\ UNCHANGED <<connection, stored, batches, pc, batch, worker, stopping, published>>

Thread == Search \/ Lookup \/ Upsert \/ CallFails

Stopper(remover) == Close(remover) \/ \E c \in Cameras : Visit(remover, c)

Task == EnsureReady \/ Apply \/ Raise \/ Published \/ Stopper("task")

Next ==
  \/ Thread
  \/ Task
  \/ NothingToResolve
  \/ LeaveLoop
  \/ Tick
  \/ BeginShutdown \/ Stopper("lifespan") \/ Cancel
  \/ \E c \in Cameras : Refresh(c) \/ Add(c)
  \/ \E m \in flight : Deliver(m) \/ Lose(m)
  \/ \E tracks \in SUBSET Tracks : \E looks \in [tracks -> Looks] : Resolve(looks)

Spec == Init /\ [][Next]_vars

\* Calls to Milvus and to Kafka return, the task goes on, and time passes.
FairSpec ==
  Spec /\ WF_vars(Thread) /\ WF_vars(Task) /\ WF_vars(\E m \in flight : Deliver(m)) /\ WF_vars(Tick)

-----------------------------------------------------------------------------
(* Properties.                                                             *)

TypeOK ==
  /\ open \in BOOLEAN /\ collection \in BOOLEAN /\ (stored # <<>> => collection)
  /\ DOMAIN stored \subseteq Ids
  /\ stored \in [DOMAIN stored -> [look : Looks, first : 1 .. MaxBatches]]
  /\ assigned \in [Tracks -> {NoAssignment} \cup [id : Ids, age : 0 .. Ttl]]
  /\ batches \in 0 .. MaxBatches
  /\ pc \in {"starting", "idle", "resolving", "publishing", "stopping", "stopped", "aborted"}
  /\ DOMAIN batch \subseteq Tracks /\ batch \in [DOMAIN batch -> Looks]
  /\ thread \in {"none", "ready", "searched", "looked", "guessed", "done", "failed"}
  /\ active \subseteq Cameras
  /\ lifespan \in {"up", "removing", "closed", "cancelled"}
  /\ todo \in [{"task", "lifespan"} -> SUBSET Cameras]
  /\ broken \in BOOLEAN
  /\ flight \subseteq Events!Message
  /\ told \in [Tracks -> Ids \cup {None}]
  /\ trust \in [Tracks -> Events!Trust]

\* As long as Kafka takes every event of a track, and none is published while another is
\* still on its way, the events of the track make sense one after the other: nothing is
\* created twice, a merge names the identity the subscribers were told, and only what they
\* were told expires; after a lost event they make sense again from the next one on.  The
\* shutdown may remove cameras at any time (service.py 199-260, runtime.py 292-325).
ImplementsTrackEvents == Events!Spec

\* An identity that anybody has been told of is in the collection, so that the same
\* person can be recognised on another camera, whichever call failed and whenever
\* the task was cancelled (milvus_store.py 323-401).
AnnouncedIdentitiesStored ==
  \A t \in Tracks :
    /\ assigned[t].id \in DOMAIN stored \cup {None}
    /\ told[t] \in DOMAIN stored \cup {None}

\* "Original first_seen_ts is preserved for matched identities" (README.md:310).
FirstSeenPreserved == [][\A i \in DOMAIN stored : stored'[i].first = stored[i].first]_stored

\* The one way to lose it: the call that fetches it has failed in the same batch, which is
\* passed over; no other failure, crossing or cancellation does it (milvus_store.py 349-401).
FirstSeenLostOnlyByFailedLookup ==
  [][\A i \in DOMAIN stored : stored'[i].first # stored[i].first => thread = "guessed"]_stored

\* One look gets two identities only if one batch creates both, since its searches all
\* precede its upsert: a new record never looks like an older one, and no two records come
\* to look alike, whichever call failed (milvus_store.py 334-401).
DuplicatesOnlyFromOneBatch ==
  [][\A i, j \in DOMAIN stored' : i # j /\ stored'[i].look = stored'[j].look =>
       IF i \in DOMAIN stored THEN j \in DOMAIN stored /\ stored[i].look = stored[j].look
       ELSE j \notin DOMAIN stored]_stored

\* When the pipeline has stopped, because Milvus or anything else failed or because it was
\* shut down and cancelled, the subscribers know of no track any more, but for those of
\* which an event was lost or overtaken (runtime.py 176-187, 238, 292-325).
StopExpiresTracks ==
  pc = "stopped" /\ flight = {} => \A t \in Tracks : told[t] # None => trust[t] # "sure"

\* close releases the client for good: nobody opens another one afterwards, so that
\* none is left open (milvus_store.py:481).
ClosedForGood == pc \in {"stopped", "aborted"} /\ lifespan = "cancelled" => ~open

\* A track that is gone expires for its subscribers as long as bundles are processed,
\* were they empty of embeddings, unless an event of the track is lost or overtaken: time
\* alone expires nothing, some bundle must be assigned (service.py 86).
GoneTracksExpire ==
  []<>(pc = "publishing") => \A t \in Tracks : told[t] # None ~> (told[t] = None \/ trust[t] # "sure")
=============================================================================
