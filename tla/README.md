# TLA+ verification of the realtime video backend

This directory holds the formal models of the service in `src/backend` (a FastAPI
process with an embedded OpenCV pipeline), the TLC configurations that check them on
small instances, and proofs, checked by TLAPS, for every value of their constants. `PROJECT.json` maps
every definition to the lines it models and lists the runs, the faults each
property detects, the hazards of the code, the findings and the theorems.

Paths below are relative to `src/backend/src/` unless they start with `src/`.

## 1. The system

### Components, their state and their operations

| Component | State | Operations | What makes it correct |
|---|---|---|---|
| Frame buffer and shared-memory store (`opencv_pipeline/buffering/frame_buffer.py`, `contracts.py`) | a `queue.Queue` of packets, a pool of shared-memory slots (`_slots`, `_available`, `_in_use`), an `asyncio.Event` and the cached loop | `publish` (capture threads), `get`, `discard_camera`, `close` (event loop), `release` (whoever ends a packet) | a slot has one owner; no slot is lost on an early return; a queued frame is not overwritten; no wake-up is missed; a blocked publisher resumes; frames of a camera stay in order |
| Capture worker (`opencv_pipeline/ingestion/capture.py`) | a thread, the capture handle, a stop flag | `start`, `stop` (join of 2 s), the read loop with reconnect and backoff | no frame of a stopped worker takes effect; the handle is closed |
| Pipeline runtime (`opencv_pipeline/runtime.py`) | active cameras, workers, sync group, last frame times, per-camera state | `run_forever`, `refresh_cameras`, `_remove_camera`, `_refresh_sync_group`, `_process_bundle`, `start`, `stop`, `sync_inference_controls` | the active cameras follow the records; a removed camera leaves nothing behind; a failing camera stalls no other |
| Synchronizer (`opencv_pipeline/buffering/synchronizer.py`) | latest packet of each camera of the group | `submit`, `remove_camera`, `close` | a bundle is the whole group within the tolerance, of packets that have not been released |
| Camera records (`services/camera/`) | rows in PostgreSQL | create, update, delete, list, validate | a row keeps a source to capture from; a record set active is started |
| Inference manager and stream controls (`services/inference/manager.py`, `services/stream/stream_control_service.py`) | a scheduler, an orchestrator and a task per camera; controls in the records | `configure_stream`, `ingest_sample`, start and stop of a camera; PATCH of the control | one worker per enabled camera, none for the others |
| Inference ingress (`services/inference/ingress_scheduler.py`, `temporal_buffer.py`) | a window of samples per person, cooldown times, the latest-only queue (`_latest`, `_queued`, `_notify`) | `ingest`, `push`, `put_latest`, `get` | the freshest batch is served, each waiting person once; no batch spans two stretches of an identity |
| Inference orchestrator (`services/inference/orchestrator.py`) | the consume task, smoothed scores, alert counters | `configure`, `start`, `close`, `_run`, `_process_batch`, delivery to Kafka and callbacks | a failing batch does not end the loop; results keep their order |
| Triton client (`services/inference/triton_client.py`) | the connection, a lock, a semaphore, last attempt | `connect`, `ensure_connected`, `infer`, `close` | every channel has an owner that closes it; the connection comes back |
| Overlay cache and output (`opencv_pipeline/output/publisher.py`) | last result per track, smoothed boxes, preview frames | `record`, `annotate`, `publish`, eviction | no result of a removed camera or expired track is drawn |
| Identity service and Milvus store (`opencv_pipeline/identity/service.py`, `services/tracking/identity/milvus_store.py`) | track-to-person assignments; vectors in Milvus | `assign`, `expire_stale`, `remove_camera`; `batch_resolve` | every assignment that was created expires once; one person is one identity |
| Shared embedding service (`services/tracking/reid/shared_embedding_service.py`) | an asyncio queue and a batching task | `start`, `stop`, `embed_async`, `embed_from_thread` | not modelled: nothing constructs or calls it |
| WebSocket fan-out, WebRTC (`services/presentation/`, `routes/webrtc_routes.py`, `services/webrtc/`) | open sockets, peer connections, counts | connect, disconnect, broadcast; offer, cleanup, `close_all` | counts and registries match what is open |
| Kafka producer and consumer (`services/tracking_kafka/`, `services/stream/kafka_event_consumer.py`) | a producer; a consumer and its task | start, stop, publish, read loop | events reach the clients while Kafka is up |
| Start and shutdown (`main.py`) | the tasks and services of the process | lifespan | the order of shutdown uses nothing already closed |
| Frontend live data (`src/frontend/services/realtimeClient.ts`, `src/frontend/hooks/useWebRTCStream.ts`) | a socket, caches of events, timers | connect, reconnect, heartbeat, sweep, upsert | one socket and one timer; caches hold the newest event |
| Detection, tracking, ReID, motion, calibration | numerical state | per frame | out of scope: numerical code around libraries |

### How they interact

One thread per camera reads frames and calls `FrameBuffer.publish`. Everything
else that is modelled runs on one event loop: `run_forever` awaits
`FrameBuffer.get`, keeps the set of cameras and the sync group up to date, submits
the frame to the synchronizer and, when a bundle is complete, processes it. Crops
of the tracked persons go to the ingress of their camera's inference worker, whose
orchestrator awaits batches from the latest-only queue and calls Triton. Results
go to Kafka, to the overlay cache and, through the Kafka consumer, to the sockets
of the frontend.

### What is hard

- *Threads against the loop.* `publish` takes two locks several times and writes
  pixels outside both; `get` uses an event that is set from other threads only by
  `call_soon_threadsafe`; a capture thread and `stop` share a handle without a lock.
- *State across an await.* `refresh_cameras`, the start of an inference worker,
  PATCH of a control, `_process_bundle`, a broadcast and the cleanup of a peer
  connection all read, await, and then write.
- *Failures of one step of several.* Milvus fails between a search and the upsert;
  one sink of a result fails; Triton fails between two requests; a client leaves
  in the middle of a broadcast.
- *Liveness.* The refresh happens between two frames only; the synchronizer keeps
  one frame per camera; queues and pools are bounded; assignments expire only when
  a bundle is assigned.
- *Late results.* A worker that outlives its join, a Triton result for a camera
  that was removed, an identity of a batch whose camera was removed.
- *Shutdown*, which cancels, awaits and closes in an order spread over five files.

`PROJECT.json` lists each of these as a hazard at its line.

## 2. Modules

| Module | Models | Role |
|---|---|---|
| `FrameBuffer` | `frame_buffer.py`, `FramePacket.release` | threads and loop at the grain of critical sections |
| `FrameQueue` | what the buffer promises | abstract: a bounded lossy FIFO queue, in capture order per camera |
| `CaptureWorker` | `ingestion/capture.py` | one capture thread and `stop`, at every access to the shared handle |
| `PipelineRuntime` | `runtime.py` loop, `synchronizer.py`, delivery by the workers | composes the loop with an atomic frame buffer, without its slots |
| `IngressScheduler` | `ingress_scheduler.py`, `temporal_buffer.py` | the ingress of one inference worker |
| `Mailboxes` | what the latest-only queue promises | abstract: a bounded FIFO queue of one mailbox per person |
| `InferenceWorker` | `orchestrator.py`, `triton_client.py`, `batch_builder.py`, the overlay cache | the consume loop, its connection and its sinks, to the removal of the camera |
| `InferenceControl` | camera and control requests, refreshes of `runtime.py`, `manager.py` | composes HTTP requests, database rows, the loop and the workers |
| `IdentityLifecycle` | `identity/service.py`, `milvus_store.py`, `async_blocking.py` | assignments, the worker thread of a batch, the collection, the events |
| `TrackEvents` | what the subscribers of `identity.events` may rely on | abstract: what may be said of a track next |
| `WebSockets` | `websocket_manager.py`, `stream_routes.py` | clients, connections, one path for each task that broadcasts |
| `PeerConnections` | `webrtc_routes.py`, `services/webrtc/` | offers, callbacks, cleanup, tracks |
| `LiveDelivery` | `OutputDispatcher`, `updates.py`, `_broadcast_ws` of the orchestrator, Kafka consumer | composes `WebSockets` and `PeerConnections` with the bundles of the pipeline, the workers and the consumer |
| `Lifespan` | `main.py`, `start`, `stop` and `run_forever` of `runtime.py` | composes the lifespan and the pipeline task, from await to await |
| `MC...` (`PipelineRuntime`, `IngressScheduler`, `IdentityLifecycle`, `LiveDelivery`) | - | constants and symmetry for TLC |
| `...Proofs` (of `FrameBuffer`, `PipelineRuntime`, `IngressScheduler`, `InferenceControl`, `InferenceWorker`, `IdentityLifecycle`, `Lifespan`) and `EdgeProofs` (of `CaptureWorker` and `LiveDelivery`) | - | theorems |

Some modules contain operators that no specification uses (`StopUnlessStopped`,
`LeaveTask`, `EvictUnchecked`, ...): each is a faulty variant of a definition that
follows it, and `PROJECT.json` lists under "mutants" which property detects it.

### FrameBuffer

Each capture thread has a program counter `pc[c]` and the local variables of
`publish` (`pkt[c]`, `victim[c]`); `cpc`, `held`, `doomed` and `drained` are those
of the loop. One action is one critical section, under the mutex of the
`queue.Queue` or the condition of the store, or one access outside the locks:
`Acquire`, `EvictForSlot`, `ReleaseForSlot`, `Reacquire` are `_prepare_packet`;
`Write` is the copy of the pixels; `Put`, `BlockingPut`, `EvictForSpace`,
`ReleaseForSpace`, `RetryPut`, `ReleaseOwn` are the three drop policies;
`Wakeup` is `call_soon_threadsafe(event.set)`, whose callback is `RunSetCall`.
`TryGet`, `ClearEvent`, `Recheck`, `ResumeGet` are the loop of `get`; `StartGet` enters
it when the packet of the last one has been handed to the synchronizer, which retains
the newest packet of each camera and has the older one released (`OnePerCamera`,
`Superseded`). `Close` is
the drain, `ClearStore` the locked part of the store's `close` and `Unlink` the
rest. A thread parked in a `Condition` has the counter `awaitSlot` or `awaitSpace`
and leaves it only when it is notified.

Abstractions: pixels are the frame (camera and number) that was last copied; the
deque of available slots is a set, so `acquire` may return any of them; the early
return for a frame of another shape is left out, since the capture worker
normalises every frame to the configured shape.

### CaptureWorker

`tpc` is where the thread is, `spc` where `stop` is. Both use `_capture` without a
lock, so an action reads or writes it once: the thread's check, `Open`, `Read`,
`Publish`, `Failed`, `Release` and `Forget`, and `Stop`, `Join` (which may time
out), `StopCheck`, `StopRelease`, `StopForget`. `open` counts the handles that
nobody has released; `broken` are those of a session that has ended with a failure
of the source. Left out: how long a backoff lasts, and what a frame holds. The
specification is `CaptureSpec`, with `CaptureInit` and `CaptureNext`, so that
`EdgeProofs` can extend the module beside `LiveDelivery`.

### PipelineRuntime

`lpc` is where `run_forever` is: refreshing (`ReadRecords` is the awaited query,
`ApplyRecords` what follows), awaiting a frame, or processing a bundle.
`ApplyRecords` merges the removals and additions of one refresh, `_remove_camera`
included: no other step of the loop reads what lies between. `publish` is one
step, under the default policy. A stopped worker may become a zombie, whose read
returns after the join gave up; it publishes one more frame. Time is a clock of
`Period` ticks in which camera `c` delivers at `Phase[c]`; timestamps are ages that
stop growing beyond every threshold, which keeps the model finite without
bounding the run. `_process_bundle` is one step, from the bundle to its end; where
it is suspended, and what may happen meanwhile, is the subject of `Lifespan`. The
filter of `discard_camera` is stated as an enumeration of the positions that stay
(`Enumerations`), about which the provers can reason.

### IngressScheduler

`ingest` has no await and is one action, `Ingest`, with the window (`WindowWith`),
the gate, the cooldown and `put_latest`. `Take` is a round of `get`; the batch it
returns is being processed until `Finish`, while samples keep arriving. The crop
and the detection are one Boolean, `fit`. The time of a sample and the monotonic
time of the cooldown are the same clock.

### InferenceWorker

`pc` is where the consume loop is suspended: in `get`, in a connection attempt, in
a request to Triton, in the reset of the client after a failed request, or in the
deliveries of a result. `Get` is everything from the batch to the next await: the
tensors (`Build`, which may fail), `ensure_connected` with its interval. `Infer` and
`InferErrors`, `InferFails`, `Reset` are the answers of `infer`. `channels` counts
the gRPC channels that are open, whoever knows of them. A delivery is one sink, one
score and one message; `Deliver` and `DeliveryFails` end them in any order across
sinks, as `gather` does, and an alert is due after its result. `ClearCamera`,
`CancelTask`, `Cancelled`, `CloseTriton` are the removal of the camera, in the order
of `_remove_camera` and of `close`. Scores are two
levels: smoothing yields a level between the raw one and the last one.

### InferenceControl

`present` and `row` are the database: a camera row joined with the metadata of its
stream, which one query reads; `known` are the ids that were ever used, since a new
camera gets a new one. A row has a source when it has a direct URL or a host with
its path (`SourceOf`). POST `/cameras` is `Create`. A request of PUT `/cameras` or
PATCH `/streams` is a `Read` and, after an await, a `Write` of every field of its
table, changed or as it was read, if the merged camera passes the check of the
service (`Accepted`); DELETE deletes the row and then stops the worker
(`StopDeleted`). The loop is one process: `ReadForRefresh` and `ReadForSync` are the
awaited queries, `RemoveCamera` and `DropWorker` the parts of `_remove_camera` before
and after its first await, `Disable` and `EndDisable` a stop of a worker and what
follows its `close`, `Enable` and `Connected` a start of a worker and what follows
its connection to Triton. The worker of a camera is the strategy it runs:
`_orchestrators` and `_schedulers` are changed together, with no await in between. An
await that may not suspend is modelled as one that does. Left out: the setting that
turns inference off for all cameras (the model is of a service where it is on), and
the probe of POST `/cameras/{id}/validate`, whose result no other part reads.

### IdentityLifecycle and TrackEvents

A bundle with embeddings starts a worker thread (`Resolve`), whose calls to Milvus
are the actions `Search`, `Lookup` and `Upsert`; each of them may fail (`CallFails`,
at the calls in `Faults`; a failing lookup is swallowed), and the thread goes on when
its task has been cancelled. `Apply` is `assign` after the await, with the rest of
`_process_bundle` up to the publication of the events (`Conclude`), which the pipeline
awaits until `Published`; `NothingToResolve` is a bundle without an embedding; `Tick`
ages the assignments. An embedding is a look; `Near` are the pairs that pass the
threshold although they differ.

Cameras are removed by two tasks. The pipeline's removes them in `Refresh` and in its
own `stop` (`StartStop`, then `Visit("task", c)` one camera after the other, and
`Close`), to which `LeaveLoop` and `Raise` lead. The lifespan's `stop`
(`BeginShutdown`, `Visit("lifespan", c)`, `Close`) runs wherever the task is suspended,
in `assign` and in the publication included; then `Cancel` cancels the task wherever
it is. `Remove` is `_remove_camera`: the tracks of the camera expire, and their events
are published on their own. When a frame of the bundle is of a camera that has been
removed meanwhile (`broken`), the task fails after `assign` and before it publishes
anything (runtime.py:534): the assignments have changed and the events are `Dropped`.

An event is a message: `flight` are those under way, each with the one who waits for
it; `Deliver` is its arrival, `Lose` a failure of Kafka, which nobody retries, and a
cancellation loses what the task was publishing. `told` is what the subscribers know.
`trust` says how far they may: "sure" while every event of the track has arrived in its
order, "lost" after one that has not, until the next one arrives, and "crossed" once two
events of the track have been under way together.

`TrackEvents` is the abstract specification: of a track one may say "created" if the
subscribers know nothing of it, "updated" with the identity they know, "merged" from
it to another one, "expired" of it, and one thing at a time; a message that arrives
makes sense to a subscriber who can be "sure".

### WebSockets, PeerConnections and LiveDelivery

`WebSockets` has the route of a client (`Connect`, `Disconnect`) and the broadcasts.
A path is a task that broadcasts one message at a time, with the camera the message
is about: the publishers of the tracks and of the frame of each camera of a bundle,
the delivery of each result of an inference worker, with its alert, and the Kafka
consumer. All of them run concurrently, up to `MaxSending` at once. A broadcast is a
snapshot under the lock (`Broadcast`), a send per socket in any order (`Sent`,
`SendFails` after a timeout or on a socket that is gone), and the eviction of those that
failed (`Evict`); `Abandon` is the cancellation of the tasks that broadcast. A client is
"steady" until it is "slow" for the first time; it may read again ("back"), leave
("gone"), and is "closed" by its route. `gauge` is the number in the metrics, `owed` a
history variable: which steady clients have still to get the message of a path.

`PeerConnections` has the offer at its awaits (`Refuse`, `Create`, `Answer`,
`AnswerFails`), the state of the connection that the library changes at any time, its
callback, `Cleanup` and the `Close` it awaits, and the frames pushed to the tracks.

`LiveDelivery` composes both. `Dispatch` hands out a bundle, for all its cameras at
once: the frames are pushed to the viewers, and `parts` are the broadcasts that
`gather` is about to start (`Begin`); the next bundle waits for the last one.
`Infer` does the same with the results of a batch of a worker, `Alert` follows its
result, and `CloseWorker` cancels the worker's task wherever it is. `Consume` broadcasts
a message from Kafka. Kafka is external: the consumer may be handed a message about
any camera at any time, or never again, so it makes no difference whether a publication
to Kafka fails or the consumer's loop has ended. What the fan-out hands to the ingress
is an `Ingest` of `IngressScheduler`, which may happen or not; the fan-out catches the
failures of each publisher, so that none keeps the others from their part.

### Lifespan

`pc["L"]` is where the lifespan is, `pc["P"]` where the pipeline task is. One runs
only while the other waits (`Turn`), which matters: a lifespan in `stop` keeps the
loop until the first await of `_remove_camera`. `Startup` are the steps before
`yield`, `Shutdown` those of the finally block; `Pipeline` is `run_forever` with its
start, both refreshes, a bundle at its two awaits, and its own `stop`, which may be
under way at the same time as the one of the lifespan; `Removal(x)` is
`_remove_camera`, run by either. `Cancelled` raises the `CancelledError` at the await
where the task is; `close` of a worker may drop it (`swallowed`). `opened` is what has been opened
and not closed, `outcome` how the task ended.

## 3. Runs

| Run | Instance | Shows |
|---|---|---|
| `frame_buffer` | 2 cameras, all three policies, queue of 2, 3 slots, 2 frames each | slots neither shared nor lost, frames not overwritten, no lost wake-up on any of the three conditions, never all waiting for each other, `FrameBuffer` implements `FrameQueue` |
| `frame_buffer_blocking` | 2 cameras, policy `block`, queue of 1, 3 slots, 2 frames each | a publisher that waits for a slot or for space resumes, although the loop retains a packet per camera |
| `capture` | 2 failures of the source, 3 handles | one session at a time; `stop` takes effect; the thread follows it |
| `pipeline` | 2 cameras one tick apart, queue of 2, 2 changes | late frames, edits, failures: sync group, bundles, progress of healthy cameras, convergence to the records |
| `pipeline_idle` (violation) | no active camera at first | a camera registered later is not started |
| `ingress` | 3 persons, 2 places, windows of 2 | the queue is consistent and implements `Mailboxes`; the freshest batch waits; batches are coherent |
| `inference_worker` | 1 track, 2 batches of 1 score, an interval of 2, every fault | no orphaned channel, ordered and independent sinks, the connection comes back |
| `inference_control` | 1 camera, 2 requests under way, 3 requests of every kind | rows keep a source; no worker is replaced by another; recorded controls are what the workers do; workers follow the rows |
| `identity` | 2 cameras with 1 track each, 1 look, 2 identities, 2 batches; lookups, writes and Kafka fail; the shutdown comes at any time | `IdentityLifecycle` implements `TrackEvents`; announced identities are stored, lose their first time by a failed lookup only, and are doubled by one batch only; stops and bundles expire tracks |
| `sessions` | 1 socket, 1 offer, 2 cameras, one with frames and one with a worker, 1 bundle, 2 broadcasts at once | a client that has always read misses nothing, nobody is counted out twice, no connection, track or socket is left behind, what is gone is forgotten |
| `shutdown` | 2 cameras, failures at start and of the task | the pipeline works with what is open; a shutdown that ends leaves nothing; it ends |
| `shutdown_abort` (violation) | 2 cameras, no failure | the pipeline task ends with a `KeyError`, which aborts the rest of the shutdown |

### Bounds, and why they are enough

- *Two capture threads.* Every conflict in `publish` is between two publishers, or
  a publisher and the loop; with a queue of two and a pool of three, both fill
  up, and one thread can evict the other's packet while the other evicts a third.
- `MaxFrames` frames per thread: with two each, the queue and the pool overflow and
  a slot is reused. It bounds the captures, not what is done with a frame.
- *Queue of one, three slots* in the blocking run: a publisher waits for space while
  a slot is free, and for a slot while there is space, since the loop retains two.
- `MaxFailures` of the source and `MaxHandles`: a second session fails while the
  first handle may still be held; a handle beyond the bound would have to be lost.
- `MaxDelay`: frames wait at most that many ticks for the loop, the assumption that
  the loop keeps up; `MaxChanges`: edits, failures and recoveries in a behaviour.
  Liveness is about what holds after the last of them.
- `Period = 4`, `Tolerance = 1`, `Window = 4`: the proportions of the defaults
  (100 ms at 10 fps, 40 ms, a window that covers a period), at one tick of 25 ms
  rounded down. `NearPhase` puts the cameras within the tolerance, `FarPhase` not.
- `MaxSlots` is greater than the number of cameras, which `NeverAllWaiting` and
  `BlockedPublisherResumes` need: the synchronizer retains a slot per camera, and
  `MCFrameBufferRetained.cfg` shows what happens otherwise. It takes three per camera
  until a publisher always finds a slot (`PublisherNeverStarved`): one retained, one
  carried by the camera's thread, and one just taken out or evicted. The code has a
  default of 32 and compares it with neither.
- `MaxTime` ticks and one sample of a person per tick in the ingress: enough for a
  window to fill, be evicted, and be reset by a gap, and for a cooldown to run out.
  Persons are interchangeable, so the run uses symmetry; it checks no liveness.
- `MaxBatches` results are recorded in `sent`; the loop goes on without recording
  more. Two show an order; the proofs are for every number. `MaxScores` is one in
  the run and two in `MCInferenceDelivery.cfg`.
- `MaxEdits` requests in the runs of `InferenceControl`: with three, a camera can be
  switched off or deleted while its worker connects, and be edited again while that
  worker is closed, and two requests can clear one part of its source each.
  `EditedFields` are the fields the requests of a run change, `MaxFields` how many at
  a time. One camera is enough for what two requests and the loop do to one worker;
  the loop visits cameras one after the other, which `MCInferenceFollows.cfg` covers.
- Identities: a second batch is needed for an identity that is found again, two
  tracks for two of one look in a batch, which is stored under two identities;
  a track may then be merged from one to the other. Two persons who look different are
  in `MCIdentityLooks.cfg`. `Ttl = 1` lets an assignment expire between two bundles.
- `MaxBundles`, `MaxClients`, `MaxSending`: a bundle is in all its stages while a client
  and a viewer come and go in every order, and any two broadcasts run at once: each
  step of `WebSockets` is of one client or one broadcast, and two can disagree about
  one client. Two clients are in `MCLiveSessions.cfg`, bundles of two cameras in
  `MCLiveViewers.cfg`; the theorems are for any number of each.
- Two cameras in `Lifespan`: one is removed by each of the two coroutines.

### Further instances

Each `.cfg` below checks one property that does not hold, or an instance beside a
run. They are kept for a reader who wants to see the behaviour, and are started as
`tlc -config <file> <module>`.

| Configuration | Module | What TLC finds |
|---|---|---|
| `MCFrameBufferPool.cfg` | `FrameBuffer` | `PublisherNeverStarved` holds for one camera and three slots |
| `MCFrameBufferRetained.cfg` | `FrameBuffer` | `BlockedPublisherResumes` is violated with as many slots as cameras: all of them may be retained, for ever |
| `MCFrameBufferClose.cfg` | `FrameBuffer` | `CloseReclaimsSegments` is violated: a thread that outlives its join acquires a slot in the closed store, and a segment that is still viewed ends the loop over the others |
| `MCPipelinePhase.cfg` | `MCPipelineRuntime` | `HealthyCameraProcessed` is violated by two healthy cameras half a period apart: only latest frames are compared, so no bundle is ever emitted |
| `MCIngressCooldown.cfg` | `IngressScheduler` | `CooldownFollowsEnqueue` is violated: a refused batch starts the cooldown |
| `MCInferenceToggle.cfg` | `InferenceControl` | `WorkersFollowRows` is violated: a control refresh that misses a camera forgets its control and leaves its worker |
| `MCInferenceFollows.cfg` | `InferenceControl` | `WorkersFollowRows` holds for two cameras when no request changes a `status` |
| `MCInferenceDelivery.cfg` | `InferenceWorker` | `SinksIndependent` holds with answers of two scores |
| `MCInferenceClose.cfg` | `InferenceWorker` | `CloseReleasesTriton` is violated: closing a worker while it connects loses the channel (docstring of `close`, orchestrator.py:148) |
| `MCInferenceOverlay.cfg` | `InferenceWorker` | `RemovedCameraHasNoEntries` is violated: a result that arrives during the removal puts an entry back into the cache (README.md:315) |
| `MCIdentityLooks.cfg` | `MCIdentityLifecycle` | the safety properties of `identity` hold for two persons who look different, with four identities |
| `MCIdentityFirstSeen.cfg` | `MCIdentityLifecycle` | `FirstSeenPreserved` is violated if a lookup fails: the error is swallowed and the upsert writes a new time |
| `MCIdentityClose.cfg` | `MCIdentityLifecycle` | `ClosedForGood` is violated: the thread of a cancelled batch opens the client that `close` has closed; or nobody closes it, when the task's `stop` is waiting with the last camera, so that the lifespan's returns at once and the task is cancelled (milvus_store.py:481) |
| `MCLifespanHang.cfg` | `Lifespan` | `ShutdownAlwaysEnds` is violated: a worker's `close` drops the cancellation and the task goes on to wait for a frame |
| `MCLiveSessions.cfg` | `MCLiveDelivery` | `NothingMissed` and `GaugeNeverUndercounts` hold for two clients |
| `MCLiveViewers.cfg` | `MCLiveDelivery` | `NothingLeaked` and `GoneForgotten` hold for bundles of one or two cameras |
| `MCLiveGauge.cfg` | `MCLiveDelivery` | `GaugeIsConnections` is violated: a client that asks for no camera is counted in and never out |
| `MCLiveReaders.cfg` | `MCLiveDelivery` | `ReadersRegistered` is violated: a client that was slow once is forgotten with its socket open, and hears nothing more although it reads again (websocket_manager.py:34) |
| `MCLiveReferenced.cfg` | `MCLiveDelivery` | `ReferencedUntilClosed` is violated: a cleanup drops the last reference to a peer connection before its close has ended (webrtc_routes.py 26-27) |

### Fairness

Nothing is assumed about users, clients, failures or recoveries, unless it is said here.

- `FrameBuffer`: threads which can run do run (the operating system schedules them),
  a callback scheduled on the loop is run, and the loop calls `get` again and again,
  which is what `run_forever` does. A packet is released once a newer one of its camera
  has been delivered, and need not be before: the synchronizer retains it. `StartGet` needs
  strong fairness: it competes with `Discard` in the model, and the code calls it
  again after every refresh.
- `CaptureWorker`: the thread and `stop` go on, and a source that has failed recovers
  at last. `Stop` itself need not happen.
- `PipelineRuntime`: the clock advances, live sources deliver, the loop is scheduled.
- `InferenceWorker`: the consume loop goes on (a request has a timeout), time passes,
  and the ingress has a batch again and again. That Triton stays up is a premise of
  `ConnectionResumes`, not an assumption.
- `InferenceControl`: both refreshes come round again and again (strongly fair, since
  each leaves the other disabled while it runs), what the loop awaits returns, and a
  request under way is finished: timers of 30 and 5 seconds, bounded calls, the
  request tasks of the server. That the loop itself does not come round without
  frames is the finding of `pipeline_idle`.
- `IdentityLifecycle`: the thread of a batch and the task go on, messages arrive or are
  lost, and time passes. That bundles keep being processed is a premise of
  `GoneTracksExpire`, not an assumption: expiry is driven by bundles, as the hazard says.
- `LiveDelivery`: the route of a client that has left ends, and the handlers of a peer
  connection run. Of the broadcasts nothing is assumed.
- `Lifespan`: the event loop runs a coroutine that is ready, and awaits return.
  `TakeFrame /\ bundle' # {}` is strongly fair: cameras deliver and bundles are
  complete again and again, so that the pipeline, which awaits in between, does not
  keep the lifespan from running. The lifespan is strongly fair, since the pipeline
  may be computing whenever it would go on.

`CHECK_DEADLOCK FALSE` is set where the instance may stop: when every thread has
published `MaxFrames` frames, the last tick has passed, the worker or the process
has ended, or the last client has left. The runs of `PipelineRuntime` and
`InferenceControl` check deadlock.

### Findings

1. *An idle service stays idle* (run `pipeline_idle`). Without an active camera the
   loop waits in `get`, where no refresh is made; a camera registered then is started
   by a restart only.
2. *The shutdown may be aborted* (run `shutdown_abort`). A bundle is being assigned
   when `stop` removes its camera; the task resumes with a `KeyError`, ends, and its
   exception is raised again where the lifespan awaits it. The frame buffer, the
   inference manager, Kafka, metrics and the database pool are not stopped.

`PROJECT.json` quotes the statements of the repository they contradict. The further
instances above show the other cases in which the code does not do what one would
expect; where a document says otherwise the property quotes it. Two of them are plain
disagreements with a document:

- "Original `first_seen_ts` is preserved for matched identities" (README.md:310). A
  lookup that fails is passed over (milvus_store.py:373), and the record is written back
  with a new time (`MCIdentityFirstSeen.cfg`). `FirstSeenLostOnlyByFailedLookup`, which
  the run `identity` checks with failing lookups, says that nothing else does it.
- "Current number of open websocket subscriptions." (metrics.py:251; "WebSocket
  connection count", docs/observability.md:68). A client that asks for no camera is
  stored as `None`, and `pop(...) is not None` takes it for one that is not registered
  (websocket_manager.py:38, 87): the gauge grows with each of them that leaves
  (`MCLiveGauge.cfg`). `GaugeNeverUndercounts` says that it errs in no other direction.

## 4. Proofs

Each `...Proofs` module proves properties of its module for every value of the
constants, from the assumptions the module names (numbers are naturals, `None` is
none of the values, there is at least one camera and one place in a queue, the cameras
or sockets that are counted are finitely many, ...). The
scheme is the same everywhere: an invariant that is inductive (`Init => IInv`,
`IInv /\ [Next]_vars => IInv'`), tried with TLC on a small instance first,
and the theorem from it by a temporal step. What follows says what the inductive
invariants add to the properties, and why they are needed.

- `FrameBufferProofs` proves every property that the run `frame_buffer` checks, for
  any number of cameras, slots and frames, any capacity, every drop policy, and with or
  without shared memory. `TypeCorrect` is inductive; every action is taken apart into
  the helpers it is built from. `WakeupNeverLost` needs, for the event of the loop,
  `ArmedInGet`: inside `get` the event exists and the loop is cached, so a publisher
  that has queued a frame does schedule its `event.set`. For the two conditions of the
  publishers the property itself is not inductive: a notification wakes one thread, and
  with two free slots one thread on its way to take one is not enough. `WaitersInv`
  counts: while a thread is parked there are no more free slots than threads on their
  way to take one, and no more places in the queue than threads on their way to fill
  one. `EnoughKept`, `EnoughTaken` and `EnoughNotified` say what a step that leaves the
  condition alone, takes from it or notifies it does to such a count. `NeverAllWait` has
  `StoreInv`: until `close` clears the store every slot is pooled or in use, and a
  thread is parked for a slot only where there are `MaxSlots` of them; with
  `OwnershipInv`, below, a slot that is not free then has an owner, and with `WaitersInv`
  a full queue is what a parked thread waits for. Its premise is a store with more slots
  than cameras. `SlotsEnough` needs `RetainedInv`, that the loop retains one packet of
  each camera and the one it has just taken out, and counts: with `OwnershipInv`, of the
  slots in use each camera accounts for three at most when nothing is queued.
  `SlotsNeverShared` and
  `SlotsNeverLost` say nothing of which owner a step takes a slot from;
  `OwnershipInv` adds `SlotInv`, that the slots of the queue, of the publishers, of
  the evictors, of the packets delivered and taken out, and of the pool are six
  disjoint sets, each slot once in its set, and that a slot in use is in one of the
  first five; `EmptyHanded`, that a thread outside `publish` carries no slot; and
  `DoomedInside`. `PublishEffect` reduces the thirteen actions of a publisher to six
  effects on these sets. `FramesIntact` extends `FrameIntegrity` to the packets that
  threads carry between the copy and the queue, and rests on `OwnershipInv`: the only
  slot a step writes to is a new one or the writer's own. `BufferImplementsQueue` is the
  refinement: each action offers, accepts, loses or takes frames, drops those of one
  camera or all, or hides from `FrameQueue` (`PublishFrames`, `LoopFrames`), and each of
  these is a step of the abstract queue or none (`EffectIsQueueStep`). It needs the
  types and `OwnCamera`: a packet names the camera whose thread made it. From the same
  effects on the queue `CaptureOrderKept` says what the refinement leaves open, which
  frames are inside the threads and the loop: of each camera, what was taken out, by
  `get` or by a publisher that evicts, is older than all that waits, and that is older
  than what is being offered. So an evicted frame is older than every frame of its
  camera that stays, whichever thread evicts it; that the new frame itself may be lost,
  since the place may be taken again, is not excluded.
- `EdgeProofs`, for any sockets, peers, cameras, workers, bundles and broadcasts under
  way. Of `LiveDelivery` it proves `DeliveryInv`, of a half for the sockets and a half for
  the viewers, each with its types. `SocketsInv`: a client that is owed a message is
  steady and registered, and the message is about to be broadcast or is still being
  sent to it; what is registered has a route. `GaugeDrift`: the gauge is the number of
  registered clients and of those without a camera that have left (`Left`), which is
  inductive once a step forgets a registered socket or leaves the registry alone
  (`ForgetCounts`). `PeersInv`: a connection is registered, about to be closed, or over,
  and was made by an offer that found its camera. `FramesInv`: the registry caches the
  last frame of each camera and every viewer has it (`LastOf`). `NothingEverMissed`,
  `GaugeNeverTooLow`, `LastFrameAlwaysShown` and `NothingEverLeaked` follow. Of `CaptureWorker` it proves
  `CaptureInv`, what each place of the thread and of `stop` relies on. `ThreadAlone`:
  until `stop` touches the handle the thread is alone with it, opens one only if it has
  none and forgets only what it has released. `Flagged`: the flag is down once `stop`
  has begun. `StopAlone`: after a join that saw the thread end, `stop` is alone with the
  handle. `LastFrame`: a thread that has published after `stop` looks at the flag next.
  `SessionsNeverPileUp` and `StopAlwaysTakesEffect` follow.
- `PipelineRuntimeProofs`, for any cameras, phases and thresholds: `GroupAlwaysActive`
  and `BundlesAlwaysAligned` need each other and the types; two ages do not come to
  lie further apart as time passes (`Older`).
- `IngressSchedulerProofs`: `TypeCorrect`, where the work is in `WindowWithType`;
  `QueueAlwaysConsistent`, one lemma for each operation of the queue;
  `FreshestAlwaysWaits`, by `IngestDispatches`; `BatchesAlwaysCoherent`, which needs
  `WindowInv` (a batch is a copy of a window, so every window is coherent and its
  last sample is as old as `_last_seen` says); and `QueueImplementsMailboxes`, the
  refinement: every `put_latest` replaces a mailbox, opens one at the end or is
  refused, and `get` delivers the first. `PersonsInTurn` is an action property of the
  same queue: a step keeps the place of everybody who waits, or moves everybody up by
  one and serves the first.
- `InferenceControlProofs`, for any number of cameras, requests under way and requests
  served: `TypeCorrect` and `WorkersNeverReplaced`, from `SuspensionInv`, which says
  for each await of the loop what it may rely on when it resumes; `SourcesKept`, from
  `SourcesInv`, which extends it to the rows the loop has read: an update writes
  every field of its table, so what is written is what was checked, although another
  update may be lost;
  `ControlsDescribeWorkers`, from `AgreementInv`: a recorded control is what the worker
  does except while the worker is being closed, a request that stops a worker has
  deleted its row before, and an id that was deleted is not used again (`known`).
- `InferenceWorkerProofs`: `TypeCorrect`; `ChannelsAlwaysOwned`, from `ConnectionInv`:
  there is at most one channel, and in a request the client holds it;
  `DeliveriesInOrder`, from `DueInv`: what is due is of the last batch, one delivery of
  each score to each sink at a time, and nothing of it has been sent but the result
  before its alert; `SinksAlwaysIndependent`, from `FanInv`: every delivery a result
  calls for has ended or is due.
- `IdentityLifecycleProofs`, for any looks, ids, lifetimes, batches and faults:
  `TypeCorrect` with `WorkerInv`, what the worker thread has found out at each of its
  steps; `EventsMakeSense`, the refinement of `TrackEvents`, from `AgreeInv`: while a
  track is trusted at most one event of it is under way, which makes sense to the
  subscribers, and if there is none they know the assignment. `SentAgrees`,
  `SentEmits` and `DroppedAgrees` say what a publication and a loss do to it.
  `StopAlwaysExpiresTracks` needs `BundleInv`, that the events of a bundle are under way
  only while the task waits for them, and `CameraInv`: a track is assigned only while its camera is active, unless
  its events are not trusted. `AnnouncedAlwaysStored`, from `StoredInv`; `FirstSeenKept`,
  from `PayloadInv`, what the payloads about to be upserted keep of the records, lookup
  by lookup; `DuplicatesFromOneBatch`, from `LookInv`, under the premise that no two
  different looks pass the threshold (without it a person may be taken for another one,
  and the property is false).
- `LifespanProofs`, for any cameras and either fault: `PlaceInv` says which places of
  the lifespan and of the task go together, in each job of the task; `OpenInv` what is
  open at each place; `CameraInv` that an active camera a stop has still to remove is
  in the list of the coroutine that stops; `MilvusInv` that the client of Milvus is open
  only while somebody is there to close it. `AlwaysWorksWithOpen` and
  `AlwaysStoppedCleanly` follow.

Model-checked only: liveness, since the temporal prover cannot reason about the fairness
of actions: `BlockedPublisherResumes`, `ThreadFollowsStop`, `HealthyCameraProcessed`,
`ReconcilesWhileFramesFlow`, `ConnectionResumes`, `SteadyWorkersFollowRows`,
`GoneTracksExpire`, `GoneForgotten` and `ShutdownEnds`. Of the first, the safety part is
proved: `WakeupNeverLost` and `NeverAllWait` exclude the states from which a blocked
publisher could not go on. Every invariant, action property and refinement that a
passing run checks is a theorem. The further instances of section 3 and the two runs
that expect a violation refute their properties on one instance, which is enough.

## 5. Not modelled

- Numerical code: detection, tracking, ReID networks, motion, stabilisation,
  calibration, the smoothing and drawing of boxes. No control to check.
- Formatting, logging, metrics collectors, SQL, configuration, schemas: data and I/O.
- The shared embedding service (nothing constructs it), `evict_stale` and `reset` of
  the temporal buffer, `resolve_identity` and `refresh_identity` (no caller in the
  service), and `backend/main.py` (commented out as a whole).
- The probe of POST `/cameras/{id}/validate`: it writes what it found into the row,
  which no other part reads. Pages of a listing: 100 rows fit on one.
- The frontend, another process in TypeScript: the service's side of its sockets and
  peer connections is in `LiveDelivery`.
- The shutdown's `close_all_peer_connections`, connection by connection: in `Lifespan` it
  is one step.
- The table's own `rtsp_source_check`: `RowsKeepSource` is about what the service writes.
  The table refuses a row whose parts are null, but not one whose URL is empty.
- Inside the libraries: gRPC, aiortc, Kafka, Milvus and asyncpg are modelled by how the
  code uses them and by the failures it handles.

## 6. Plan

What is left, in the order of its worth:

1. The conditions under which the statements that the further instances refute do hold,
   such as `CloseReclaimsSegments` when no publisher outlives its join and no packet is
   viewed, as invariants with their proofs.
2. `Lifespan` composed with requests that are served during the shutdown.
3. The cleanup of the peer connections at the shutdown, in `PeerConnections`.
4. `RealtimeClient`: sockets, timers and caches of the frontend.
