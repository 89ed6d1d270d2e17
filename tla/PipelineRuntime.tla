-------------------------- MODULE PipelineRuntime --------------------------
(***************************************************************************)
(* The loop of OpenCvPipelineRuntime with what it owns: the set of active  *)
(* cameras it reconciles with PostgreSQL, the capture workers, the frame   *)
(* buffer, and the synchronizer whose group follows the cameras that have  *)
(* been heard of lately (backend/src/opencv_pipeline/runtime.py, with      *)
(* buffering/synchronizer.py).                                             *)
(*                                                                         *)
(* The buffer is the one FrameBuffer models, under its default policy:     *)
(* publish is a single step here, and the slots of the pool are left to    *)
(* FrameBuffer (PublisherNeverStarved), but that fewer slots than places   *)
(* bound the queue as the places do, by evicting its oldest packet.        *)
(*                                                                         *)
(* Time is a clock of Period ticks; camera c delivers a frame at tick      *)
(* Phase[c] of every period.  A timestamp is represented by its age in     *)
(* ticks, which stops growing at Cap, beyond every threshold.              *)
(***************************************************************************)
EXTENDS Integers, Sequences, FiniteSets, Functions

CONSTANTS
  Cameras,
  Period,      (* Ticks between two frames of a camera (1 / target_fps).   *)
  Phase,       (* The tick of the period at which each camera delivers.    *)
  Tolerance,   (* opencv_pipeline_sync_tolerance_ms, in ticks.             *)
  Window,      (* Ticks a camera may be silent and stay in the sync group. *)
  QueueSize,   (* Packets that may wait: opencv_pipeline_frame_buffer_size, *)
               (* or the slots left for the queue where these are fewer.   *)
  MaxDelay,    (* Bound of the model: ticks a frame may wait for the loop. *)
  MaxChanges,  (* Bound of the model: changes of records and of sources.   *)
  InitialCameras  (* The records that are active when the service starts.  *)

ASSUME CamerasAssumption == IsFiniteSet(Cameras) /\ InitialCameras \subseteq Cameras
ASSUME TimeAssumption ==
  /\ Period \in Nat \ {0} /\ Phase \in [Cameras -> 0 .. Period - 1]
  /\ Tolerance \in Nat /\ Window \in Nat /\ MaxDelay \in Nat /\ MaxChanges \in Nat
ASSUME CapacityAssumption == QueueSize \in Nat \ {0}

VARIABLES
  clock,    (* The tick of the period.                                     *)
  records,  (* Cameras whose record in PostgreSQL is active.               *)
  edited,   (* Cameras whose record has another source than their worker.  *)
  up,       (* Cameras whose source delivers frames.                       *)
  changes,  (* Changes made so far (bound of the model).                   *)
  active,   (* _active_cameras.                                            *)
  zombies,  (* Stopped workers whose thread outlived join(timeout=2.0).    *)
  shot,     (* Workers that have delivered the frame of this tick.         *)
  queue,    (* The frame buffer's queue.                                   *)
  latest,   (* The synchronizer's _latest: age of the packet it retains.   *)
  group,    (* _sync_camera_ids.                                           *)
  seen,     (* _last_frame_seen_at, as an age.                             *)
  due,      (* TRUE iff the refresh interval has elapsed.                  *)
  target,   (* What the refresh in progress has read of the records.       *)
  lpc,      (* Where run_forever is.                                       *)
  bundle    (* The cameras of the bundle being processed.                  *)

world == <<records, edited, up, changes>>
capture == <<clock, zombies, shot>>
sync == <<latest, group, seen>>
vars == <<world, capture, active, queue, sync, due, target, lpc, bundle>>

Cap == MaxDelay + Window + Tolerance + 1

Older(age) == IF age < Cap THEN age + 1 ELSE Cap

Init ==
  /\ clock = 0
  /\ records = InitialCameras
  /\ edited = {}
  /\ up \in SUBSET Cameras
  /\ changes = 0
  /\ active = {}
  /\ zombies = {}
  /\ shot = {}
  /\ queue = <<>>
  /\ latest = <<>>
  /\ group = {}
  /\ seen = <<>>
  /\ due = FALSE
  /\ target = [cams |-> {}, moved |-> {}]
  /\ lpc = "refresh"
  /\ bundle = {}

-----------------------------------------------------------------------------
(* The world: users edit records, sources fail and recover, time passes.   *)

Change ==
  /\ changes < MaxChanges
  /\ changes' = changes + 1
  /\ UNCHANGED <<capture, active, queue, sync, due, target, lpc, bundle>>

Activate(c) ==
  /\ c \notin records
  /\ records' = records \cup {c}
  /\ Change
  /\ UNCHANGED <<edited, up>>

Deactivate(c) ==
  /\ c \in records
  /\ records' = records \ {c}
  /\ Change
  /\ UNCHANGED <<edited, up>>

EditSource(c) ==
  /\ c \in active \ edited
  /\ edited' = edited \cup {c}
  /\ Change
  /\ UNCHANGED <<records, up>>

Fail(c) ==
  /\ c \in up
  /\ up' = up \ {c}
  /\ Change
  /\ UNCHANGED <<records, edited>>

Recover(c) ==
  /\ c \notin up
  /\ up' = up \cup {c}
  /\ Change
  /\ UNCHANGED <<records, edited>>

\* The workers that have a frame to deliver in this tick.
Delivering == {c \in active \cap up : Phase[c] = clock}

\* The sources are real time: no tick passes before their frames are published,
\* and none while the loop would fall more than MaxDelay behind.
Tick ==
  /\ Delivering \subseteq shot
  /\ \A i \in DOMAIN queue : queue[i].age < MaxDelay
  /\ clock' = (clock + 1) % Period
  /\ shot' = {}
  /\ queue' = [i \in DOMAIN queue |-> [queue[i] EXCEPT !.age = Older(@)]]
  /\ latest' = [c \in DOMAIN latest |-> Older(latest[c])]
  /\ seen' = [c \in DOMAIN seen |-> Older(seen[c])]
  /\ UNCHANGED <<world, active, zombies, group, due, target, lpc, bundle>>

\* 30 s have passed since the last refresh.
RefreshDue ==
  /\ ~due
  /\ due' = TRUE
  /\ UNCHANGED <<world, capture, active, queue, sync, target, lpc, bundle>>

-----------------------------------------------------------------------------
(* Capture threads.                                                        *)

\* FrameBuffer.publish under drop_oldest: a full buffer costs the oldest queued packet.
Published(c) ==
  LET packet == [cam |-> c, age |-> 0]
  IN  Append(IF Len(queue) < QueueSize THEN queue ELSE Tail(queue), packet)

\* One iteration of VideoCaptureWorker._run that reads a frame.
Capture(c) ==
  /\ c \in Delivering \ shot
  /\ shot' = shot \cup {c}
  /\ queue' = Published(c)
  /\ UNCHANGED <<world, clock, zombies, active, sync, due, target, lpc, bundle>>

\* A stopped worker whose read returned too late publishes one more frame.
PublishLate(c) ==
  /\ c \in zombies
  /\ zombies' = zombies \ {c}
  /\ queue' = Published(c)
  /\ UNCHANGED <<world, clock, shot, active, sync, due, target, lpc, bundle>>

-----------------------------------------------------------------------------
(* run_forever.                                                            *)

\* Fault: the interval is restarted but the refresh is not made.
LoopTopNeverRefreshes ==
  /\ lpc = "top"
  /\ lpc' = "get"
  /\ due' = FALSE
  /\ UNCHANGED <<world, capture, active, queue, sync, target, bundle>>

\* The top of the loop: refresh if the interval has elapsed, then await a frame.
LoopTop ==
  /\ lpc = "top"
  /\ lpc' = IF due THEN "refresh" ELSE "get"
  /\ due' = FALSE
  /\ UNCHANGED <<world, capture, active, queue, sync, target, bundle>>

\* Fault: every active camera is always in the sync group.
HealthyAlways(heard, now, current, cams) == cams

\* The cameras _refresh_sync_group calls healthy, for a reference time of age
\* `now`: the current one, and those heard of within the window before it.
Healthy(heard, now, current, cams) ==
  {c \in cams : c \in current \/ (c \in DOMAIN heard /\ heard[c] - now <= Window)}

\* A changed group means a new, empty synchronizer.
Retained(kept, newGroup) == IF newGroup = group THEN kept ELSE <<>>

\* refresh_cameras awaits the active records ...
ReadRecords ==
  /\ lpc = "refresh"
  /\ target' = [cams |-> records, moved |-> edited]
  /\ lpc' = "apply"
  /\ UNCHANGED <<world, capture, active, queue, sync, due, bundle>>

\* The positions S in their order, one by one (there is one enumeration).
Enumerations(S) ==
  {f \in [1 .. Cardinality(S) -> S] :
     /\ \A i, j \in DOMAIN f : i < j => f[i] < f[j]
     /\ \A s \in S : \E i \in DOMAIN f : f[i] = s}

\* Fault: only a started worker counts as a change of topology.
TopologyChangedOnAdd(gone, missing) == missing # {}

TopologyChanged(gone, missing) == gone # {} \/ missing # {}

\* ... and reconciles: it removes the cameras whose record is gone or has another
\* source (stop the worker, discard its frames, forget its state) and starts
\* workers for the missing ones.  A change recomputes the sync group.
ApplyRecords ==
  /\ lpc = "apply"
  /\ LET gone == {c \in active : c \notin target.cams \/ c \in target.moved}
         stay == active \ gone
         heard == Restrict(seen, DOMAIN seen \ gone)
         newGroup == IF TopologyChanged(gone, target.cams \ stay)
                     THEN Healthy(heard, 0, {}, stay \cup target.cams) ELSE group
     IN  /\ active' = stay \cup target.cams
         /\ \E late \in SUBSET gone : zombies' = zombies \cup late
         /\ shot' = shot \ gone
         /\ \E kept \in Enumerations({i \in DOMAIN queue : queue[i].cam \notin gone}) :
              queue' = [i \in DOMAIN kept |-> queue[kept[i]]]
         /\ seen' = heard
         /\ group' = newGroup
         /\ latest' = Retained(Restrict(latest, DOMAIN latest \ gone), newGroup)
  /\ edited' = edited \ target.moved
  /\ lpc' = "get"
  /\ UNCHANGED <<records, up, changes, clock, due, target, bundle>>

\* get returns a frame of a camera that is no longer active: drop it.
DropInactive ==
  /\ lpc = "get"
  /\ queue # <<>>
  /\ Head(queue).cam \notin active
  /\ queue' = Tail(queue)
  /\ lpc' = "top"
  /\ UNCHANGED <<world, capture, active, sync, due, target, bundle>>

\* Dictionary update d[k] = v.
Put(d, k, v) == [x \in DOMAIN d \cup {k} |-> IF x = k THEN v ELSE d[x]]

\* Fault: the span is never compared with the tolerance.
AlignedUnchecked(packets, cams) == cams \subseteq DOMAIN packets

\* Every camera of the group has a packet, and they span at most the tolerance.
Aligned(packets, cams) ==
  /\ cams \subseteq DOMAIN packets
  /\ \A c, d \in cams : packets[c] - packets[d] <= Tolerance

\* get returns a frame of an active camera: refresh the sync group, submit the
\* frame, and process the bundle if submit emits one.  (The test for bundles
\* that were emitted already never holds: the submitted frame is a new one.)
SubmitFrame ==
  /\ lpc = "get"
  /\ queue # <<>>
  /\ Head(queue).cam \in active
  /\ LET p == Head(queue)
         heard == Put(seen, p.cam, p.age)
         newGroup == Healthy(heard, p.age, {p.cam}, active)
         packets == Put(Retained(latest, newGroup), p.cam, p.age)
     IN  /\ seen' = heard
         /\ group' = newGroup
         /\ latest' = packets
         /\ IF Aligned(packets, newGroup)
            THEN lpc' = "process" /\ bundle' = newGroup
            ELSE lpc' = "top" /\ UNCHANGED bundle
  /\ queue' = Tail(queue)
  /\ UNCHANGED <<world, capture, active, due, target>>

\* _process_bundle returns; its packets stay retained by the synchronizer.
FinishBundle ==
  /\ lpc = "process"
  /\ lpc' = "top"
  /\ bundle' = {}
  /\ UNCHANGED <<world, capture, active, queue, sync, due, target>>

Loop ==
  \/ LoopTop \/ ReadRecords \/ ApplyRecords \/ DropInactive \/ SubmitFrame \/ FinishBundle

Next ==
  \/ \E c \in Cameras : Activate(c) \/ Deactivate(c) \/ EditSource(c) \/ Fail(c) \/ Recover(c)
  \/ Tick \/ RefreshDue
  \/ \E c \in Cameras : Capture(c) \/ PublishLate(c)
  \/ Loop

\* Time passes, the sources that are up deliver, the loop is scheduled.
Spec ==
  /\ Init /\ [][Next]_vars
  /\ WF_vars(Tick) /\ WF_vars(RefreshDue) /\ WF_vars(Loop)
  /\ \A c \in Cameras : WF_vars(Capture(c)) /\ WF_vars(PublishLate(c))

-----------------------------------------------------------------------------
(* Properties.                                                             *)

Ages == 0 .. Cap

\* Every variable has its type.
TypeOK ==
  /\ clock \in 0 .. Period - 1
  /\ records \subseteq Cameras /\ edited \subseteq Cameras /\ up \subseteq Cameras
  /\ changes \in 0 .. MaxChanges
  /\ active \subseteq Cameras /\ zombies \subseteq Cameras /\ shot \subseteq active
  /\ queue \in Seq([cam : Cameras, age : Ages]) /\ Len(queue) <= QueueSize
  /\ DOMAIN latest \subseteq Cameras /\ \A c \in DOMAIN latest : latest[c] \in Ages
  /\ DOMAIN seen \subseteq Cameras /\ \A c \in DOMAIN seen : seen[c] \in Ages
  /\ group \subseteq Cameras /\ bundle \subseteq Cameras
  /\ due \in BOOLEAN
  /\ target \in [cams : SUBSET Cameras, moved : SUBSET Cameras]
  /\ lpc \in {"refresh", "apply", "top", "get", "process"}

\* A camera that is no longer active leaves nothing behind in the synchronizer,
\* so that no later bundle can wait for it or contain it: late frames of stopped
\* workers and refreshes included (runtime.py 222-225, 292-336, 613-641).
SyncGroupActive == DOMAIN latest \subseteq group /\ group \subseteq active

\* The bundle being processed is the whole sync group, its packets have not been
\* released, and they lie within the tolerance (synchronizer.py 38-46).
BundleAligned ==
  lpc = "process" =>
    /\ bundle = group /\ bundle # {}
    /\ \A c, d \in bundle : c \in DOMAIN latest /\ latest[c] - latest[d] <= Tolerance

\* "The runtime maintains a dynamic sync group so a disconnected camera does not
\* permanently stall healthy cameras" (opencv_pipeline_architecture.md 184): an
\* active camera that keeps delivering is processed again and again.
HealthyCameraProcessed ==
  \A c \in Cameras :
    <>[](c \in active \cap up) => []<>(lpc = "process" /\ c \in bundle)

\* While some active camera delivers, the active cameras follow the records.
ReconcilesWhileFramesFlow ==
  \A c \in Cameras : <>[](c \in active \cap up) => <>[](active = records)

\* A camera whose record is set active is started, "register cameras through
\* POST /cameras with status: active" (backend README.md 782).
ActivatedCameraStarts ==
  \A c \in Cameras : c \in records ~> (c \in active \/ c \notin records)
=============================================================================
