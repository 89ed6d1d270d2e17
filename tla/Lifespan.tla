------------------------------ MODULE Lifespan ------------------------------
(***************************************************************************)
(* The life of the process: the FastAPI lifespan starts the parts of the   *)
(* system one after another, runs the pipeline as a task beside itself,    *)
(* and stops everything in its finally block (backend/src/main.py,         *)
(* opencv_pipeline/runtime.py start, stop, run_forever).                   *)
(*                                                                         *)
(* The lifespan L and the pipeline task P are coroutines of one event      *)
(* loop: another one runs only while a coroutine waits, so a step is       *)
(* enabled only if the other one is at one of the Awaits.  The pipeline,   *)
(* inference, Kafka and metrics are enabled.  What the identities, the     *)
(* controls and the frames hold is left to the modules about them.         *)
(***************************************************************************)
EXTENDS Naturals, FiniteSets

CONSTANTS
  Cameras,
  Faults,  (* Which of "startup", "pipeline" may fail.                     *)
  None

ASSUME ParametersAssumption == Faults \subseteq {"startup", "pipeline"} /\ None \notin Cameras

VARIABLES
  pc,         (* Where L and P are.                                        *)
  todo,       (* What is left of the list each of them goes through.       *)
  cur,        (* The camera it is busy with.                               *)
  opened,     (* What has been opened and not closed.                      *)
  running,    (* _running                                                  *)
  active,     (* _active_cameras                                           *)
  orch,       (* The cameras with an inference worker.                     *)
  queue,      (* The cameras with a frame in the frame buffer.             *)
  target,     (* P: the cameras of the last listing.                       *)
  bundle,     (* P: the cameras of the bundle under way.                   *)
  job,        (* P: what its lists are part of.                            *)
  cancelled,  (* P: a CancelledError is to be raised in it.                *)
  swallowed,  (* P: one has been raised and dropped.                       *)
  outcome     (* P: how it ends.                                           *)

runtime == <<running, active, orch, queue>>
task == <<target, bundle, job, swallowed, outcome>>
vars == <<pc, todo, cur, opened, runtime, task, cancelled>>

Coroutines == {"L", "P"}

\* Where P waits; before it is created and after its end it is not there to be waited for.
PipelineAwaits ==
  {"created", "listing", "controls", "connecting", "disabling", "sleep", "waiting",
   "assigning", "dispatching", "publishing", "closing"}

\* L does not wait in stop, until it has to wait for the removal of a camera.
Computes(x) ==
  IF x = "P" THEN pc[x] \notin PipelineAwaits \cup {"absent", "ended"}
             ELSE pc[x] \in {"stop", "removing", "removing_worker", "cancel", "closing_buffer"}

Turn(x, at) == pc[x] = at /\ \A y \in Coroutines \ {x} : ~Computes(y)
Goto(x, to) == pc' = [pc EXCEPT ![x] = to]

\* P goes on after an await unless it has been cancelled.
Resume(at) == Turn("P", at) /\ ~cancelled

Init ==
  /\ pc = [x \in Coroutines |-> IF x = "L" THEN "database" ELSE "absent"]
  /\ todo = [x \in Coroutines |-> {}]
  /\ cur = [x \in Coroutines |-> None]
  /\ opened = {} /\ active = {} /\ orch = {} /\ queue = {} /\ target = {} /\ bundle = {}
  /\ job = "start"
  /\ outcome = "returned"
  /\ running = FALSE /\ cancelled = FALSE /\ swallowed = FALSE

-----------------------------------------------------------------------------
(* The start of the parts.                                                 *)

StartAt(from, to, opens) ==
  /\ Turn("L", from)
  /\ Goto("L", to)
  /\ opened' = opened \cup opens
  /\ UNCHANGED <<todo, cur, runtime, task, cancelled>>

\* An exception leaves the lifespan; nothing that has been opened is closed.
StartupFails ==
  /\ "startup" \in Faults
  /\ \E at \in {"database", "migrations", "bootstrap", "metrics"} : StartAt(at, "failed", {})

ConnectDatabase == StartAt("database", "migrations", {"database"})
Migrate == StartAt("migrations", "producer", {})

\* Without Kafka the system starts all the same.
StartProducer ==
  \/ StartAt("producer", "bootstrap", {"producer"})
  \/ "startup" \in Faults /\ StartAt("producer", "bootstrap", {})

\* The camera of the settings is created, or its row brought up to date.
Bootstrap == StartAt("bootstrap", "create", {"buffer"})

CreatePipelineTask ==
  /\ Turn("L", "create")
  /\ pc' = [pc EXCEPT !["L"] = "consumer", !["P"] = "created"]
  /\ UNCHANGED <<todo, cur, opened, runtime, task, cancelled>>

StartConsumer ==
  \/ StartAt("consumer", "metrics", {"consumer"})
  \/ "startup" \in Faults /\ StartAt("consumer", "metrics", {})

StartMetrics == StartAt("metrics", "serving", {"metrics", "collectors"})

-----------------------------------------------------------------------------
(* _remove_camera, called by L or P from a list of cameras.                *)

\* The camera leaves _active_cameras and its frames are discarded before the first
\* await; a thread that outlives its join may publish another one.
RemoveCamera(x, c) ==
  /\ active' = active \ {c}
  /\ \E late \in SUBSET {c} : queue' = (queue \ {c}) \cup late
  /\ cur' = [cur EXCEPT ![x] = c]
  /\ \E at \in {"publishing", "removing_worker"} : Goto(x, at)
  /\ UNCHANGED <<opened, running, orch, task, cancelled>>

\* The identity events of the camera; a failure is logged.
Published(x) ==
  /\ Turn(x, "publishing") /\ ~(x = "P" /\ cancelled)
  /\ Goto(x, "removing_worker")
  /\ UNCHANGED <<todo, cur, opened, runtime, task, cancelled>>

\* manager._stop_camera pops the worker and closes it.
RemoveWorker(x) ==
  /\ Turn(x, "removing_worker")
  /\ orch' = orch \ {cur[x]}
  /\ Goto(x, IF cur[x] \in orch THEN "closing" ELSE "removing")
  /\ cur' = [cur EXCEPT ![x] = None]
  /\ UNCHANGED <<todo, opened, running, active, queue, task, cancelled>>

WorkerClosed(x) ==
  /\ Turn(x, "closing") /\ ~(x = "P" /\ cancelled)
  /\ Goto(x, "removing")
  /\ cur' = [cur EXCEPT ![x] = None]
  /\ UNCHANGED <<todo, opened, runtime, task, cancelled>>

\* Fault: stop goes by _running alone.
StopUnlessStopped(x, end) ==
  IF ~running
  THEN Goto(x, end) /\ UNCHANGED <<todo, running>>
  ELSE Goto(x, "removing") /\ running' = FALSE /\ todo' = [todo EXCEPT ![x] = active]

\* stop: nothing to do, or every camera of a snapshot is removed.
BeginStop(x, end) ==
  IF ~running /\ active = {}
  THEN Goto(x, end) /\ UNCHANGED <<todo, running>>
  ELSE Goto(x, "removing") /\ running' = FALSE /\ todo' = [todo EXCEPT ![x] = active]

\* A camera that the other coroutine has removed meanwhile is skipped.
StopNext(x) ==
  /\ Turn(x, "removing") /\ (x = "L" \/ job = "stop")
  /\ \E c \in todo[x] :
       /\ todo' = [todo EXCEPT ![x] = @ \ {c}]
       /\ \/ c \in active /\ RemoveCamera(x, c)
          \/ c \notin active /\ UNCHANGED <<pc, cur, opened, runtime, task, cancelled>>

-----------------------------------------------------------------------------
(* The pipeline task.                                                      *)

P(from, to) == Turn("P", from) /\ Goto("P", to)
PResumes(from, to) == Resume(from) /\ Goto("P", to)

\* An exception in start ends the task; one in the loop is followed by stop.
Raise(as) ==
  /\ outcome' = as
  /\ Goto("P", IF job \in {"start", "stop"} THEN "ended" ELSE "finally")
  /\ todo' = [todo EXCEPT !["P"] = {}] /\ cur' = [cur EXCEPT !["P"] = None]
  /\ target' = {} /\ bundle' = {}
  /\ UNCHANGED <<opened, runtime, job>>

Fails(at) == Resume(at) /\ Raise("failed") /\ UNCHANGED <<swallowed, cancelled>>

RaiseCancelled ==
  Raise(IF job = "stop" THEN "interrupted" ELSE "cancelled") /\ UNCHANGED swallowed

\* The database or Milvus fails.
PipelineFails ==
  /\ "pipeline" \in Faults
  /\ \E at \in {"created", "listing", "controls", "assigning"} : Fails(at)

\* orchestrator.close drops the CancelledError if it is raised while it waits for the
\* worker's task, not if it is while it closes the connection.
Cancelled ==
  /\ pc["P"] \in PipelineAwaits /\ Turn("P", pc["P"]) /\ cancelled
  /\ cancelled' = FALSE
  /\ \/ RaiseCancelled
     \/ /\ pc["P"] \in {"closing", "disabling"}
        /\ swallowed' = TRUE
        /\ Goto("P", IF pc["P"] = "closing" THEN "removing" ELSE "syncing")
        /\ UNCHANGED <<todo, cur, opened, runtime, target, bundle, job, outcome>>

\* start: the collection is made ready.
BeginStart ==
  /\ PResumes("created", "listing")
  /\ opened' = opened \cup {"milvus"}
  /\ UNCHANGED <<todo, cur, runtime, task, cancelled>>

LoopTop ==
  /\ Turn("P", "loop")
  /\ Goto("P", IF ~running THEN "finally" ELSE IF active = {} THEN "sleep" ELSE "due")
  /\ UNCHANGED <<todo, cur, opened, runtime, task, cancelled>>

Sleep ==
  /\ PResumes("sleep", "due")
  /\ UNCHANGED <<todo, cur, opened, runtime, task, cancelled>>

\* Each of the two intervals may have passed.
Due ==
  /\ \/ P("due", "listing") /\ job' = "refresh"
     \/ P("due", "controls_due") /\ UNCHANGED job
  /\ UNCHANGED <<todo, cur, opened, runtime, target, bundle, swallowed, outcome, cancelled>>

ControlsDue ==
  /\ \/ P("controls_due", "controls") /\ active # {} /\ job' = "controls"
     \/ P("controls_due", "getting") /\ UNCHANGED job
  /\ UNCHANGED <<todo, cur, opened, runtime, target, bundle, swallowed, outcome, cancelled>>

\* refresh_cameras: the active rows are listed, with any outcome.
Listing ==
  /\ PResumes("listing", "removing")
  /\ target' \in SUBSET Cameras
  /\ todo' = [todo EXCEPT !["P"] = active]
  /\ UNCHANGED <<cur, opened, runtime, bundle, job, swallowed, outcome, cancelled>>

\* A camera goes if it is not listed or its source has changed.  One that is listed
\* and has been removed by stop since the snapshot was taken raises a KeyError.
RefreshNext ==
  /\ Turn("P", "removing") /\ job \in {"start", "refresh"}
  /\ \E c \in todo["P"] :
       \/ /\ c \in target \ active
          /\ Raise("failed") /\ UNCHANGED <<swallowed, cancelled>>
       \/ /\ todo' = [todo EXCEPT !["P"] = @ \ {c}]
          /\ \/ c \in active /\ RemoveCamera("P", c)
             \/ /\ (c \in target <=> c \in active)
                /\ UNCHANGED <<pc, cur, opened, runtime, task, cancelled>>

\* The workers of new cameras are started, whether or not the loop is to go on.
StartWorkers ==
  /\ P("removing", "syncing") /\ job \in {"start", "refresh"} /\ todo["P"] = {}
  /\ active' = active \cup target
  /\ todo' = [todo EXCEPT !["P"] = target]
  /\ UNCHANGED <<cur, opened, running, orch, queue, task, cancelled>>

SyncControls ==
  /\ PResumes("controls", "syncing")
  /\ target' \in SUBSET Cameras
  /\ todo' = [todo EXCEPT !["P"] = active \cap target']
  /\ UNCHANGED <<cur, opened, runtime, bundle, job, swallowed, outcome, cancelled>>

\* _sync_inference_controls: a camera keeps its worker, gets one or loses it.
SyncNext ==
  /\ Turn("P", "syncing")
  /\ \E c \in todo["P"] :
       /\ todo' = [todo EXCEPT !["P"] = @ \ {c}]
       /\ \/ UNCHANGED <<pc, cur, orch>>
          \/ /\ c \notin orch
             /\ Goto("P", "connecting") /\ cur' = [cur EXCEPT !["P"] = c] /\ UNCHANGED orch
          \/ c \in orch /\ Goto("P", "disabling") /\ orch' = orch \ {c} /\ UNCHANGED cur
  /\ UNCHANGED <<opened, running, active, queue, task, cancelled>>

Connected ==
  /\ PResumes("connecting", "syncing")
  /\ orch' = orch \cup {cur["P"]}
  /\ cur' = [cur EXCEPT !["P"] = None]
  /\ UNCHANGED <<todo, opened, running, active, queue, task, cancelled>>

Disabled ==
  /\ PResumes("disabling", "syncing")
  /\ UNCHANGED <<todo, cur, opened, runtime, task, cancelled>>

\* start sets _running when its refresh has ended.
SyncEnds ==
  /\ Turn("P", "syncing") /\ todo["P"] = {}
  /\ Goto("P", CASE job = "start" -> "loop" [] job = "refresh" -> "controls_due"
                 [] job = "controls" -> "getting")
  /\ running' = (running \/ job = "start")
  /\ job' = "loop" /\ target' = {}
  /\ UNCHANGED <<todo, cur, opened, active, orch, queue, bundle, swallowed, outcome, cancelled>>

WaitForFrame ==
  /\ P("getting", "waiting") /\ queue = {}
  /\ UNCHANGED <<todo, cur, opened, runtime, task, cancelled>>

\* The frame of a camera that is not active is dropped; another one may complete a
\* bundle with frames of other active cameras.
TakeFrame ==
  /\ Turn("P", "getting") \/ Resume("waiting")
  /\ \E c \in queue :
       /\ queue' = queue \ {c}
       /\ bundle' \in {{}} \cup {b \in SUBSET active : c \in b}
  /\ Goto("P", IF bundle' = {} THEN "loop" ELSE "assigning")
  /\ UNCHANGED <<todo, cur, opened, running, active, orch, target, job, swallowed, outcome,
                 cancelled>>

\* The assignment needs Milvus; then the worker of every camera is looked up.
Assigned ==
  /\ Resume("assigning")
  /\ IF bundle \subseteq active
     THEN /\ Goto("P", "dispatching")
          /\ UNCHANGED <<todo, cur, opened, runtime, task, cancelled>>
     ELSE Raise("failed") /\ UNCHANGED <<swallowed, cancelled>>

Dispatched ==
  /\ PResumes("dispatching", "loop")
  /\ bundle' = {}
  /\ UNCHANGED <<todo, cur, opened, runtime, target, job, swallowed, outcome, cancelled>>

Finally ==
  /\ Turn("P", "finally")
  /\ BeginStop("P", "ended")
  /\ job' = "stop"
  /\ UNCHANGED <<cur, opened, active, orch, queue, target, bundle, swallowed, outcome, cancelled>>

PipelineStopped ==
  /\ P("removing", "ended") /\ job = "stop" /\ todo["P"] = {}
  /\ opened' = opened \ {"milvus"}
  /\ UNCHANGED <<todo, cur, runtime, task, cancelled>>

Pipeline ==
  \/ PipelineFails \/ Cancelled \/ BeginStart \/ LoopTop \/ Sleep \/ Due \/ ControlsDue
  \/ Listing \/ RefreshNext \/ StartWorkers \/ SyncControls \/ SyncNext \/ Connected
  \/ Disabled \/ SyncEnds \/ WaitForFrame \/ TakeFrame \/ Assigned \/ Dispatched
  \/ Finally \/ PipelineStopped

-----------------------------------------------------------------------------
(* The finally block of the lifespan.                                      *)

CloseAt(from, to, closes) ==
  /\ Turn("L", from)
  /\ Goto("L", to)
  /\ opened' = opened \ closes
  /\ UNCHANGED <<todo, cur, runtime, task, cancelled>>

Serve == CloseAt("serving", "collecting", {})
StopCollectors == CloseAt("collecting", "peers", {"collectors"})
ClosePeers == CloseAt("peers", "stop", {})

StopPipeline ==
  /\ Turn("L", "stop")
  /\ BeginStop("L", "cancel")
  /\ UNCHANGED <<cur, opened, active, orch, queue, task, cancelled>>

StopReturns == todo["L"] = {} /\ CloseAt("removing", "cancel", {"milvus"})

\* Fault: the task is left to end by itself.
LeaveTask ==
  /\ Turn("L", "cancel")
  /\ Goto("L", "task")
  /\ UNCHANGED <<todo, cur, opened, runtime, task, cancelled>>

\* Fault: the task is not waited for.
CancelOnly ==
  /\ Turn("L", "cancel")
  /\ Goto("L", "closing_buffer")
  /\ cancelled' = (pc["P"] # "ended")
  /\ UNCHANGED <<todo, cur, opened, runtime, task>>

CancelTask ==
  /\ Turn("L", "cancel")
  /\ Goto("L", "task")
  /\ cancelled' = (pc["P"] # "ended")
  /\ UNCHANGED <<todo, cur, opened, runtime, task>>

\* What the task has raised is raised here, unless it was the cancellation.
AwaitTask ==
  /\ pc["P"] = "ended"
  /\ CloseAt("task", IF outcome = "failed" THEN "aborted" ELSE "closing_buffer", {})

ClosePipeline == CloseAt("closing_buffer", "manager", {"buffer"})

CloseManager ==
  /\ Turn("L", "manager")
  /\ Goto("L", "stopping_consumer")
  /\ orch' = {}
  /\ UNCHANGED <<todo, cur, opened, running, active, queue, task, cancelled>>

StopConsumer == CloseAt("stopping_consumer", "stopping_producer", {"consumer"})
StopProducer == CloseAt("stopping_producer", "disconnecting", {"producer", "metrics"})
Disconnect == CloseAt("disconnecting", "done", {"database"})

Startup ==
  \/ StartupFails \/ ConnectDatabase \/ Migrate \/ StartProducer \/ Bootstrap
  \/ CreatePipelineTask \/ StartConsumer \/ StartMetrics

Shutdown ==
  \/ StopCollectors \/ ClosePeers \/ StopPipeline \/ StopReturns \/ CancelTask \/ AwaitTask
  \/ ClosePipeline \/ CloseManager \/ StopConsumer \/ StopProducer \/ Disconnect

Removal(x) == Published(x) \/ RemoveWorker(x) \/ WorkerClosed(x) \/ StopNext(x)

\* The capture worker of an active camera publishes a frame, at any time.
FrameArrives ==
  /\ \E c \in active : queue' = queue \cup {c}
  /\ UNCHANGED <<pc, todo, cur, opened, running, active, orch, task, cancelled>>

Next ==
  \/ Startup \/ Serve \/ Shutdown \/ Pipeline \/ FrameArrives
  \/ \E x \in Coroutines : Removal(x)

Spec == Init /\ [][Next]_vars

\* The event loop runs every coroutine that is ready, and what they wait for answers.
\* Frames complete a bundle again and again: the pipeline does not keep the event loop.
FairSpec ==
  /\ Spec
  /\ WF_vars(Pipeline \/ Removal("P"))
  /\ SF_vars(TakeFrame /\ bundle' # {})
  /\ SF_vars(Startup \/ Shutdown \/ Removal("L"))

-----------------------------------------------------------------------------
(* Properties.                                                             *)

Resources ==
  {"database", "producer", "buffer", "consumer", "metrics", "collectors", "milvus"}

TypeOK ==
  /\ todo \in [Coroutines -> SUBSET Cameras]
  /\ cur \in [Coroutines -> Cameras \cup {None}]
  /\ opened \subseteq Resources
  /\ active \subseteq Cameras /\ orch \subseteq Cameras /\ queue \subseteq Cameras
  /\ target \subseteq Cameras /\ bundle \subseteq Cameras
  /\ job \in {"start", "loop", "refresh", "controls", "stop"}
  /\ running \in BOOLEAN /\ cancelled \in BOOLEAN /\ swallowed \in BOOLEAN
  /\ outcome \in {"returned", "failed", "cancelled", "interrupted"}

\* The pipeline works with what is open: a capture worker with the frame buffer, a
\* listing and an inference worker with the database (main.py 240-251).  Cameras left
\* by a task that is cancelled in its own stop lose the buffer.
WorksWithOpen ==
  /\ active # {} => "buffer" \in opened \/ outcome = "interrupted"
  /\ pc["P"] \in {"listing", "controls"} => "database" \in opened
  /\ orch # {} => "database" \in opened

\* A shutdown that comes to its end leaves no camera captured and nothing open, also if
\* a refresh under way has started cameras again after they were stopped
\* (runtime.py:179).  Only a task that is cancelled in its own stop may leave cameras,
\* and one cancelled in start the client of Milvus.
StoppedCleanly ==
  pc["L"] = "done" /\ outcome # "interrupted" =>
    /\ active = {} /\ orch = {}
    /\ opened \subseteq IF job = "start" THEN {"milvus"} ELSE {}

\* The shutdown comes to an end, unless a worker's close drops the cancellation of the
\* task: then the task may wait for a frame for ever.
ShutdownEnds == pc["L"] = "collecting" ~> pc["L"] \in {"done", "aborted"} \/ swallowed

\* "On shutdown the pipeline, inference manager, Kafka producer, and consumer are all
\* stopped cleanly in the FastAPI lifespan finally block." (backend/README.md:35)
CleanShutdown == pc["L"] # "aborted"

\* The shutdown always comes to an end.
ShutdownAlwaysEnds == pc["L"] = "collecting" ~> pc["L"] \in {"done", "aborted"}
=============================================================================
