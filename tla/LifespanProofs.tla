--------------------------- MODULE LifespanProofs ---------------------------
(***************************************************************************)
(* Proofs about the life of the process: the lifespan closes a resource    *)
(* only after the pipeline has stopped using it, and a shutdown that comes *)
(* to its end leaves nothing running and nothing open.                     *)
(*                                                                         *)
(* The invariant relates the place of the lifespan to that of the task.    *)
(* Everything follows from two facts: the task exists only while the       *)
(* lifespan is between "create" and "closing_buffer", and the cameras a    *)
(* coroutine does not remove itself are in the list of the other one.      *)
(***************************************************************************)
EXTENDS Lifespan, TLAPS

Starting == {"database", "migrations", "producer", "bootstrap", "create"}
Serving == {"consumer", "metrics", "serving", "collecting", "peers", "stop"}
Removing == {"removing", "publishing", "removing_worker", "closing"}
Ending == {"closing_buffer", "manager", "stopping_consumer", "stopping_producer",
           "disconnecting", "done"}

LifespanAt == Starting \cup Serving \cup Removing \cup {"cancel", "task"} \cup Ending
              \cup {"failed", "aborted"}

\* Where P may be in each of its jobs.
PipelineAt ==
  [start    |-> {"absent", "created", "listing", "removing", "syncing", "connecting", "disabling",
                 "ended"},
   loop     |-> {"loop", "sleep", "due", "controls_due", "getting", "waiting", "assigning",
                 "dispatching", "finally"},
   refresh  |-> {"listing", "syncing", "connecting", "disabling", "finally"} \cup Removing,
   controls |-> {"controls", "syncing", "connecting", "disabling", "finally"},
   stop     |-> Removing \cup {"ended"}]

\* The places of the two coroutines fit together; P is cancelled only while L waits for it.
PlaceInv ==
  /\ DOMAIN pc = Coroutines /\ pc["L"] \in LifespanAt /\ pc["P"] \in PipelineAt[job]
  /\ pc["L"] \in Starting => pc["P"] = "absent"
  /\ pc["P"] = "absent" => pc["L"] \in Starting \cup {"failed"} /\ active = {} /\ orch = {}
  /\ pc["L"] \in Ending \cup {"aborted"} => pc["P"] = "ended"
  /\ pc["P"] = "connecting" => cur["P"] \in Cameras
  /\ cancelled => pc["L"] = "task" /\ pc["P"] \in PipelineAwaits
  /\ job \in {"start", "stop"} => ~running

\* What is open at each place of L.
OpenInv ==
  /\ pc["L"] \in {"peers", "stop", "cancel", "task", "aborted"} \cup Removing \cup Ending
       => "collectors" \notin opened
  /\ pc["L"] \in Ending \ {"closing_buffer"} => "buffer" \notin opened
  /\ pc["L"] \in {"stopping_producer", "disconnecting", "done"} => "consumer" \notin opened
  /\ pc["L"] \in {"disconnecting", "done"} => opened \cap {"producer", "metrics"} = {}
  /\ pc["L"] = "done" => "database" \notin opened
  /\ pc["L"] \notin {"database", "failed", "done"} => "database" \in opened
  /\ pc["L"] = "create" => "buffer" \in opened
  /\ pc["P"] # "absent" /\ pc["L"] # "done" => "database" \in opened
  /\ pc["P"] # "absent" /\ pc["L"] \notin Ending \ {"closing_buffer"} => "buffer" \in opened

\* P has not yet made a camera active.
Untouched == job = "start" /\ pc["P"] \in {"absent", "created", "listing", "removing"}

\* The cameras that are still active when P ends are left by a stop that was cancelled:
\* a stop that goes on has every active camera in its list.
CameraInv ==
  /\ Untouched =>
       /\ active = {} /\ pc["L"] \notin Removing
       /\ pc["P"] = "removing" => todo["P"] = {}
       /\ pc["L"] = "task" => cancelled
  /\ job = "start" /\ pc["P"] \in {"syncing", "connecting", "disabling"} =>
       /\ pc["L"] \in Removing => active \subseteq todo["L"]
       /\ pc["L"] \in {"cancel", "task"} => active = {}
  /\ job = "stop" /\ pc["P"] \in Removing => active \subseteq todo["P"]
  /\ pc["P"] = "ended" /\ outcome # "interrupted" => active = {}
  /\ pc["L"] \in {"stopping_consumer", "stopping_producer", "disconnecting", "done"} => orch = {}

\* The client of Milvus is open only while somebody is there to close it.
MilvusInv ==
  "milvus" \in opened /\ job # "start" =>
    \/ running
    \/ job = "stop" /\ pc["P"] \in Removing
    \/ pc["L"] \in Removing
    \/ pc["P"] = "ended" /\ outcome = "interrupted"

IInv == TypeOK /\ PlaceInv /\ OpenInv /\ CameraInv /\ MilvusInv

-----------------------------------------------------------------------------
(* One lemma for each part of the next-state relation.                     *)

\* The parts are opened one after another; P does not exist until the buffer is open.
LEMMA StartupKeeps ==
  ASSUME IInv, Startup
  PROVE  IInv'
<1> USE DEF IInv
<1>1. CASE StartupFails
  <2>1. TypeOK'
    BY <1>1 DEF TypeOK, StartupFails, StartAt, Goto, runtime, task, Coroutines
  <2>2. PlaceInv' /\ OpenInv' /\ CameraInv' /\ MilvusInv'
    BY <1>1 DEF TypeOK, PlaceInv, OpenInv, CameraInv, MilvusInv, Untouched, Starting, Serving,
       Removing, Ending, LifespanAt, PipelineAt, PipelineAwaits, StartupFails, StartAt, Turn,
       Goto, runtime, task, Coroutines, Computes
  <2> QED BY <2>1, <2>2
<1>2. CASE ConnectDatabase
  <2>1. TypeOK'
    BY <1>2 DEF TypeOK, ConnectDatabase, StartAt, Goto, runtime, task, Coroutines, Resources
  <2>2. PlaceInv' /\ OpenInv' /\ CameraInv' /\ MilvusInv'
    BY <1>2 DEF TypeOK, PlaceInv, OpenInv, CameraInv, MilvusInv, Untouched, Starting, Serving,
       Removing, Ending, LifespanAt, PipelineAt, PipelineAwaits, ConnectDatabase, StartAt, Turn,
       Goto, runtime, task, Coroutines, Computes
  <2> QED BY <2>1, <2>2
<1>3. CASE Migrate
  <2>1. TypeOK'
    BY <1>3 DEF TypeOK, Migrate, StartAt, Goto, runtime, task, Coroutines
  <2>2. PlaceInv' /\ OpenInv' /\ CameraInv' /\ MilvusInv'
    BY <1>3 DEF TypeOK, PlaceInv, OpenInv, CameraInv, MilvusInv, Untouched, Starting, Serving,
       Removing, Ending, LifespanAt, PipelineAt, PipelineAwaits, Migrate, StartAt, Turn, Goto,
       runtime, task, Coroutines, Computes
  <2> QED BY <2>1, <2>2
<1>4. CASE StartProducer
  <2>1. TypeOK'
    BY <1>4 DEF TypeOK, StartProducer, StartAt, Goto, runtime, task, Coroutines, Resources
  <2>2. PlaceInv' /\ OpenInv' /\ CameraInv' /\ MilvusInv'
    BY <1>4 DEF TypeOK, PlaceInv, OpenInv, CameraInv, MilvusInv, Untouched, Starting, Serving,
       Removing, Ending, LifespanAt, PipelineAt, PipelineAwaits, StartProducer, StartAt, Turn,
       Goto, runtime, task, Coroutines, Computes
  <2> QED BY <2>1, <2>2
<1>5. CASE Bootstrap
  <2>1. TypeOK'
    BY <1>5 DEF TypeOK, Bootstrap, StartAt, Goto, runtime, task, Coroutines, Resources
  <2>2. PlaceInv' /\ OpenInv' /\ CameraInv' /\ MilvusInv'
    BY <1>5 DEF TypeOK, PlaceInv, OpenInv, CameraInv, MilvusInv, Untouched, Starting, Serving,
       Removing, Ending, LifespanAt, PipelineAt, PipelineAwaits, Bootstrap, StartAt, Turn, Goto,
       runtime, task, Coroutines, Computes
  <2> QED BY <2>1, <2>2
<1>6. CASE CreatePipelineTask
  <2>1. TypeOK'
    BY <1>6 DEF TypeOK, CreatePipelineTask, runtime, task, Coroutines
  <2>2. PlaceInv' /\ OpenInv' /\ CameraInv' /\ MilvusInv'
    BY <1>6 DEF TypeOK, PlaceInv, OpenInv, CameraInv, MilvusInv, Untouched, Starting, Serving,
       Removing, Ending, LifespanAt, PipelineAt, PipelineAwaits, CreatePipelineTask, Turn,
       runtime, task, Coroutines, Computes
  <2> QED BY <2>1, <2>2
<1>7. CASE StartConsumer
  <2>1. TypeOK'
    BY <1>7 DEF TypeOK, StartConsumer, StartAt, Goto, runtime, task, Coroutines, Resources
  <2>2. PlaceInv' /\ OpenInv' /\ CameraInv' /\ MilvusInv'
    BY <1>7 DEF TypeOK, PlaceInv, OpenInv, CameraInv, MilvusInv, Untouched, Starting, Serving,
       Removing, Ending, LifespanAt, PipelineAt, PipelineAwaits, StartConsumer, StartAt, Turn,
       Goto, runtime, task, Coroutines, Computes
  <2> QED BY <2>1, <2>2
<1>8. CASE StartMetrics
  <2>1. TypeOK'
    BY <1>8 DEF TypeOK, StartMetrics, StartAt, Goto, runtime, task, Coroutines, Resources
  <2>2. PlaceInv' /\ OpenInv' /\ CameraInv' /\ MilvusInv'
    BY <1>8 DEF TypeOK, PlaceInv, OpenInv, CameraInv, MilvusInv, Untouched, Starting, Serving,
       Removing, Ending, LifespanAt, PipelineAt, PipelineAwaits, StartMetrics, StartAt, Turn,
       Goto, runtime, task, Coroutines, Computes
  <2> QED BY <2>1, <2>2
<1> QED
  BY <1>1, <1>2, <1>3, <1>4, <1>5, <1>6, <1>7, <1>8 DEF Startup

\* The finally block goes on to close things only after P has ended.
LEMMA ShutdownKeeps ==
  ASSUME IInv, Serve \/ Shutdown
  PROVE  IInv'
<1> USE DEF IInv
<1>1. CASE Serve
  <2>1. TypeOK'
    BY <1>1 DEF TypeOK, Serve, CloseAt, Goto, runtime, task, Coroutines
  <2>2. PlaceInv' /\ OpenInv' /\ CameraInv' /\ MilvusInv'
    BY <1>1 DEF TypeOK, PlaceInv, OpenInv, CameraInv, MilvusInv, Untouched, Starting, Serving,
       Removing, Ending, LifespanAt, PipelineAt, PipelineAwaits, Serve, CloseAt, Turn, Goto,
       runtime, task, Coroutines, Computes
  <2> QED BY <2>1, <2>2
<1>2. CASE StopCollectors
  <2>1. TypeOK'
    BY <1>2 DEF TypeOK, StopCollectors, CloseAt, Goto, runtime, task, Coroutines
  <2>2. PlaceInv' /\ OpenInv' /\ CameraInv' /\ MilvusInv'
    BY <1>2 DEF TypeOK, PlaceInv, OpenInv, CameraInv, MilvusInv, Untouched, Starting, Serving,
       Removing, Ending, LifespanAt, PipelineAt, PipelineAwaits, StopCollectors, CloseAt, Turn,
       Goto, runtime, task, Coroutines, Computes
  <2> QED BY <2>1, <2>2
<1>3. CASE ClosePeers
  <2>1. TypeOK'
    BY <1>3 DEF TypeOK, ClosePeers, CloseAt, Goto, runtime, task, Coroutines
  <2>2. PlaceInv' /\ OpenInv' /\ CameraInv' /\ MilvusInv'
    BY <1>3 DEF TypeOK, PlaceInv, OpenInv, CameraInv, MilvusInv, Untouched, Starting, Serving,
       Removing, Ending, LifespanAt, PipelineAt, PipelineAwaits, ClosePeers, CloseAt, Turn,
       Goto, runtime, task, Coroutines, Computes
  <2> QED BY <2>1, <2>2
<1>4. CASE StopPipeline
  <2>1. TypeOK'
    BY <1>4 DEF TypeOK, StopPipeline, BeginStop, task, Coroutines, Goto
  <2>2. PlaceInv' /\ OpenInv' /\ CameraInv' /\ MilvusInv'
    BY <1>4 DEF TypeOK, PlaceInv, OpenInv, CameraInv, MilvusInv, Untouched, Starting, Serving,
       Removing, Ending, LifespanAt, PipelineAt, PipelineAwaits, StopPipeline, Turn, BeginStop,
       task, Coroutines, Computes, Goto
  <2> QED BY <2>1, <2>2
<1>5. CASE StopReturns
  <2>1. TypeOK'
    BY <1>5 DEF TypeOK, StopReturns, CloseAt, Goto, runtime, task, Coroutines
  <2>2. PlaceInv' /\ OpenInv' /\ CameraInv' /\ MilvusInv'
    BY <1>5 DEF TypeOK, PlaceInv, OpenInv, CameraInv, MilvusInv, Untouched, Starting, Serving,
       Removing, Ending, LifespanAt, PipelineAt, PipelineAwaits, StopReturns, CloseAt, Turn,
       Goto, runtime, task, Coroutines, Computes
  <2> QED BY <2>1, <2>2
<1>6. CASE CancelTask
  <2>1. TypeOK'
    BY <1>6 DEF TypeOK, CancelTask, Goto, runtime, task, Coroutines
  <2>2. PlaceInv' /\ OpenInv' /\ CameraInv' /\ MilvusInv'
    BY <1>6 DEF TypeOK, PlaceInv, OpenInv, CameraInv, MilvusInv, Untouched, Starting, Serving,
       Removing, Ending, LifespanAt, PipelineAt, PipelineAwaits, CancelTask, Turn, Goto,
       runtime, task, Coroutines, Computes
  <2> QED BY <2>1, <2>2
<1>7. CASE AwaitTask
  <2>1. TypeOK'
    BY <1>7 DEF TypeOK, AwaitTask, CloseAt, Goto, runtime, task, Coroutines
  <2>2. PlaceInv' /\ OpenInv' /\ CameraInv' /\ MilvusInv'
    BY <1>7 DEF TypeOK, PlaceInv, OpenInv, CameraInv, MilvusInv, Untouched, Starting, Serving,
       Removing, Ending, LifespanAt, PipelineAt, PipelineAwaits, AwaitTask, CloseAt, Turn, Goto,
       runtime, task, Coroutines, Computes
  <2> QED BY <2>1, <2>2
<1>8. CASE ClosePipeline
  <2>1. TypeOK'
    BY <1>8 DEF TypeOK, ClosePipeline, CloseAt, Goto, runtime, task, Coroutines
  <2>2. PlaceInv' /\ OpenInv' /\ CameraInv' /\ MilvusInv'
    BY <1>8 DEF TypeOK, PlaceInv, OpenInv, CameraInv, MilvusInv, Untouched, Starting, Serving,
       Removing, Ending, LifespanAt, PipelineAt, PipelineAwaits, ClosePipeline, CloseAt, Turn,
       Goto, runtime, task, Coroutines, Computes
  <2> QED BY <2>1, <2>2
<1>9. CASE CloseManager
  <2>1. TypeOK'
    BY <1>9 DEF TypeOK, CloseManager, Goto, task, Coroutines
  <2>2. PlaceInv' /\ OpenInv' /\ CameraInv' /\ MilvusInv'
    BY <1>9 DEF TypeOK, PlaceInv, OpenInv, CameraInv, MilvusInv, Untouched, Starting, Serving,
       Removing, Ending, LifespanAt, PipelineAt, PipelineAwaits, CloseManager, Turn, Goto, task,
       Coroutines, Computes
  <2> QED BY <2>1, <2>2
<1>10. CASE StopConsumer
  <2>1. TypeOK'
    BY <1>10 DEF TypeOK, StopConsumer, CloseAt, Goto, runtime, task, Coroutines
  <2>2. PlaceInv' /\ OpenInv' /\ CameraInv' /\ MilvusInv'
    BY <1>10 DEF TypeOK, PlaceInv, OpenInv, CameraInv, MilvusInv, Untouched, Starting, Serving,
       Removing, Ending, LifespanAt, PipelineAt, PipelineAwaits, StopConsumer, CloseAt, Turn,
       Goto, runtime, task, Coroutines, Computes
  <2> QED BY <2>1, <2>2
<1>11. CASE StopProducer
  <2>1. TypeOK'
    BY <1>11 DEF TypeOK, StopProducer, CloseAt, Goto, runtime, task, Coroutines
  <2>2. PlaceInv' /\ OpenInv' /\ CameraInv' /\ MilvusInv'
    BY <1>11 DEF TypeOK, PlaceInv, OpenInv, CameraInv, MilvusInv, Untouched, Starting, Serving,
       Removing, Ending, LifespanAt, PipelineAt, PipelineAwaits, StopProducer, CloseAt, Turn,
       Goto, runtime, task, Coroutines, Computes
  <2> QED BY <2>1, <2>2
<1>12. CASE Disconnect
  <2>1. TypeOK'
    BY <1>12 DEF TypeOK, Disconnect, CloseAt, Goto, runtime, task, Coroutines
  <2>2. PlaceInv' /\ OpenInv' /\ CameraInv' /\ MilvusInv'
    BY <1>12 DEF TypeOK, PlaceInv, OpenInv, CameraInv, MilvusInv, Untouched, Starting, Serving,
       Removing, Ending, LifespanAt, PipelineAt, PipelineAwaits, Disconnect, CloseAt, Turn,
       Goto, runtime, task, Coroutines, Computes
  <2> QED BY <2>1, <2>2
<1> QED
  BY <1>1, <1>2, <1>3, <1>4, <1>5, <1>6, <1>7, <1>8, <1>9, <1>10, <1>11, <1>12 DEF Shutdown

\* The start and the refresh of P, and what ends it from outside.
LEMMA RefreshKeeps ==
  ASSUME IInv, PipelineFails \/ Cancelled \/ BeginStart \/ Listing \/ RefreshNext \/ StartWorkers
  PROVE  IInv'
<1> USE DEF IInv
<1>1. CASE PipelineFails
  <2>1. TypeOK'
    BY <1>1 DEF TypeOK, PipelineFails, Fails, Resume, Raise, Goto, runtime, Coroutines
  <2>2. PlaceInv' /\ OpenInv' /\ CameraInv' /\ MilvusInv'
    BY <1>1 DEF TypeOK, PlaceInv, OpenInv, CameraInv, MilvusInv, Untouched, Starting, Serving,
       Removing, Ending, LifespanAt, PipelineAt, PipelineAwaits, PipelineFails, Fails, Resume,
       Raise, Turn, Goto, runtime, Coroutines, Computes
  <2> QED BY <2>1, <2>2
<1>2. CASE Cancelled
  <2>1. TypeOK'
    BY <1>2 DEF TypeOK, Cancelled, RaiseCancelled, Goto, runtime, Coroutines, Raise
  <2>2. PlaceInv' /\ OpenInv' /\ CameraInv' /\ MilvusInv'
    BY <1>2 DEF TypeOK, PlaceInv, OpenInv, CameraInv, MilvusInv, Untouched, Starting, Serving,
       Removing, Ending, LifespanAt, PipelineAt, PipelineAwaits, Cancelled, Turn,
       RaiseCancelled, Goto, runtime, Coroutines, Computes, Raise
  <2> QED BY <2>1, <2>2
<1>3. CASE BeginStart
  <2>1. TypeOK'
    BY <1>3 DEF TypeOK, BeginStart, PResumes, Resume, Turn, Goto, Resources, runtime, task
  <2>2. job = "start" /\ job' = "start"
    BY <1>3 DEF TypeOK, PlaceInv, BeginStart, PResumes, Resume, Turn, PipelineAt, Removing, task
  <2>3. MilvusInv'
    BY <1>3, <2>2 DEF MilvusInv
  <2>4. PlaceInv' /\ OpenInv' /\ CameraInv'
    BY <1>3, <2>2 DEF PlaceInv, OpenInv, CameraInv, Untouched, Starting, Serving, Removing,
       Ending, LifespanAt, PipelineAt, PipelineAwaits, BeginStart, PResumes, Resume, Turn, Goto,
       Computes, Coroutines, runtime, task
  <2> QED BY <2>1, <2>2, <2>3, <2>4
<1>4. CASE Listing
  <2>1. TypeOK'
    BY <1>4 DEF TypeOK, Listing, PResumes, runtime, Resume, Goto, Coroutines
  <2>2. PlaceInv' /\ OpenInv' /\ CameraInv' /\ MilvusInv'
    BY <1>4 DEF TypeOK, PlaceInv, OpenInv, CameraInv, MilvusInv, Untouched, Starting, Serving,
       Removing, Ending, LifespanAt, PipelineAt, PipelineAwaits, Listing, PResumes, runtime,
       Resume, Goto, Turn, Coroutines, Computes
  <2> QED BY <2>1, <2>2
<1>5. CASE RefreshNext
  <2>1. TypeOK'
    BY <1>5 DEF TypeOK, RefreshNext, Raise, RemoveCamera, runtime, task, Coroutines, Goto
  <2>2. PlaceInv' /\ OpenInv' /\ CameraInv' /\ MilvusInv'
    BY <1>5 DEF TypeOK, PlaceInv, OpenInv, CameraInv, MilvusInv, Untouched, Starting, Serving,
       Removing, Ending, LifespanAt, PipelineAt, PipelineAwaits, RefreshNext, Turn, Raise,
       RemoveCamera, runtime, task, Coroutines, Computes, Goto
  <2> QED BY <2>1, <2>2
<1>6. CASE StartWorkers
  <2>1. TypeOK'
    BY <1>6 DEF TypeOK, StartWorkers, P, task, Goto, Coroutines
  <2>2. PlaceInv' /\ OpenInv' /\ CameraInv' /\ MilvusInv'
    BY <1>6 DEF TypeOK, PlaceInv, OpenInv, CameraInv, MilvusInv, Untouched, Starting, Serving,
       Removing, Ending, LifespanAt, PipelineAt, PipelineAwaits, StartWorkers, P, task, Turn,
       Goto, Coroutines, Computes
  <2> QED BY <2>1, <2>2
<1> QED
  BY <1>1, <1>2, <1>3, <1>4, <1>5, <1>6

\* The synchronization of the inference controls.
LEMMA ControlsKeep ==
  ASSUME IInv, SyncControls \/ SyncNext \/ Connected \/ Disabled \/ SyncEnds
  PROVE  IInv'
<1> USE DEF IInv
<1>1. CASE SyncControls
  <2>1. TypeOK'
    BY <1>1 DEF TypeOK, SyncControls, PResumes, runtime, Resume, Goto, Coroutines
  <2>2. PlaceInv' /\ OpenInv' /\ CameraInv' /\ MilvusInv'
    BY <1>1 DEF TypeOK, PlaceInv, OpenInv, CameraInv, MilvusInv, Untouched, Starting, Serving,
       Removing, Ending, LifespanAt, PipelineAt, PipelineAwaits, SyncControls, PResumes,
       runtime, Resume, Goto, Turn, Coroutines, Computes
  <2> QED BY <2>1, <2>2
<1>2. CASE SyncNext
  <2>1. TypeOK'
    BY <1>2 DEF TypeOK, SyncNext, Goto, task, Coroutines
  <2>2. PlaceInv' /\ OpenInv' /\ CameraInv' /\ MilvusInv'
    BY <1>2 DEF TypeOK, PlaceInv, OpenInv, CameraInv, MilvusInv, Untouched, Starting, Serving,
       Removing, Ending, LifespanAt, PipelineAt, PipelineAwaits, SyncNext, Turn, Goto, task,
       Coroutines, Computes
  <2> QED BY <2>1, <2>2
<1>3. CASE Connected
  <2>1. TypeOK'
    <3>1. cur["P"] \in Cameras
      BY <1>3 DEF Connected, PResumes, Resume, Turn, PlaceInv
    <3>2. orch' \subseteq Cameras
      BY <1>3, <3>1 DEF TypeOK, Connected
    <3>3. cur' \in [Coroutines -> Cameras \cup {None}]
      BY <1>3 DEF TypeOK, Connected
    <3> QED
      BY <1>3, <3>2, <3>3 DEF TypeOK, Connected, task
  <2>2. PlaceInv' /\ OpenInv' /\ CameraInv' /\ MilvusInv'
    BY <1>3 DEF TypeOK, PlaceInv, OpenInv, CameraInv, MilvusInv, Untouched, Starting, Serving,
       Removing, Ending, LifespanAt, PipelineAt, PipelineAwaits, Connected, PResumes, task,
       Resume, Goto, Turn, Coroutines, Computes
  <2> QED BY <2>1, <2>2
<1>4. CASE Disabled
  <2>1. TypeOK'
    BY <1>4 DEF TypeOK, Disabled, PResumes, runtime, task, Resume, Goto, Coroutines
  <2>2. PlaceInv' /\ OpenInv' /\ CameraInv' /\ MilvusInv'
    BY <1>4 DEF TypeOK, PlaceInv, OpenInv, CameraInv, MilvusInv, Untouched, Starting, Serving,
       Removing, Ending, LifespanAt, PipelineAt, PipelineAwaits, Disabled, PResumes, runtime,
       task, Resume, Goto, Turn, Coroutines, Computes
  <2> QED BY <2>1, <2>2
<1>5. CASE SyncEnds
  <2>1. TypeOK'
    BY <1>5 DEF TypeOK, SyncEnds, Goto, Coroutines
  <2>2. PlaceInv'
    BY <1>5 DEF TypeOK, PlaceInv, Starting, Serving, Removing, Ending, LifespanAt, PipelineAt,
       PipelineAwaits, SyncEnds, Turn, Goto, Coroutines, Computes
  <2>3. OpenInv'
    BY <1>5 DEF PlaceInv, OpenInv, Starting, Serving, Removing, Ending, LifespanAt, PipelineAt,
       PipelineAwaits, SyncEnds, Turn, Goto, Coroutines, Computes
  <2>4. CameraInv'
    BY <1>5 DEF TypeOK, PlaceInv, CameraInv, Untouched, Starting, Serving, Removing, Ending,
       LifespanAt, PipelineAt, PipelineAwaits, SyncEnds, Turn, Goto, Coroutines, Computes
  <2>5. MilvusInv'
    BY <1>5 DEF PlaceInv, CameraInv, MilvusInv, Untouched, Starting, Serving, Removing, Ending,
       LifespanAt, PipelineAt, PipelineAwaits, SyncEnds, Turn, Goto, Coroutines, Computes
  <2> QED BY <2>1, <2>2, <2>3, <2>4, <2>5
<1> QED
  BY <1>1, <1>2, <1>3, <1>4, <1>5

\* The loop of P and its own stop.
LEMMA LoopKeeps ==
  ASSUME IInv, LoopTop \/ Sleep \/ Due \/ ControlsDue \/ WaitForFrame \/ TakeFrame
           \/ Assigned \/ Dispatched \/ Finally \/ PipelineStopped
  PROVE  IInv'
<1> USE DEF IInv
<1>1. CASE LoopTop
  <2>1. TypeOK'
    BY <1>1 DEF TypeOK, LoopTop, Goto, runtime, task, Coroutines
  <2>2. PlaceInv' /\ OpenInv' /\ CameraInv' /\ MilvusInv'
    BY <1>1 DEF TypeOK, PlaceInv, OpenInv, CameraInv, MilvusInv, Untouched, Starting, Serving,
       Removing, Ending, LifespanAt, PipelineAt, PipelineAwaits, LoopTop, Turn, Goto, runtime,
       task, Coroutines, Computes
  <2> QED BY <2>1, <2>2
<1>2. CASE Sleep
  <2>1. TypeOK'
    BY <1>2 DEF TypeOK, Sleep, PResumes, runtime, task, Resume, Goto, Coroutines
  <2>2. PlaceInv' /\ OpenInv' /\ CameraInv' /\ MilvusInv'
    BY <1>2 DEF TypeOK, PlaceInv, OpenInv, CameraInv, MilvusInv, Untouched, Starting, Serving,
       Removing, Ending, LifespanAt, PipelineAt, PipelineAwaits, Sleep, PResumes, runtime, task,
       Resume, Goto, Turn, Coroutines, Computes
  <2> QED BY <2>1, <2>2
<1>3. CASE Due
  <2>1. TypeOK'
    BY <1>3 DEF TypeOK, Due, P, runtime, Goto, Coroutines
  <2>2. PlaceInv' /\ OpenInv' /\ CameraInv' /\ MilvusInv'
    BY <1>3 DEF TypeOK, PlaceInv, OpenInv, CameraInv, MilvusInv, Untouched, Starting, Serving,
       Removing, Ending, LifespanAt, PipelineAt, PipelineAwaits, Due, P, runtime, Turn, Goto,
       Coroutines, Computes
  <2> QED BY <2>1, <2>2
<1>4. CASE ControlsDue
  <2>1. TypeOK'
    BY <1>4 DEF TypeOK, ControlsDue, P, runtime, Goto, Coroutines
  <2>2. PlaceInv' /\ OpenInv' /\ CameraInv' /\ MilvusInv'
    BY <1>4 DEF TypeOK, PlaceInv, OpenInv, CameraInv, MilvusInv, Untouched, Starting, Serving,
       Removing, Ending, LifespanAt, PipelineAt, PipelineAwaits, ControlsDue, P, runtime, Turn,
       Goto, Coroutines, Computes
  <2> QED BY <2>1, <2>2
<1>5. CASE WaitForFrame
  <2>1. TypeOK'
    BY <1>5 DEF TypeOK, WaitForFrame, P, runtime, task, Goto, Coroutines
  <2>2. PlaceInv' /\ OpenInv' /\ CameraInv' /\ MilvusInv'
    BY <1>5 DEF TypeOK, PlaceInv, OpenInv, CameraInv, MilvusInv, Untouched, Starting, Serving,
       Removing, Ending, LifespanAt, PipelineAt, PipelineAwaits, WaitForFrame, P, runtime, task,
       Turn, Goto, Coroutines, Computes
  <2> QED BY <2>1, <2>2
<1>6. CASE TakeFrame
  <2>1. TypeOK'
    BY <1>6 DEF TypeOK, TakeFrame, Resume, Goto, Coroutines
  <2>2. PlaceInv' /\ OpenInv' /\ CameraInv' /\ MilvusInv'
    BY <1>6 DEF TypeOK, PlaceInv, OpenInv, CameraInv, MilvusInv, Untouched, Starting, Serving,
       Removing, Ending, LifespanAt, PipelineAt, PipelineAwaits, TakeFrame, Turn, Resume, Goto,
       Coroutines, Computes
  <2> QED BY <2>1, <2>2
<1>7. CASE Assigned
  <2>1. TypeOK'
    BY <1>7 DEF TypeOK, Assigned, Resume, Goto, runtime, task, Raise, Coroutines
  <2>2. PlaceInv' /\ OpenInv' /\ CameraInv' /\ MilvusInv'
    BY <1>7 DEF TypeOK, PlaceInv, OpenInv, CameraInv, MilvusInv, Untouched, Starting, Serving,
       Removing, Ending, LifespanAt, PipelineAt, PipelineAwaits, Assigned, Resume, Goto,
       runtime, task, Raise, Turn, Coroutines, Computes
  <2> QED BY <2>1, <2>2
<1>8. CASE Dispatched
  <2>1. TypeOK'
    BY <1>8 DEF TypeOK, Dispatched, PResumes, runtime, Resume, Goto, Coroutines
  <2>2. PlaceInv' /\ OpenInv' /\ CameraInv' /\ MilvusInv'
    BY <1>8 DEF TypeOK, PlaceInv, OpenInv, CameraInv, MilvusInv, Untouched, Starting, Serving,
       Removing, Ending, LifespanAt, PipelineAt, PipelineAwaits, Dispatched, PResumes, runtime,
       Resume, Goto, Turn, Coroutines, Computes
  <2> QED BY <2>1, <2>2
<1>9. CASE Finally
  <2>1. TypeOK'
    BY <1>9 DEF TypeOK, Finally, BeginStop, Coroutines, Goto
  <2>2. PlaceInv' /\ OpenInv' /\ CameraInv' /\ MilvusInv'
    BY <1>9 DEF TypeOK, PlaceInv, OpenInv, CameraInv, MilvusInv, Untouched, Starting, Serving,
       Removing, Ending, LifespanAt, PipelineAt, PipelineAwaits, Finally, Turn, BeginStop,
       Coroutines, Computes, Goto
  <2> QED BY <2>1, <2>2
<1>10. CASE PipelineStopped
  <2>1. TypeOK'
    BY <1>10 DEF TypeOK, PipelineStopped, P, runtime, task, Goto, Coroutines
  <2>2. PlaceInv' /\ OpenInv' /\ CameraInv' /\ MilvusInv'
    BY <1>10 DEF TypeOK, PlaceInv, OpenInv, CameraInv, MilvusInv, Untouched, Starting, Serving,
       Removing, Ending, LifespanAt, PipelineAt, PipelineAwaits, PipelineStopped, P, runtime,
       task, Turn, Goto, Coroutines, Computes
  <2> QED BY <2>1, <2>2
<1> QED
  BY <1>1, <1>2, <1>3, <1>4, <1>5, <1>6, <1>7, <1>8, <1>9, <1>10

\* The removal of a camera by the lifespan.
LEMMA RemovalKeepsL ==
  ASSUME IInv, Removal("L")
  PROVE  IInv'
<1> USE DEF IInv
<1>1. CASE Published("L")
  <2>1. TypeOK'
    BY <1>1 DEF TypeOK, Published, Goto, runtime, task, Coroutines
  <2>2. PlaceInv' /\ OpenInv' /\ CameraInv' /\ MilvusInv'
    BY <1>1 DEF TypeOK, PlaceInv, OpenInv, CameraInv, MilvusInv, Untouched, Starting, Serving,
       Removing, Ending, LifespanAt, PipelineAt, PipelineAwaits, Published, Turn, Goto, runtime,
       task, Coroutines, Computes
  <2> QED BY <2>1, <2>2
<1>2. CASE RemoveWorker("L")
  <2>1. TypeOK'
    BY <1>2 DEF TypeOK, RemoveWorker, Goto, task, Coroutines
  <2>2. PlaceInv' /\ OpenInv' /\ CameraInv' /\ MilvusInv'
    BY <1>2 DEF TypeOK, PlaceInv, OpenInv, CameraInv, MilvusInv, Untouched, Starting, Serving,
       Removing, Ending, LifespanAt, PipelineAt, PipelineAwaits, RemoveWorker, Turn, Goto, task,
       Coroutines, Computes
  <2> QED BY <2>1, <2>2
<1>3. CASE WorkerClosed("L")
  <2>1. TypeOK'
    BY <1>3 DEF TypeOK, WorkerClosed, Goto, runtime, task, Coroutines
  <2>2. PlaceInv' /\ OpenInv' /\ CameraInv' /\ MilvusInv'
    BY <1>3 DEF TypeOK, PlaceInv, OpenInv, CameraInv, MilvusInv, Untouched, Starting, Serving,
       Removing, Ending, LifespanAt, PipelineAt, PipelineAwaits, WorkerClosed, Turn, Goto,
       runtime, task, Coroutines, Computes
  <2> QED BY <2>1, <2>2
<1>4. CASE StopNext("L")
  <2>1. TypeOK'
    BY <1>4 DEF TypeOK, StopNext, RemoveCamera, runtime, task, Coroutines, Goto
  <2>2. PlaceInv' /\ OpenInv' /\ CameraInv' /\ MilvusInv'
    BY <1>4 DEF TypeOK, PlaceInv, OpenInv, CameraInv, MilvusInv, Untouched, Starting, Serving,
       Removing, Ending, LifespanAt, PipelineAt, PipelineAwaits, StopNext, Turn, RemoveCamera,
       runtime, task, Coroutines, Computes, Goto
  <2> QED BY <2>1, <2>2
<1> QED
  BY <1>1, <1>2, <1>3, <1>4 DEF Removal

\* The removal of a camera by the pipeline.
LEMMA RemovalKeepsP ==
  ASSUME IInv, Removal("P")
  PROVE  IInv'
<1> USE DEF IInv
<1>1. CASE Published("P")
  <2>1. TypeOK'
    BY <1>1 DEF TypeOK, Published, Goto, runtime, task, Coroutines
  <2>2. PlaceInv' /\ OpenInv' /\ CameraInv' /\ MilvusInv'
    BY <1>1 DEF TypeOK, PlaceInv, OpenInv, CameraInv, MilvusInv, Untouched, Starting, Serving,
       Removing, Ending, LifespanAt, PipelineAt, PipelineAwaits, Published, Turn, Goto, runtime,
       task, Coroutines, Computes
  <2> QED BY <2>1, <2>2
<1>2. CASE RemoveWorker("P")
  <2>1. TypeOK'
    BY <1>2 DEF TypeOK, RemoveWorker, Goto, task, Coroutines
  <2>2. PlaceInv' /\ OpenInv' /\ CameraInv' /\ MilvusInv'
    BY <1>2 DEF TypeOK, PlaceInv, OpenInv, CameraInv, MilvusInv, Untouched, Starting, Serving,
       Removing, Ending, LifespanAt, PipelineAt, PipelineAwaits, RemoveWorker, Turn, Goto, task,
       Coroutines, Computes
  <2> QED BY <2>1, <2>2
<1>3. CASE WorkerClosed("P")
  <2>1. TypeOK'
    BY <1>3 DEF TypeOK, WorkerClosed, Goto, runtime, task, Coroutines
  <2>2. PlaceInv' /\ OpenInv' /\ CameraInv' /\ MilvusInv'
    BY <1>3 DEF TypeOK, PlaceInv, OpenInv, CameraInv, MilvusInv, Untouched, Starting, Serving,
       Removing, Ending, LifespanAt, PipelineAt, PipelineAwaits, WorkerClosed, Turn, Goto,
       runtime, task, Coroutines, Computes
  <2> QED BY <2>1, <2>2
<1>4. CASE StopNext("P")
  <2>1. TypeOK'
    BY <1>4 DEF TypeOK, StopNext, RemoveCamera, runtime, task, Coroutines, Goto
  <2>2. PlaceInv' /\ OpenInv' /\ CameraInv' /\ MilvusInv'
    BY <1>4 DEF TypeOK, PlaceInv, OpenInv, CameraInv, MilvusInv, Untouched, Starting, Serving,
       Removing, Ending, LifespanAt, PipelineAt, PipelineAwaits, StopNext, Turn, RemoveCamera,
       runtime, task, Coroutines, Computes, Goto
  <2> QED BY <2>1, <2>2
<1> QED
  BY <1>1, <1>2, <1>3, <1>4 DEF Removal

\* A frame that arrives and a step of something else change nothing the invariant is about.
LEMMA FrameKeeps ==
  ASSUME IInv, FrameArrives \/ UNCHANGED vars
  PROVE  IInv'
<1>1. CASE FrameArrives
  <2>1. UNCHANGED <<pc, todo, cur, opened, running, active, orch, task, cancelled>>
    BY <1>1 DEF FrameArrives
  <2>2. queue' \subseteq Cameras
    BY <1>1 DEF FrameArrives, IInv, TypeOK
  <2> QED
    BY <2>1, <2>2 DEF IInv, TypeOK, PlaceInv, OpenInv, CameraInv, MilvusInv, Untouched, task
<1>2. CASE UNCHANGED vars
  BY <1>2 DEF IInv, TypeOK, PlaceInv, OpenInv, CameraInv, MilvusInv, Untouched, vars, runtime,
     task
<1> QED
  BY <1>1, <1>2

\* At first nothing is open and P does not exist.
LEMMA InitInv == Init => IInv
<1> SUFFICES ASSUME Init PROVE IInv
  OBVIOUS
<1>1. todo \in [Coroutines -> SUBSET Cameras] /\ cur \in [Coroutines -> Cameras \cup {None}]
  BY DEF Init
<1>2. /\ opened = {} /\ active = {} /\ orch = {} /\ queue = {} /\ target = {} /\ bundle = {}
      /\ job = "start" /\ outcome = "returned"
  BY DEF Init
<1>3. ~running /\ ~cancelled /\ running \in BOOLEAN /\ cancelled \in BOOLEAN
      /\ swallowed \in BOOLEAN
  BY Zenon DEF Init
<1>4. TypeOK
  BY <1>1, <1>2, <1>3 DEF TypeOK
<1>5. DOMAIN pc = Coroutines /\ pc["L"] = "database" /\ pc["P"] = "absent"
  BY DEF Init, Coroutines
<1>6. PlaceInv
  BY <1>2, <1>3, <1>5 DEF PlaceInv, Starting, Ending, LifespanAt, PipelineAt
<1>7. OpenInv /\ CameraInv /\ MilvusInv
  BY <1>2, <1>5 DEF OpenInv, CameraInv, MilvusInv, Untouched, Removing, Ending
<1> QED
  BY <1>4, <1>6, <1>7 DEF IInv

LEMMA NextKeeps == IInv /\ [Next]_vars => IInv'
<1> SUFFICES ASSUME IInv, [Next]_vars PROVE IInv'
  OBVIOUS
<1>1. CASE Startup
  BY <1>1, StartupKeeps
<1>2. CASE Serve \/ Shutdown
  BY <1>2, ShutdownKeeps
<1>3. CASE Pipeline
  BY <1>3, RefreshKeeps, ControlsKeep, LoopKeeps DEF Pipeline
<1>4. ASSUME NEW x \in Coroutines, Removal(x) PROVE IInv'
  <2>1. x = "L" \/ x = "P"
    BY DEF Coroutines
  <2> QED
    BY <1>4, <2>1, RemovalKeepsL, RemovalKeepsP
<1>5. CASE FrameArrives \/ UNCHANGED vars
  BY <1>5, FrameKeeps
<1> QED
  BY <1>1, <1>2, <1>3, <1>4, <1>5 DEF Next

LEMMA Invariance == Spec => []IInv
<1> QED
  BY InitInv, NextKeeps, PTL DEF Spec

-----------------------------------------------------------------------------
(* The results.                                                            *)

\* Every variable keeps its type, for any cameras and either fault.
THEOREM TypeCorrect == Spec => []TypeOK
<1>1. IInv => TypeOK
  BY DEF IInv
<1> QED
  BY <1>1, Invariance, PTL

\* A capture worker always has the frame buffer it publishes to, a listing and an
\* inference worker the database, whatever the order in which the lifespan and the
\* pipeline start and stop (backend/src/main.py 240-251).
THEOREM AlwaysWorksWithOpen == Spec => []WorksWithOpen
<1>1. ASSUME IInv PROVE WorksWithOpen
  <2>1. active # {} => "buffer" \in opened \/ outcome = "interrupted"
    BY <1>1 DEF IInv, PlaceInv, OpenInv, CameraInv, Ending
  <2>2. pc["P"] \in {"listing", "controls"} => "database" \in opened
    BY <1>1 DEF IInv, PlaceInv, OpenInv, Ending
  <2>3. orch # {} => "database" \in opened
    BY <1>1 DEF IInv, PlaceInv, OpenInv, CameraInv, Ending
  <2> QED
    BY <2>1, <2>2, <2>3 DEF WorksWithOpen
<1> QED
  BY <1>1, Invariance, PTL

\* A shutdown that comes to its end leaves no camera captured, no inference worker and
\* nothing open, unless the task was cancelled in its own stop (runtime.py:179).
THEOREM AlwaysStoppedCleanly == Spec => []StoppedCleanly
<1>1. ASSUME IInv, pc["L"] = "done", outcome # "interrupted"
      PROVE  /\ active = {} /\ orch = {}
             /\ opened \subseteq IF job = "start" THEN {"milvus"} ELSE {}
  <2>1. pc["P"] = "ended" /\ active = {} /\ orch = {}
    BY <1>1 DEF IInv, PlaceInv, CameraInv, Ending
  <2>2. opened \subseteq {"milvus"}
    BY <1>1 DEF IInv, TypeOK, Resources, OpenInv, Ending
  <2>3. job # "start" => "milvus" \notin opened
    <3>1. job \in {"start", "stop"}
      BY <1>1, <2>1 DEF IInv, TypeOK, PlaceInv, PipelineAt, Removing
    <3>2. ~running
      BY <1>1, <3>1 DEF IInv, PlaceInv
    <3> QED
      BY <1>1, <2>1, <3>2 DEF IInv, MilvusInv, Removing
  <2> QED
    BY <2>1, <2>2, <2>3
<1>2. IInv => StoppedCleanly
  BY <1>1 DEF StoppedCleanly
<1> QED
  BY <1>2, Invariance, PTL
=============================================================================
