--------------------------- MODULE InferenceControl ---------------------------
(***************************************************************************)
(* Who gets an inference worker.  HTTP requests edit the camera rows and   *)
(* the stream controls in PostgreSQL; the pipeline loop reads them back    *)
(* every so often and starts, stops and reconfigures one worker per camera *)
(* through the InferenceManager, which DELETE /cameras calls as well       *)
(* (backend/src: services/stream/stream_control_service.py,                *)
(* services/camera/camera_service.py, routes/*.py,                         *)
(* opencv_pipeline/runtime.py, services/inference/manager.py).             *)
(*                                                                         *)
(* Everything runs on one event loop, so an action extends from one await  *)
(* that suspends to the next: a query, the connection to Triton, the close *)
(* of a worker.  The loop is assumed to come round again and again; that   *)
(* it does so only while frames arrive is the subject of PipelineRuntime.  *)
(***************************************************************************)
EXTENDS Naturals, FiniteSets

CONSTANTS
  Cameras,
  Requests,         (* The HTTP requests that may be under way at a time.  *)
  Strategies,       (* The strategies a control may name.                  *)
  DefaultStrategy,  (* opencv_pipeline_inference_strategy.                 *)
  None,             (* No worker, no control, nothing set.                 *)
  EditedFields,     (* The fields the requests of this instance change ... *)
  MaxFields,        (* ... and how many at a time (bounds of the model).   *)
  MaxEdits          (* Bound of the model: requests that are served.       *)

Tables == [put |-> {"status", "direct", "host"}, patch |-> {"enabled", "strategy"}]

Fields == UNION {Tables[kind] : kind \in DOMAIN Tables}

Sources == {"direct url", "host and path"}

ASSUME StrategiesAssumption == DefaultStrategy \in Strategies /\ None \notin Strategies \cup Sources
ASSUME EditsAssumption == EditedFields \subseteq Fields /\ MaxFields \in Nat /\ MaxEdits \in Nat

VARIABLES
  present,   (* Cameras whose row is in the cameras table ...              *)
  known,     (* ... or was: an id is not used again.                       *)
  row,       (* Their rows, joined with the metadata of stream_state.      *)
  request,   (* Where each request is, and what it has read.               *)
  edits,     (* Requests served so far (bound of the model).               *)
  active,    (* _active_cameras.                                           *)
  source,    (* The source each active camera was started with.            *)
  controls,  (* _camera_inference_controls: the strategy, or None.         *)
  workers,   (* The manager's _orchestrators and _schedulers: the strategy *)
             (* each worker runs, or None.                                 *)
  ppc,       (* Where the pipeline loop is.                                *)
  listed,    (* The active rows the refresh in progress has read.          *)
  todo,      (* Cameras its current for loop has yet to visit.             *)
  cur        (* The camera it is suspended on.                             *)

database == <<present, known, row>>
http == <<request, edits>>
runtime == <<active, source, controls>>
iteration == <<listed, todo, cur>>
vars == <<database, http, runtime, workers, ppc, iteration>>

Statuses == {"active", "inactive"}

Row == [status : Statuses, direct : {"direct url", None}, host : {"host and path", None},
        enabled : {"on", "off", None}, strategy : Strategies \cup {None}]

\* build_rtsp_url; without a source it raises, which ends the pipeline's loop.
SourceOf(fields) == IF fields.direct # None THEN fields.direct ELSE fields.host

\* What a request may set a field to.
Settable ==
  [status |-> Statuses, direct |-> {"direct url", None}, host |-> {"host and path", None},
   enabled |-> {"on", "off"}, strategy |-> Strategies]

ChangesOf(fields) ==
  {change \in [fields -> UNION {Settable[f] : f \in fields}] :
     \A f \in fields : change[f] \in Settable[f]}

Changes(kind) ==
  UNION {ChangesOf(fields) :
           fields \in {F \in SUBSET (Tables[kind] \cap EditedFields) :
                         Cardinality(F) \in 1 .. MaxFields}}

NoRequest == [phase |-> "none"]

LoopStates == {"loop", "refresh", "removing", "dropping", "sync", "syncing", "disabling",
               "connecting"}

Init ==
  /\ present \in SUBSET Cameras
  /\ known = present
  /\ row = [c \in Cameras |-> [status |-> "active", direct |-> "direct url",
                               host |-> "host and path", enabled |-> None, strategy |-> None]]
  /\ request = [r \in Requests |-> NoRequest]
  /\ edits = 0
  /\ active = {}
  /\ source = [c \in Cameras |-> "direct url"]
  /\ controls = [c \in Cameras |-> None]
  /\ workers = [c \in Cameras |-> None]
  /\ ppc = "loop"
  /\ listed = <<>>
  /\ todo = {}
  /\ cur = None

\* _resolve_camera_inference_enabled and _resolve_camera_inference_strategy.
Enabled(fields) == fields.enabled # "off"

Strategy(fields) == IF fields.strategy = None THEN DefaultStrategy ELSE fields.strategy

ActiveRows == {c \in present : row[c].status = "active"}

-----------------------------------------------------------------------------
(* HTTP requests.                                                          *)

\* POST /cameras.
Create(r, c) ==
  /\ request[r] = NoRequest
  /\ edits < MaxEdits
  /\ c \notin known
  /\ known' = known \cup {c} /\ present' = present \cup {c}
  /\ \E new \in Row :
       /\ SourceOf(new) # None /\ new.enabled = None /\ new.strategy = None
       /\ row' = [row EXCEPT ![c] = new]
  /\ edits' = edits + 1
  /\ UNCHANGED <<request, runtime, workers, ppc, iteration>>

\* PUT /cameras/{id} and PATCH /streams/{id}/inference read the row first.
Read(r, kind, c, change) ==
  /\ request[r] = NoRequest
  /\ edits < MaxEdits
  /\ c \in present
  /\ request' = [request EXCEPT ![r] = [phase |-> "read", kind |-> kind, cam |-> c,
                                        change |-> change, copy |-> row[c]]]
  /\ edits' = edits + 1
  /\ UNCHANGED <<database, runtime, workers, ppc, iteration>>

\* ... change its copy, which must keep a source ...
Merged(q) ==
  [f \in Tables[q.kind] |-> IF f \in DOMAIN q.change THEN q.change[f] ELSE q.copy[f]]

Accepted(q) == q.kind = "put" => SourceOf(Merged(q)) # None

\* Fault: only the fields that change are written.
WrittenSparse(q) ==
  [f \in Fields |-> IF f \in DOMAIN q.change THEN q.change[f] ELSE row[q.cam][f]]

\* ... and write every field of its table back, changed or as it was read.
Written(q) ==
  [f \in Fields |-> IF f \in Tables[q.kind] THEN Merged(q)[f] ELSE row[q.cam][f]]

\* The camera may be gone by then: the request fails.
Write(r) ==
  /\ request[r].phase = "read"
  /\ row' = IF request[r].cam \in present /\ Accepted(request[r])
            THEN [row EXCEPT ![request[r].cam] = Written(request[r])] ELSE row
  /\ request' = [request EXCEPT ![r] = NoRequest]
  /\ UNCHANGED <<present, known, edits, runtime, workers, ppc, iteration>>

\* DELETE /cameras/{id} deletes the row, then stops the camera's worker.
Delete(r, c) ==
  /\ request[r] = NoRequest
  /\ edits < MaxEdits
  /\ c \in present
  /\ present' = present \ {c}
  /\ request' = [request EXCEPT ![r] = [phase |-> "deleted", cam |-> c]]
  /\ edits' = edits + 1
  /\ UNCHANGED <<known, row, runtime, workers, ppc, iteration>>

StopDeleted(r) ==
  /\ request[r].phase = "deleted"
  /\ workers' = [workers EXCEPT ![request[r].cam] = None]
  /\ request' = [request EXCEPT ![r] = NoRequest]
  /\ UNCHANGED <<database, edits, runtime, ppc, iteration>>

Serve(r) ==
  \/ \E c \in Cameras, kind \in DOMAIN Tables : \E change \in Changes(kind) :
       Read(r, kind, c, change)
  \/ \E c \in Cameras : Create(r, c) \/ Delete(r, c)
  \/ Write(r) \/ StopDeleted(r)

-----------------------------------------------------------------------------
(* refresh_cameras: capture workers follow the active rows.                *)

ReadForRefresh ==
  /\ ppc = "loop"
  /\ ppc' = "refresh"
  /\ listed' = [c \in ActiveRows |-> row[c]]
  /\ UNCHANGED <<database, http, runtime, workers, todo, cur>>

\* The cameras that are no longer listed, or have another source by now.
BeginRefresh ==
  /\ ppc = "refresh"
  /\ ppc' = "removing"
  /\ todo' = {c \in active : c \notin DOMAIN listed \/ SourceOf(listed[c]) # source[c]}
  /\ UNCHANGED <<database, http, runtime, workers, listed, cur>>

\* _remove_camera up to its first await, the publication of identity events.
RemoveCamera(c) ==
  /\ ppc = "removing"
  /\ c \in todo
  /\ active' = active \ {c}
  /\ controls' = [controls EXCEPT ![c] = None]
  /\ todo' = todo \ {c}
  /\ cur' = c
  /\ ppc' = "dropping"
  /\ UNCHANGED <<database, http, source, workers, listed>>

\* Fault: the worker of a removed camera is left running.
DropWorkerForgotten ==
  /\ ppc = "dropping"
  /\ cur' = None
  /\ ppc' = "removing"
  /\ UNCHANGED <<database, http, runtime, workers, listed, todo>>

\* ... and InferenceManager.remove_camera.
DropWorker ==
  /\ ppc = "dropping"
  /\ workers' = [workers EXCEPT ![cur] = None]
  /\ cur' = None
  /\ ppc' = "removing"
  /\ UNCHANGED <<database, http, runtime, listed, todo>>

\* The head of _sync_inference_controls: the controls of cameras that are not
\* listed are forgotten; the others are visited one by one.
BeginControls(cameras) ==
  /\ controls' = [c \in Cameras |-> IF c \in DOMAIN listed \cap cameras THEN controls[c] ELSE None]
  /\ todo' = DOMAIN listed \cap cameras
  /\ ppc' = "syncing"

\* The listed cameras get capture workers, and the controls are applied.
StartCameras ==
  /\ ppc = "removing"
  /\ todo = {}
  /\ active' = DOMAIN listed
  /\ source' = [c \in Cameras |-> IF c \in DOMAIN listed THEN SourceOf(listed[c]) ELSE source[c]]
  /\ BeginControls(DOMAIN listed)
  /\ UNCHANGED <<database, http, workers, listed, cur>>

-----------------------------------------------------------------------------
(* sync_inference_controls, and _sync_inference_controls for both callers. *)

ReadForSync ==
  /\ ppc = "loop"
  /\ active # {}
  /\ ppc' = "sync"
  /\ listed' = [c \in ActiveRows |-> row[c]]
  /\ UNCHANGED <<database, http, runtime, workers, todo, cur>>

BeginSync ==
  /\ ppc = "sync"
  /\ BeginControls(active)
  /\ UNCHANGED <<database, http, active, source, workers, listed, cur>>

Visit(c) ==
  /\ ppc = "syncing"
  /\ c \in todo
  /\ todo' = todo \ {c}

\* The control is as recorded, or the camera is disabled and has none.
LeaveControl(c) ==
  /\ Visit(c)
  /\ \/ ~Enabled(listed[c]) /\ controls[c] = None
     \/ Enabled(listed[c]) /\ controls[c] = Strategy(listed[c])
  /\ UNCHANGED <<database, http, runtime, workers, ppc, listed, cur>>

\* Disabled: remove_camera stops the worker and awaits its close; only then is
\* the control forgotten.
Disable(c) ==
  /\ Visit(c)
  /\ ~Enabled(listed[c])
  /\ controls[c] # None
  /\ workers' = [workers EXCEPT ![c] = None]
  /\ cur' = c
  /\ ppc' = "disabling"
  /\ UNCHANGED <<database, http, runtime, listed>>

EndDisable ==
  /\ ppc = "disabling"
  /\ controls' = [controls EXCEPT ![cur] = None]
  /\ cur' = None
  /\ ppc' = "syncing"
  /\ UNCHANGED <<database, http, active, source, workers, listed, todo>>

\* Fault: configure_stream starts a worker even if the camera still has one.
EnableAnyway(c) ==
  /\ Visit(c)
  /\ Enabled(listed[c])
  /\ controls[c] = None
  /\ cur' = c
  /\ ppc' = "connecting"
  /\ UNCHANGED <<database, http, runtime, workers, listed>>

\* No control is recorded: configure_stream starts a worker, which connects to
\* Triton first; if the camera still has one, it gets the strategy instead.
Enable(c) ==
  /\ Visit(c)
  /\ Enabled(listed[c])
  /\ controls[c] = None
  /\ IF workers[c] = None
     THEN cur' = c /\ ppc' = "connecting" /\ UNCHANGED <<controls, workers>>
     ELSE /\ workers' = [workers EXCEPT ![c] = Strategy(listed[c])]
          /\ controls' = [controls EXCEPT ![c] = Strategy(listed[c])]
          /\ UNCHANGED <<cur, ppc>>
  /\ UNCHANGED <<database, http, active, source, listed>>

\* Connected, or failed to: the worker starts in either case.
Connected ==
  /\ ppc = "connecting"
  /\ workers' = [workers EXCEPT ![cur] = Strategy(listed[cur])]
  /\ controls' = [controls EXCEPT ![cur] = Strategy(listed[cur])]
  /\ cur' = None
  /\ ppc' = "syncing"
  /\ UNCHANGED <<database, http, active, source, listed, todo>>

\* Fault: the new strategy is recorded but not passed to the worker.
ReconfigureUnpassed(c) ==
  /\ Visit(c)
  /\ Enabled(listed[c])
  /\ controls[c] \notin {None, Strategy(listed[c])}
  /\ controls' = [controls EXCEPT ![c] = Strategy(listed[c])]
  /\ UNCHANGED <<database, http, active, source, workers, ppc, listed, cur>>

\* Another strategy: configure_stream passes it to the worker, if there is one.
Reconfigure(c) ==
  /\ Visit(c)
  /\ Enabled(listed[c])
  /\ controls[c] \notin {None, Strategy(listed[c])}
  /\ workers' = [workers EXCEPT ![c] = IF @ = None THEN None ELSE Strategy(listed[c])]
  /\ controls' = [controls EXCEPT ![c] = Strategy(listed[c])]
  /\ UNCHANGED <<database, http, active, source, ppc, listed, cur>>

EndSync ==
  /\ ppc = "syncing"
  /\ todo = {}
  /\ ppc' = "loop"
  /\ listed' = <<>>
  /\ UNCHANGED <<database, http, runtime, workers, todo, cur>>

Refresh == ReadForRefresh \/ BeginRefresh \/ DropWorker \/ StartCameras
           \/ \E c \in Cameras : RemoveCamera(c)

Sync == ReadForSync \/ BeginSync \/ EndDisable \/ Connected \/ EndSync
        \/ \E c \in Cameras : LeaveControl(c) \/ Disable(c) \/ Enable(c) \/ Reconfigure(c)

Next == (\E r \in Requests : Serve(r)) \/ Refresh \/ Sync

Spec == Init /\ [][Next]_vars

\* Both refreshes come round again and again, suspended calls return, and
\* requests under way are finished.  Nothing is assumed of new requests.
FairSpec ==
  /\ Spec
  /\ SF_vars(ReadForRefresh) /\ SF_vars(ReadForSync)
  /\ WF_vars(ppc # "loop" /\ (Refresh \/ Sync))
  /\ \A r \in Requests : WF_vars(Write(r) \/ StopDeleted(r))

-----------------------------------------------------------------------------
(* Properties.                                                             *)

RequestState ==
  {NoRequest}
    \cup [phase : {"deleted"}, cam : Cameras]
    \cup UNION {[phase : {"read"}, kind : {kind}, cam : Cameras, change : Changes(kind), copy : Row] :
                  kind \in DOMAIN Tables}

\* The type invariant: every variable has its type, and controls are recorded for
\* active cameras only.
TypeOK ==
  /\ present \subseteq known /\ known \subseteq Cameras
  /\ row \in [Cameras -> Row]
  /\ request \in [Requests -> RequestState]
  /\ edits \in Nat
  /\ active \subseteq Cameras
  /\ source \in [Cameras -> Sources]
  /\ controls \in [Cameras -> Strategies \cup {None}]
  /\ {c \in Cameras : controls[c] # None} \subseteq active
  /\ workers \in [Cameras -> Strategies \cup {None}]
  /\ ppc \in LoopStates
  /\ DOMAIN listed \subseteq Cameras
  /\ listed \in [DOMAIN listed -> Row]
  /\ todo \subseteq Cameras
  /\ cur \in Cameras \cup {None}

\* Every row has a source, whatever requests clear which part of it at the same time:
\* each writes the whole row it has checked (camera_service.py 148-167).  The table's own
\* rtsp_source_check refuses only parts that are null, and a request may clear one with an
\* empty string as well (camera_requests.py:44); such a row without a source would end the
\* pipeline at its next refresh (ffmpeg.py:28, runtime.py:246).
RowsKeepSource == \A c \in present : SourceOf(row[c]) # None

\* A worker that is being started replaces no other: while it connects to Triton
\* the camera has none, whatever the requests do, so no consume loop is ever left
\* running without an owner (manager.py 107-108, 151-203).
StartReplacesNothing == ppc = "connecting" => workers[cur] = None

\* Between two refreshes, a control recorded for a camera is what its worker does,
\* unless the camera was deleted meanwhile, which stops its worker behind the back
\* of the loop (runtime.py 355-391).
ControlsMatchWorkers ==
  ppc = "loop" =>
    \A c \in present : controls[c] # None => controls[c] = workers[c]

\* What PostgreSQL asks for.
Wanted(c) ==
  IF c \in ActiveRows /\ Enabled(row[c]) THEN Strategy(row[c]) ELSE None

\* Once the requests stop, the workers come to be what the rows ask for and
\* remain so: every enabled camera has a worker with its strategy, no other has.
WorkersFollowRows == <>[](\A c \in Cameras : workers[c] = Wanted(c))

\* The same for cameras that are never set to inactive.  One that is, and becomes
\* active again before the next refresh, may keep a worker nobody wants (353).
SteadyWorkersFollowRows ==
  [](\A c \in Cameras : row[c].status = "active") => WorkersFollowRows
=============================================================================
