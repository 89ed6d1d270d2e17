----------------------- MODULE InferenceControlProofs -----------------------
(***************************************************************************)
(* Proofs about the inference controls, for any number of cameras,         *)
(* requests and strategies, and any number of requests served.             *)
(***************************************************************************)
EXTENDS InferenceControl, TLAPS

USE StrategiesAssumption, EditsAssumption

(***************************************************************************)
(* Types.                                                                  *)
(***************************************************************************)

LEMMA EmptyListing ==
  DOMAIN <<>> = {} /\ <<>> \in [DOMAIN <<>> -> Row]
OBVIOUS

LEMMA StrategyType ==
  ASSUME NEW fields \in Row
  PROVE  Strategy(fields) \in Strategies
BY DEF Strategy, Row

\* What a request sets is of the type of its field.
LEMMA ChangeType ==
  ASSUME NEW kind \in DOMAIN Tables, NEW change \in Changes(kind), NEW f \in DOMAIN change
  PROVE  f \in Fields /\ change[f] \in Settable[f]
BY DEF Changes, ChangesOf, Fields

\* A row that is written is a row again; its source is that of the checked copy, or
\* of the row as it was.
LEMMA WrittenType ==
  ASSUME NEW q \in RequestState, q.phase = "read", TypeOK
  PROVE  /\ Written(q) \in Row
         /\ q.kind = "put" => SourceOf(Written(q)) = SourceOf(Merged(q))
         /\ q.kind # "put" => SourceOf(Written(q)) = SourceOf(row[q.cam])
<1>1. q.kind \in DOMAIN Tables /\ q.cam \in Cameras /\ q.change \in Changes(q.kind) /\ q.copy \in Row
  BY DEF RequestState, NoRequest
<1>2. row[q.cam] \in Row
  BY <1>1 DEF TypeOK
<1>3. Fields = {"status", "direct", "host", "enabled", "strategy"}
  BY DEF Fields, Tables
<1> DEFINE value(f) == IF f \in Tables[q.kind] THEN Merged(q)[f] ELSE row[q.cam][f]
<1>4. \A f \in DOMAIN q.change : q.change[f] \in Settable[f]
  BY <1>1, ChangeType
<1>5. value("status") \in Statuses
  BY <1>1, <1>2, <1>4 DEF Row, Settable, Merged
<1>6. value("direct") \in {"direct url", None}
  BY <1>1, <1>2, <1>4 DEF Row, Settable, Merged
<1>7. value("host") \in {"host and path", None}
  BY <1>1, <1>2, <1>4 DEF Row, Settable, Merged
<1>8. value("enabled") \in {"on", "off", None}
  BY <1>1, <1>2, <1>4 DEF Row, Settable, Merged
<1>9. value("strategy") \in Strategies \cup {None}
  BY <1>1, <1>2, <1>4 DEF Row, Settable, Merged
<1>10. Written(q) = [f \in Fields |-> value(f)]
  BY DEF Written
<1>11. /\ q.kind = "put" => value("direct") = Merged(q).direct /\ value("host") = Merged(q).host
       /\ q.kind # "put" => value("direct") = row[q.cam].direct /\ value("host") = row[q.cam].host
  BY <1>1 DEF Tables
<1> HIDE DEF value
<1> QED BY <1>3, <1>5, <1>6, <1>7, <1>8, <1>9, <1>10, <1>11 DEF Row, SourceOf

LEMMA CreateType ==
  ASSUME TypeOK, NEW r \in Requests, NEW c \in Cameras, Create(r, c)
  PROVE  TypeOK'
BY DEF TypeOK, Create, runtime, iteration

LEMMA ReadType ==
  ASSUME TypeOK, NEW r \in Requests, NEW kind \in DOMAIN Tables, NEW c \in Cameras,
         NEW change \in Changes(kind), Read(r, kind, c, change)
  PROVE  TypeOK'
<1>1. [phase |-> "read", kind |-> kind, cam |-> c, change |-> change, copy |-> row[c]]
        \in RequestState
  BY DEF TypeOK, RequestState
<1>2. request' \in [Requests -> RequestState]
  BY <1>1 DEF TypeOK, Read
<1> QED BY <1>2 DEF TypeOK, Read, database, runtime, iteration

LEMMA WriteType ==
  ASSUME TypeOK, NEW r \in Requests, Write(r)
  PROVE  TypeOK'
<1>1. request[r] \in RequestState /\ request[r].phase = "read" /\ NoRequest \in RequestState
  BY DEF TypeOK, Write, RequestState
<1>2. Written(request[r]) \in Row
  BY <1>1, WrittenType
<1>3. row' \in [Cameras -> Row] /\ request' \in [Requests -> RequestState]
  BY <1>1, <1>2 DEF TypeOK, Write
<1> QED BY <1>3 DEF TypeOK, Write, runtime, iteration

LEMMA DeleteType ==
  ASSUME TypeOK, NEW r \in Requests, NEW c \in Cameras, Delete(r, c)
  PROVE  TypeOK'
<1>1. [phase |-> "deleted", cam |-> c] \in RequestState
  BY DEF RequestState
<1>2. request' \in [Requests -> RequestState]
  BY <1>1 DEF TypeOK, Delete
<1> QED BY <1>2 DEF TypeOK, Delete, runtime, iteration

LEMMA StopDeletedType ==
  ASSUME TypeOK, NEW r \in Requests, StopDeleted(r)
  PROVE  TypeOK'
<1>1. NoRequest \in RequestState
  BY DEF RequestState
<1>2. request' \in [Requests -> RequestState]
  BY <1>1 DEF TypeOK, StopDeleted
<1> QED BY <1>2 DEF TypeOK, StopDeleted, database, runtime, iteration

\* Where the loop is suspended and what it may rely on there: the camera it works
\* on; that no control is kept for a camera being removed; that the cameras it has
\* yet to visit are listed and active; that a worker is started for a camera that
\* has none; that only deleted cameras lose their worker from outside.
SuspensionInv ==
  /\ ppc \in {"dropping", "disabling", "connecting"} => cur \in Cameras
  /\ ppc = "dropping" => controls[cur] = None
  /\ ppc \in {"disabling", "connecting"} => cur \in DOMAIN listed \cap active
  /\ ppc \in {"syncing", "disabling", "connecting"} => todo \subseteq DOMAIN listed \cap active
  /\ StartReplacesNothing

\* Every row has a source, and so has what the loop has read of it.
SourcesInv ==
  /\ RowsKeepSource
  /\ \A c \in DOMAIN listed : SourceOf(listed[c]) # None

\* A recorded control is what the worker does, except while the worker is closing.
AgreementInv ==
  /\ \A r \in Requests :
       request[r].phase = "deleted" => request[r].cam \in known \ present
  /\ DOMAIN listed \subseteq known
  /\ \A c \in Cameras \ known : controls[c] = None
  /\ \A c \in present :
       controls[c] # None => controls[c] = workers[c] \/ (ppc = "disabling" /\ cur = c)

ControlInv == TypeOK /\ SuspensionInv /\ SourcesInv

LEMMA WriteKeepsSource ==
  ASSUME ControlInv, NEW r \in Requests, Write(r)
  PROVE  RowsKeepSource'
<1>1. request[r] \in RequestState /\ request[r].phase = "read"
  BY DEF ControlInv, TypeOK, Write, RequestState
<1>2. request[r].cam \in present /\ Accepted(request[r]) => SourceOf(Written(request[r])) # None
  BY <1>1, WrittenType DEF ControlInv, SourcesInv, RowsKeepSource, Accepted
<1> QED BY <1>2 DEF Write, ControlInv, TypeOK, SourcesInv, RowsKeepSource

LEMMA RefreshKeeps ==
  ASSUME ControlInv, Refresh
  PROVE  ControlInv'
<1> USE DEF ControlInv, TypeOK, SuspensionInv, StartReplacesNothing, LoopStates,
           SourcesInv, RowsKeepSource
<1>1. CASE ReadForRefresh
  BY <1>1 DEF ReadForRefresh, ActiveRows, database, http, runtime
<1>2. CASE BeginRefresh
  BY <1>2 DEF BeginRefresh, database, http, runtime
<1>3. CASE DropWorker
  BY <1>3 DEF DropWorker, database, http, runtime
<1>4. CASE StartCameras
  BY <1>4 DEF StartCameras, BeginControls, database, http, Row, SourceOf, Sources
<1>5. ASSUME NEW c \in Cameras, RemoveCamera(c)
      PROVE  ControlInv'
  BY <1>5 DEF RemoveCamera, database, http
<1> QED BY <1>1, <1>2, <1>3, <1>4, <1>5 DEF Refresh

LEMMA SyncKeeps ==
  ASSUME ControlInv, Sync
  PROVE  ControlInv'
<1> USE DEF ControlInv, TypeOK, SuspensionInv, StartReplacesNothing, LoopStates,
           SourcesInv, RowsKeepSource
<1>1. CASE ReadForSync
  BY <1>1 DEF ReadForSync, ActiveRows, database, http, runtime
<1>2. CASE BeginSync
  BY <1>2 DEF BeginSync, BeginControls, database, http
<1>3. CASE EndDisable
  BY <1>3 DEF EndDisable, database, http
<1>4. CASE Connected
  BY <1>4, StrategyType DEF Connected, database, http
<1>5. CASE EndSync
  BY <1>5, EmptyListing DEF EndSync, database, http, runtime
<1>6. ASSUME NEW c \in Cameras, LeaveControl(c)
      PROVE  ControlInv'
  BY <1>6 DEF LeaveControl, Visit, database, http, runtime
<1>7. ASSUME NEW c \in Cameras, Disable(c)
      PROVE  ControlInv'
  BY <1>7 DEF Disable, Visit, database, http, runtime
<1>8. ASSUME NEW c \in Cameras, Enable(c)
      PROVE  ControlInv'
  BY <1>8, StrategyType DEF Enable, Visit, database, http
<1>9. ASSUME NEW c \in Cameras, Reconfigure(c)
      PROVE  ControlInv'
  BY <1>9, StrategyType DEF Reconfigure, Visit, database, http
<1> QED BY <1>1, <1>2, <1>3, <1>4, <1>5, <1>6, <1>7, <1>8, <1>9 DEF Sync

LEMMA ServeKeeps ==
  ASSUME ControlInv, NEW r \in Requests, Serve(r)
  PROVE  ControlInv'
<1>1. TypeOK'
  BY CreateType, ReadType, WriteType, DeleteType, StopDeletedType DEF Serve, ControlInv
<1>2. /\ UNCHANGED <<active, controls, ppc, listed, todo, cur>>
      /\ \A c \in Cameras : workers'[c] \in {workers[c], None}
  BY DEF Serve, Create, Read, Write, Delete, StopDeleted, runtime, iteration, ControlInv, TypeOK
<1>3. RowsKeepSource'
  BY WriteKeepsSource, <1>1
  DEF Serve, Create, Read, Delete, StopDeleted, database, ControlInv, SourcesInv, RowsKeepSource, TypeOK
<1> QED BY <1>1, <1>2, <1>3 DEF ControlInv, SuspensionInv, SourcesInv, StartReplacesNothing

\* ControlInv is an inductive invariant.
LEMMA ControlInvariant == Spec => []ControlInv
<1>1. Init => ControlInv
  <2> SUFFICES ASSUME Init PROVE ControlInv
    OBVIOUS
  <2> DEFINE first == [status |-> "active", direct |-> "direct url", host |-> "host and path",
                       enabled |-> None, strategy |-> None]
  <2>1. first \in Row /\ SourceOf(first) # None
    BY DEF Row, Statuses, SourceOf, Sources
  <2>2. row = [c \in Cameras |-> first]
    BY DEF Init
  <2> HIDE DEF first
  <2>3. SourcesInv
    BY <2>1, <2>2, EmptyListing DEF Init, SourcesInv, RowsKeepSource
  <2>4. TypeOK
    BY <2>1, <2>2, EmptyListing DEF Init, TypeOK, Sources, RequestState, LoopStates
  <2>5. SuspensionInv
    BY DEF Init, SuspensionInv, StartReplacesNothing
  <2> QED BY <2>3, <2>4, <2>5 DEF ControlInv
<1>2. ControlInv /\ [Next]_vars => ControlInv'
  BY RefreshKeeps, SyncKeeps, ServeKeeps
  DEF Next, vars, database, http, runtime, iteration, ControlInv, TypeOK, SuspensionInv,
      StartReplacesNothing, SourcesInv, RowsKeepSource
<1> QED BY <1>1, <1>2, PTL DEF Spec

\* No sequence of requests, however they overlap, leaves a row without a source.
THEOREM SourcesKept == Spec => []RowsKeepSource
<1>1. ControlInv => RowsKeepSource
  BY DEF ControlInv, SourcesInv
<1> QED BY <1>1, ControlInvariant, PTL

\* The type invariant holds in every state.
THEOREM TypeCorrect == Spec => []TypeOK
<1>1. ControlInv => TypeOK
  BY DEF ControlInv
<1> QED BY <1>1, ControlInvariant, PTL

\* A worker is only ever started for a camera that has none.
THEOREM WorkersNeverReplaced == Spec => []StartReplacesNothing
<1>1. ControlInv => StartReplacesNothing
  BY DEF ControlInv, SuspensionInv
<1> QED BY <1>1, ControlInvariant, PTL

(***************************************************************************)
(* Controls and workers.                                                   *)
(***************************************************************************)

LEMMA RefreshAgrees ==
  ASSUME ControlInv, AgreementInv, Refresh
  PROVE  AgreementInv'
<1> USE DEF ControlInv, TypeOK, SuspensionInv, AgreementInv
<1>1. CASE ReadForRefresh
  BY <1>1 DEF ReadForRefresh, ActiveRows, database, http, runtime
<1>2. CASE BeginRefresh
  BY <1>2 DEF BeginRefresh, database, http, runtime
<1>3. CASE DropWorker
  BY <1>3 DEF DropWorker, database, http, runtime
<1>4. CASE StartCameras
  BY <1>4 DEF StartCameras, BeginControls, database, http
<1>5. ASSUME NEW c \in Cameras, RemoveCamera(c)
      PROVE  AgreementInv'
  BY <1>5 DEF RemoveCamera, database, http
<1> QED BY <1>1, <1>2, <1>3, <1>4, <1>5 DEF Refresh

LEMMA SyncAgrees ==
  ASSUME ControlInv, AgreementInv, Sync
  PROVE  AgreementInv'
<1> USE DEF ControlInv, TypeOK, SuspensionInv, AgreementInv
<1>1. CASE ReadForSync
  BY <1>1 DEF ReadForSync, ActiveRows, database, http, runtime
<1>2. CASE BeginSync
  BY <1>2 DEF BeginSync, BeginControls, database, http
<1>3. CASE EndDisable
  BY <1>3 DEF EndDisable, database, http
<1>4. CASE Connected
  BY <1>4 DEF Connected, database, http
<1>5. CASE EndSync
  BY <1>5 DEF EndSync, database, http, runtime
<1>6. ASSUME NEW c \in Cameras, LeaveControl(c)
      PROVE  AgreementInv'
  BY <1>6 DEF LeaveControl, Visit, database, http, runtime
<1>7. ASSUME NEW c \in Cameras, Disable(c)
      PROVE  AgreementInv'
  BY <1>7 DEF Disable, Visit, database, http, runtime
<1>8. ASSUME NEW c \in Cameras, Enable(c)
      PROVE  AgreementInv'
  BY <1>8 DEF Enable, Visit, database, http
<1>9. ASSUME NEW c \in Cameras, Reconfigure(c)
      PROVE  AgreementInv'
  BY <1>9 DEF Reconfigure, Visit, database, http
<1> QED BY <1>1, <1>2, <1>3, <1>4, <1>5, <1>6, <1>7, <1>8, <1>9 DEF Sync

LEMMA ServeAgrees ==
  ASSUME ControlInv, AgreementInv, NEW r \in Requests, Serve(r)
  PROVE  AgreementInv'
<1> USE DEF ControlInv, TypeOK, AgreementInv
<1>1. ASSUME NEW kind \in DOMAIN Tables, NEW c \in Cameras, NEW change \in Changes(kind),
             Read(r, kind, c, change)
      PROVE  AgreementInv'
  BY <1>1 DEF Read, database, runtime, iteration
<1>2. CASE Write(r)
  BY <1>2 DEF Write, NoRequest, runtime, iteration
<1>3. ASSUME NEW c \in Cameras, Delete(r, c)
      PROVE  AgreementInv'
  BY <1>3 DEF Delete, runtime, iteration
<1>4. CASE StopDeleted(r)
  BY <1>4 DEF StopDeleted, NoRequest, database, runtime, iteration
<1>5. ASSUME NEW c \in Cameras, Create(r, c)
      PROVE  AgreementInv'
  BY <1>5 DEF Create, runtime, iteration
<1> QED BY <1>1, <1>2, <1>3, <1>4, <1>5 DEF Serve

\* Between two refreshes the recorded controls are what the workers do.
THEOREM ControlsDescribeWorkers == Spec => []ControlsMatchWorkers
<1>1. Init => AgreementInv
  <2> SUFFICES ASSUME Init PROVE AgreementInv
    OBVIOUS
  <2>1. \A c \in Cameras : controls[c] = None
    BY DEF Init
  <2>2. present \subseteq Cameras /\ DOMAIN listed = {}
    BY EmptyListing DEF Init
  <2>3. \A r \in Requests : request[r].phase # "deleted"
    BY DEF Init, NoRequest
  <2> QED BY <2>1, <2>2, <2>3 DEF AgreementInv
<1>2. ControlInv /\ AgreementInv /\ [Next]_vars => AgreementInv'
  <2> SUFFICES ASSUME ControlInv, AgreementInv, [Next]_vars
               PROVE  AgreementInv'
    OBVIOUS
  <2>1. CASE Next
    BY <2>1, RefreshAgrees, SyncAgrees, ServeAgrees DEF Next
  <2>2. CASE UNCHANGED vars
    BY <2>2 DEF vars, database, http, runtime, iteration, AgreementInv
  <2> QED BY <2>1, <2>2
<1>3. AgreementInv => ControlsMatchWorkers
  BY DEF AgreementInv, ControlsMatchWorkers
<1> QED BY <1>1, <1>2, <1>3, ControlInvariant, PTL DEF Spec
=============================================================================
