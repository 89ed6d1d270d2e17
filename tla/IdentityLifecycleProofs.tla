---------------------- MODULE IdentityLifecycleProofs ----------------------
(***************************************************************************)
(* Proofs about the persistent identities, for any cameras, tracks, looks  *)
(* and identities, any lifetime of an assignment, any number of batches,   *)
(* and every choice of the calls that may fail.                            *)
(***************************************************************************)
EXTENDS IdentityLifecycle, TLAPS

USE BoundsAssumption

-----------------------------------------------------------------------------
(* Types.                                                                  *)

Working == {"searched", "looked", "guessed", "done"}

\* What the worker thread has found out, and who runs when.
WorkerInv ==
  /\ pc \in {"starting", "idle", "publishing"} => thread = "none"
  /\ pc = "resolving" => thread # "none"
  /\ thread # "none" => batches # 0
  /\ thread \in Working =>
       /\ collection
       /\ results \in [DOMAIN batch -> [id : Ids, matched : BOOLEAN]]
       /\ \A i \in DOMAIN firsts : firsts[i] \in 1 .. MaxBatches
       /\ \A i : i \in DOMAIN firsts <=> \E t \in DOMAIN batch : results[t].id = i
  /\ thread = "done" => \A t \in DOMAIN batch : results[t].id \in DOMAIN stored

LEMMA InitType == Init => TypeOK /\ WorkerInv
<1> SUFFICES ASSUME Init PROVE TypeOK /\ WorkerInv
  OBVIOUS
<1>1. DOMAIN stored = {} /\ DOMAIN batch = {}
  BY DEF Init
<1>2. stored \in [DOMAIN stored -> [look : Looks, first : 1 .. MaxBatches]]
      /\ batch \in [DOMAIN batch -> Looks]
  BY DEF Init
<1>3. /\ told \in [Tracks -> Ids \cup {None}] /\ flight \subseteq Events!Message
      /\ trust \in [Tracks -> Events!Trust]
  BY DEF Init, Events!Trust
<1>4. assigned \in [Tracks -> {NoAssignment} \cup [id : Ids, age : 0 .. Ttl]]
  BY DEF Init
<1>5. /\ pc = "starting" /\ thread = "none" /\ batches = 0 /\ open = FALSE
      /\ collection \in BOOLEAN /\ stored = <<>> /\ active = {} /\ lifespan = "up"
      /\ todo \in [{"task", "lifespan"} -> SUBSET Cameras] /\ broken = FALSE
  BY DEF Init
<1>6. TypeOK
  <2>1. DOMAIN stored \subseteq Ids /\ DOMAIN batch \subseteq Tracks
    BY <1>1
  <2>2. batches \in 0 .. MaxBatches
    BY <1>5
  <2> QED BY <1>2, <1>3, <1>4, <1>5, <2>1, <2>2 DEF TypeOK
<1>7. WorkerInv
  BY <1>5 DEF WorkerInv, Working
<1> QED BY <1>6, <1>7

LEMMA SearchType ==
  ASSUME TypeOK, WorkerInv, Search
  PROVE  TypeOK' /\ WorkerInv'
<1>1. PICK ids \in [DOMAIN batch -> Ids] :
         results' = [t \in DOMAIN batch |-> [id |-> ids[t], matched |-> Hits(batch[t]) # {}]]
  BY DEF Search
<1>2. results' \in [DOMAIN batch -> [id : Ids, matched : BOOLEAN]]
  BY <1>1
<1>3. firsts' = [i \in {results'[t].id : t \in DOMAIN batch} |-> batches]
  BY DEF Search
<1>4. thread = "ready" /\ thread' = "searched" /\ open' = TRUE /\ collection' = TRUE
      /\ UNCHANGED <<stored, assigned, batches, pc, batch, active, lifespan, todo,
                     broken, flight, told, trust>>
  BY DEF Search, Connect, stopping, published
<1>5. batches \in 1 .. MaxBatches
  BY <1>4 DEF WorkerInv, TypeOK
<1>6. pc \notin {"starting", "idle", "publishing"}
  BY <1>4 DEF WorkerInv
<1>7. TypeOK'
  BY <1>4 DEF TypeOK
<1>8. \A i : i \in DOMAIN firsts' <=> \E t \in DOMAIN batch : results'[t].id = i
  BY <1>3
<1>9. \A i \in DOMAIN firsts' : firsts'[i] \in 1 .. MaxBatches
  BY <1>3, <1>5
<1> QED BY <1>2, <1>4, <1>5, <1>6, <1>7, <1>8, <1>9 DEF WorkerInv, Working

LEMMA UpsertType ==
  ASSUME TypeOK, WorkerInv, Upsert
  PROVE  TypeOK' /\ WorkerInv'
<1>1. PICK last \in [DOMAIN firsts -> DOMAIN batch] :
         stored' = [i \in DOMAIN stored \cup DOMAIN firsts |->
                       IF i \in DOMAIN firsts THEN [look |-> batch[last[i]], first |-> firsts[i]]
                       ELSE stored[i]]
  BY DEF Upsert
<1>2. thread \in {"looked", "guessed"} /\ thread' \in {"done", "failed"}
      /\ UNCHANGED <<open, collection, assigned, batches, pc, batch, results, firsts, active,
                     lifespan, todo, broken, flight, told, trust>>
  BY DEF Upsert, connection, stopping, published
<1>3. /\ collection
      /\ results \in [DOMAIN batch -> [id : Ids, matched : BOOLEAN]]
      /\ \A i \in DOMAIN firsts : firsts[i] \in 1 .. MaxBatches
      /\ \A i : i \in DOMAIN firsts <=> \E t \in DOMAIN batch : results[t].id = i
      /\ pc \notin {"starting", "idle", "publishing"} /\ batches # 0
  BY <1>2 DEF WorkerInv, Working
<1>4. DOMAIN firsts \subseteq Ids
  BY <1>3
<1>5. DOMAIN stored' = DOMAIN stored \cup DOMAIN firsts
  BY <1>1
<1>6. DOMAIN stored' \subseteq Ids
  BY <1>4, <1>5 DEF TypeOK
<1>7. \A i \in DOMAIN stored' : stored'[i] \in [look : Looks, first : 1 .. MaxBatches]
  BY <1>1, <1>3, <1>5 DEF TypeOK
<1>8. stored' \in [DOMAIN stored' -> [look : Looks, first : 1 .. MaxBatches]]
  BY <1>1, <1>5, <1>7
<1>9. TypeOK'
  BY <1>2, <1>3, <1>6, <1>8 DEF TypeOK
<1>10. \A t \in DOMAIN batch : results[t].id \in DOMAIN stored'
  BY <1>3, <1>5
<1> QED BY <1>2, <1>3, <1>9, <1>10 DEF WorkerInv, Working

\* The other steps of the worker thread.
LEMMA ThreadType ==
  ASSUME TypeOK, WorkerInv, Thread
  PROVE  TypeOK' /\ WorkerInv'
<1>1. CASE Lookup
  <2>1. thread = "searched" /\ thread' \in {"looked", "guessed"}
        /\ UNCHANGED <<open, collection, stored, assigned, batches, pc, batch, results, active,
                       lifespan, todo, broken, flight, told, trust>>
    BY <1>1 DEF Lookup, connection, stopping, published
  <2>2. \A i \in DOMAIN firsts : firsts[i] \in 1 .. MaxBatches
    BY <2>1 DEF WorkerInv, Working
  <2>3. DOMAIN firsts' = DOMAIN firsts /\ \A i \in DOMAIN firsts' : firsts'[i] \in 1 .. MaxBatches
    <3>1. CASE firsts' = firsts
      BY <3>1, <2>2
    <3>2. CASE firsts' = [i \in DOMAIN firsts |->
                            IF i \in DOMAIN stored THEN stored[i].first ELSE firsts[i]]
      BY <3>2, <2>2 DEF TypeOK
    <3> QED BY <1>1, <3>1, <3>2 DEF Lookup
  <2>4. TypeOK'
    BY <2>1 DEF TypeOK
  <2> QED BY <2>1, <2>3, <2>4 DEF WorkerInv, Working
<1>2. CASE CallFails
  <2>1. thread \in {"ready", "looked", "guessed"} /\ thread' = "failed"
        /\ UNCHANGED <<open, collection, stored, assigned, batches, pc, batch, results, firsts,
                       active, lifespan, todo, broken, flight, told, trust>>
    BY <1>2 DEF CallFails, connection, stopping, published
  <2> QED BY <2>1 DEF TypeOK, WorkerInv, Working
<1> QED BY <1>1, <1>2, SearchType, UpsertType DEF Thread

\* What the task and the lifespan may do without touching the worker thread.
LEMMA WorkerKept ==
  ASSUME WorkerInv, UNCHANGED <<collection, stored, batches, batch, thread, results, firsts>>,
         \/ pc' \in {pc, "stopping", "stopped", "aborted"}
         \/ thread = "none" /\ pc' \in {"idle", "publishing"}
  PROVE  WorkerInv'
BY DEF WorkerInv, Working

EventsOk == flight \subseteq Events!Message /\ trust \in [Tracks -> Events!Trust]

LEMMA SentType ==
  ASSUME TypeOK, NEW messages \in SUBSET Events!Message, Events!Sent(messages)
  PROVE  EventsOk'
BY DEF TypeOK, EventsOk, Events!Sent, Events!Trust

LEMMA LostType ==
  ASSUME TypeOK, NEW messages, Events!Lost(messages)
  PROVE  EventsOk'
BY DEF TypeOK, EventsOk, Events!Lost, Events!Trust

LEMMA DroppedType ==
  ASSUME TypeOK, NEW tracks, Events!Dropped(tracks)
  PROVE  EventsOk'
BY DEF TypeOK, EventsOk, Events!Dropped, Events!Trust

LEMMA ReceivedType ==
  ASSUME TypeOK, NEW m \in flight, Events!Received(m)
  PROVE  EventsOk' /\ told' \in [Tracks -> Ids \cup {None}]
<1>1. m \in Events!Message
  BY DEF TypeOK
<1>2. Events!Says(m.event) \in Ids \cup {None}
  BY <1>1 DEF Events!Message, Events!Event, Events!Says
<1>3. \A t : \A n \in Events!Of({m}, t) : n = m
  BY DEF Events!Of
<1>4. ASSUME NEW t \in Tracks PROVE told'[t] \in Ids \cup {None}
  <2>1. CASE Events!Of({m}, t) = {}
    BY <2>1 DEF Events!Received, Events!After, TypeOK
  <2>2. CASE Events!Of({m}, t) # {}
    <3>1. (CHOOSE n \in Events!Of({m}, t) : TRUE) = m
      BY <2>2, <1>3
    <3> QED BY <1>2, <2>2, <3>1 DEF Events!Received, Events!After
  <2> QED BY <2>1, <2>2
<1>5. told' \in [Tracks -> Ids \cup {None}]
  BY <1>4 DEF Events!Received, Events!After
<1>6. EventsOk'
  BY <1>1 DEF TypeOK, EventsOk, Events!Received, Events!Trust
<1> QED BY <1>5, <1>6

LEMMA EventTypes ==
  ASSUME TypeOK, NEW t \in Tracks
  PROVE  /\ results[t].id \in Ids => EventOf(t) \in Events!Event
         /\ t \in Assigned => Expiry(t) \in Events!Event
<1>1. assigned[t].id \in Ids \cup {None}
  BY DEF TypeOK, NoAssignment
<1>2. t \in Assigned => assigned[t].id \in Ids
  BY DEF TypeOK, Assigned
<1> QED BY <1>1, <1>2 DEF EventOf, Expiry, Events!Event

Gone(c) == {t \in Assigned : t[1] = c /\ c \in active}

Expiries(by, tracks) == {[by |-> by, event |-> Expiry(t)] : t \in tracks}

LEMMA ExpiriesType ==
  ASSUME TypeOK, NEW by \in {"bundle", "task", "lifespan"}, NEW tracks \in SUBSET Assigned
  PROVE  Expiries(by, tracks) \subseteq Events!Message
<1>1. ASSUME NEW t \in tracks PROVE [by |-> by, event |-> Expiry(t)] \in Events!Message
  <2>1. Expiry(t) \in Events!Event
    BY EventTypes DEF Assigned
  <2> QED BY <2>1 DEF Events!Message
<1> QED BY <1>1 DEF Expiries

\* What the removal of a camera does.
LEMMA RemoveEffect ==
  ASSUME TypeOK, NEW by \in {"task", "lifespan"}, NEW c, Remove(by, c)
  PROVE  /\ active' = active \ {c} /\ told' = told
         /\ assigned' = [t \in Tracks |-> IF t \in Gone(c) THEN NoAssignment ELSE assigned[t]]
         /\ assigned' \in [Tracks -> {NoAssignment} \cup [id : Ids, age : 0 .. Ttl]]
         /\ Events!Sent(Expiries(by, Gone(c)))
         /\ Gone(c) \in SUBSET Assigned
         /\ EventsOk'
<1>1. /\ active' = active \ {c} /\ told' = told
      /\ assigned' = [t \in Tracks |-> IF t \in Gone(c) THEN NoAssignment ELSE assigned[t]]
      /\ Events!Sent(Expiries(by, Gone(c)))
  BY DEF Remove, Gone, Expiries
<1>2. assigned' \in [Tracks -> {NoAssignment} \cup [id : Ids, age : 0 .. Ttl]]
  BY <1>1 DEF TypeOK
<1>3. Gone(c) \in SUBSET Assigned
  BY DEF Gone
<1>4. Expiries(by, Gone(c)) \in SUBSET Events!Message
  BY <1>3, ExpiriesType
<1>5. EventsOk'
  BY <1>1, <1>4, SentType
<1> QED BY <1>1, <1>2, <1>3, <1>5

LEMMA StartStopEffect ==
  ASSUME TypeOK, StartStop
  PROVE  /\ todo' \in [{"task", "lifespan"} -> SUBSET Cameras]
         /\ \/ pc' = "stopped" /\ active = {} /\ todo' = todo
            \/ pc' = "stopping" /\ todo'["task"] = active
BY DEF StartStop, TypeOK

\* Visit, and its part in Next.
LEMMA VisitEffect ==
  ASSUME TypeOK, NEW by \in {"task", "lifespan"}, NEW c, Visit(by, c)
  PROVE  /\ c \in todo[by] /\ todo' = [todo EXCEPT ![by] = @ \ {c}]
         /\ todo' \in [{"task", "lifespan"} -> SUBSET Cameras]
         /\ broken' \in BOOLEAN
         /\ by = "task" => pc = "stopping"
         /\ pc = "resolving" /\ ~broken' => ~broken /\ \A t \in DOMAIN batch : t[1] = c => c \notin active
         /\ Remove(by, c) /\ Free(by)
         /\ UNCHANGED <<open, collection, stored, batches, pc, batch, thread, results, firsts,
                        lifespan>>
<1>1. /\ (by = "task" /\ pc = "stopping") \/ (by = "lifespan" /\ lifespan = "removing")
      /\ c \in todo[by] /\ todo' = [todo EXCEPT ![by] = @ \ {c}] /\ Remove(by, c) /\ Free(by)
      /\ UNCHANGED <<open, collection, stored, batches, pc, batch, thread, results, firsts,
                     lifespan>>
  BY DEF Visit, connection, worker
<1>2. todo' \in [{"task", "lifespan"} -> SUBSET Cameras]
  BY <1>1 DEF TypeOK
<1>3. broken' \in BOOLEAN
  BY DEF Visit, TypeOK
<1>4. pc = "resolving" /\ ~broken' => ~broken /\ \A t \in DOMAIN batch : t[1] = c => c \notin active
  BY <1>1 DEF Visit, TypeOK
<1> QED BY <1>1, <1>2, <1>3, <1>4

LEMMA VisitType ==
  ASSUME TypeOK, WorkerInv, NEW by \in {"task", "lifespan"}, NEW c, Visit(by, c)
  PROVE  TypeOK' /\ WorkerInv'
<1>1. /\ todo' \in [{"task", "lifespan"} -> SUBSET Cameras] /\ broken' \in BOOLEAN /\ Remove(by, c)
      /\ UNCHANGED <<open, collection, stored, batches, pc, batch, thread, results, firsts, lifespan>>
  BY VisitEffect
<1>2. /\ active' = active \ {c} /\ told' = told /\ EventsOk'
      /\ assigned' \in [Tracks -> {NoAssignment} \cup [id : Ids, age : 0 .. Ttl]]
  BY <1>1, RemoveEffect
<1> QED BY <1>1, <1>2, WorkerKept DEF TypeOK, EventsOk

LEMMA RefreshType ==
  ASSUME TypeOK, WorkerInv, NEW c \in Cameras, Refresh(c) \/ Add(c)
  PROVE  TypeOK' /\ WorkerInv'
<1>1. UNCHANGED <<open, collection, stored, batches, pc, batch, thread, results, firsts, lifespan,
                  todo, broken>>
  BY DEF Refresh, Add, connection, worker
<1>2. /\ active' \subseteq Cameras /\ told' = told /\ EventsOk'
      /\ assigned' \in [Tracks -> {NoAssignment} \cup [id : Ids, age : 0 .. Ttl]]
  <2>1. CASE Refresh(c)
    BY <2>1, RemoveEffect DEF Refresh, TypeOK
  <2>2. CASE Add(c)
    BY <2>2 DEF Add, TypeOK, published, EventsOk
  <2> QED BY <2>1, <2>2
<1> QED BY <1>1, <1>2, WorkerKept DEF TypeOK, EventsOk

LEMMA ShutdownType ==
  ASSUME TypeOK, WorkerInv,
         BeginShutdown \/ Cancel \/ Close("task") \/ Close("lifespan") \/ LeaveLoop \/ Raise \/ Published
  PROVE  TypeOK' /\ WorkerInv'
<1>1. UNCHANGED <<collection, stored, assigned, batches, batch, thread, results, firsts, active,
                  broken, told>>
  BY DEF BeginShutdown, Cancel, Close, LeaveLoop, Raise, Published, connection, worker, published
<1>2. EventsOk'
  <2>1. CASE Cancel
    BY <2>1, LostType DEF Cancel
  <2>2. CASE ~Cancel
    BY <2>2 DEF BeginShutdown, Close, LeaveLoop, Raise, Published, published, EventsOk, TypeOK
  <2> QED BY <2>1, <2>2
<1>3. /\ open' \in BOOLEAN /\ lifespan' \in {"up", "removing", "closed", "cancelled"}
  BY DEF BeginShutdown, Cancel, Close, LeaveLoop, Raise, Published, connection, TypeOK
<1>4. /\ todo' \in [{"task", "lifespan"} -> SUBSET Cameras]
      /\ pc' \in {"starting", "idle", "resolving", "publishing", "stopping", "stopped", "aborted"}
      /\ \/ pc' \in {pc, "stopping", "stopped", "aborted"}
         \/ thread = "none" /\ pc' \in {"idle", "publishing"}
  <2>1. CASE BeginShutdown
    BY <2>1 DEF BeginShutdown, TypeOK
  <2>2. CASE Close("task") \/ Close("lifespan")
    BY <2>2 DEF Close, TypeOK
  <2>3. CASE StartStop
    BY <2>3, StartStopEffect
  <2>4. CASE Cancel /\ ~StartStop
    BY <2>4 DEF Cancel, TypeOK
  <2>5. CASE Published /\ ~StartStop
    BY <2>5 DEF Published, TypeOK, WorkerInv
  <2> QED BY <2>1, <2>2, <2>3, <2>4, <2>5 DEF LeaveLoop, Raise
<1> QED BY <1>1, <1>2, <1>3, <1>4, WorkerKept DEF TypeOK, EventsOk

\* The events of a bundle, each a message of its own.
BundleEvents(present) == {EventOf(t) : t \in present} \cup {Expiry(t) : t \in Stale(present)}

BundleMessages(present) == {[by |-> "bundle", event |-> e] : e \in BundleEvents(present)}

LEMMA BundleType ==
  ASSUME TypeOK, NEW present \in SUBSET Tracks, \A t \in present : results[t].id \in Ids
  PROVE  BundleMessages(present) \in SUBSET Events!Message
<1>1. \A e \in BundleEvents(present) : e \in Events!Event
  BY EventTypes DEF BundleEvents, Stale, Assigned
<1> QED BY <1>1 DEF BundleMessages, Events!Message

LEMMA ConcludeEffect ==
  ASSUME TypeOK, NEW present \in SUBSET Tracks, \A t \in present : results[t].id \in Ids,
         NEW fails \in BOOLEAN, Conclude(present, fails)
  PROVE  /\ assigned' = [t \in Tracks |->
                            IF t \in present THEN [id |-> results[t].id, age |-> 0]
                            ELSE IF t \in Stale(present) THEN NoAssignment ELSE assigned[t]]
         /\ assigned' \in [Tracks -> {NoAssignment} \cup [id : Ids, age : 0 .. Ttl]]
         /\ \/ fails /\ Events!Dropped({e.track : e \in BundleEvents(present)}) /\ StartStop
            \/ ~fails /\ Events!Sent(BundleMessages(present)) /\ pc' = "publishing" /\ todo' = todo
         /\ todo' \in [{"task", "lifespan"} -> SUBSET Cameras]
         /\ pc' \in {"stopping", "stopped", "publishing"}
         /\ EventsOk'
         /\ UNCHANGED <<open, collection, stored, batches, active, lifespan, told>>
<1>1. /\ assigned' = [t \in Tracks |->
                            IF t \in present THEN [id |-> results[t].id, age |-> 0]
                            ELSE IF t \in Stale(present) THEN NoAssignment ELSE assigned[t]]
      /\ UNCHANGED <<open, collection, stored, batches, active, lifespan, told>>
  BY DEF Conclude, connection
<1>2. \/ fails /\ Events!Dropped({e.track : e \in BundleEvents(present)}) /\ StartStop
      \/ ~fails /\ Events!Sent(BundleMessages(present)) /\ pc' = "publishing" /\ todo' = todo
  BY DEF Conclude, BundleEvents, BundleMessages
<1>3. assigned' \in [Tracks -> {NoAssignment} \cup [id : Ids, age : 0 .. Ttl]]
  BY <1>1 DEF TypeOK
<1>4. EventsOk'
  BY <1>2, SentType, DroppedType, BundleType
<1>5. todo' \in [{"task", "lifespan"} -> SUBSET Cameras] /\ pc' \in {"stopping", "stopped", "publishing"}
  BY <1>2, StartStopEffect DEF TypeOK
<1> QED BY <1>1, <1>2, <1>3, <1>4, <1>5

LEMMA ApplyType ==
  ASSUME TypeOK, WorkerInv, Apply
  PROVE  TypeOK' /\ WorkerInv'
<1>1. /\ pc = "resolving" /\ thread = "done" /\ Conclude(DOMAIN batch, broken)
      /\ thread' = "none" /\ batch' = <<>> /\ results' = <<>> /\ firsts' = <<>> /\ broken' = FALSE
  BY DEF Apply
<1>2. DOMAIN batch \in SUBSET Tracks /\ broken \in BOOLEAN
  BY DEF TypeOK
<1>3. \A t \in DOMAIN batch : results[t].id \in Ids
  BY <1>1 DEF WorkerInv, Working
<1>4. /\ assigned' \in [Tracks -> {NoAssignment} \cup [id : Ids, age : 0 .. Ttl]]
      /\ todo' \in [{"task", "lifespan"} -> SUBSET Cameras]
      /\ pc' \in {"stopping", "stopped", "publishing"} /\ EventsOk'
      /\ UNCHANGED <<open, collection, stored, batches, active, lifespan, told>>
  BY <1>1, <1>2, <1>3, ConcludeEffect
<1>5. DOMAIN batch' \subseteq Tracks /\ batch' \in [DOMAIN batch' -> Looks]
  BY <1>1
<1>6. TypeOK'
  BY <1>1, <1>4, <1>5 DEF TypeOK, EventsOk
<1> QED BY <1>1, <1>4, <1>6 DEF WorkerInv, Working

LEMMA NothingToResolveEffect ==
  ASSUME TypeOK, NothingToResolve
  PROVE  /\ pc = "idle" /\ UNCHANGED <<batch, thread, results, firsts, broken>>
         /\ \E fails \in BOOLEAN : Conclude({}, fails) /\ Free("task")
BY DEF NothingToResolve, Bundle, worker

LEMMA BundleStepType ==
  ASSUME TypeOK, WorkerInv,
         \/ NothingToResolve
         \/ \E tracks \in SUBSET Tracks : \E looks \in [tracks -> Looks] : Resolve(looks)
  PROVE  TypeOK' /\ WorkerInv'
<1>1. CASE NothingToResolve
  <2>1. pc = "idle" /\ UNCHANGED <<batch, thread, results, firsts, broken>>
    BY <1>1, NothingToResolveEffect
  <2>2. PICK fails \in BOOLEAN : Conclude({}, fails)
    BY <1>1, NothingToResolveEffect
  <2>3. /\ assigned' \in [Tracks -> {NoAssignment} \cup [id : Ids, age : 0 .. Ttl]]
        /\ todo' \in [{"task", "lifespan"} -> SUBSET Cameras]
        /\ pc' \in {"stopping", "stopped", "publishing"} /\ EventsOk'
        /\ UNCHANGED <<open, collection, stored, batches, active, lifespan, told>>
    BY <2>2, ConcludeEffect
  <2>4. thread = "none"
    BY <2>1 DEF WorkerInv
  <2>5. TypeOK'
    BY <2>1, <2>3 DEF TypeOK, EventsOk
  <2> QED BY <2>1, <2>3, <2>4, <2>5, WorkerKept
<1>2. ASSUME NEW tracks \in SUBSET Tracks, NEW looks \in [tracks -> Looks], Resolve(looks)
      PROVE  TypeOK' /\ WorkerInv'
  <2>1. /\ batches < MaxBatches /\ batches' = batches + 1 /\ batch' = looks /\ broken' \in BOOLEAN
        /\ thread' = "ready" /\ pc' = "resolving"
        /\ UNCHANGED <<open, collection, stored, assigned, results, firsts, active, lifespan, todo,
                       flight, told, trust>>
    BY <1>2 DEF Resolve, connection, published
  <2>2. batches' \in 1 .. MaxBatches
    BY <2>1 DEF TypeOK
  <2>3. DOMAIN batch' \subseteq Tracks /\ batch' \in [DOMAIN batch' -> Looks]
    BY <2>1
  <2>4. TypeOK'
    BY <2>1, <2>2, <2>3 DEF TypeOK
  <2> QED BY <2>1, <2>2, <2>4 DEF WorkerInv, Working
<1> QED BY <1>1, <1>2

LEMMA OtherType ==
  ASSUME TypeOK, WorkerInv,
         EnsureReady \/ Tick \/ UNCHANGED vars \/ \E m \in flight : Deliver(m) \/ Lose(m)
  PROVE  TypeOK' /\ WorkerInv'
<1>1. CASE EnsureReady
  <2>1. /\ pc = "starting" /\ pc' \in {"idle", "stopped"} /\ active' \subseteq Cameras
        /\ open' \in BOOLEAN /\ collection' \in BOOLEAN /\ (collection => collection')
        /\ UNCHANGED <<stored, assigned, batches, batch, thread, results, firsts, lifespan, todo,
                       broken, flight, told, trust>>
    BY <1>1 DEF EnsureReady, Connect, connection, worker, published, TypeOK
  <2> QED BY <2>1 DEF TypeOK, WorkerInv, Working
<1>2. CASE Tick
  <2>1. UNCHANGED <<open, collection, stored, batches, pc, batch, thread, results, firsts, active,
                    lifespan, todo, broken, flight, told, trust>>
    BY <1>2 DEF Tick, connection, worker, stopping, published
  <2>2. assigned' \in [Tracks -> {NoAssignment} \cup [id : Ids, age : 0 .. Ttl]]
    <3> SUFFICES ASSUME NEW t \in Tracks
                 PROVE  assigned'[t] \in {NoAssignment} \cup [id : Ids, age : 0 .. Ttl]
      BY <1>2 DEF Tick
    <3>1. CASE t \in Assigned /\ assigned[t].age < Ttl
      <4>1. assigned[t] \in [id : Ids, age : 0 .. Ttl]
        BY <3>1 DEF TypeOK, Assigned
      <4>2. assigned'[t] = [assigned[t] EXCEPT !.age = @ + 1]
        BY <1>2, <3>1 DEF Tick
      <4> QED BY <3>1, <4>1, <4>2
    <3>2. CASE ~(t \in Assigned /\ assigned[t].age < Ttl)
      BY <1>2, <3>2 DEF Tick, TypeOK
    <3> QED BY <3>1, <3>2
  <2>3. TypeOK'
    BY <2>1, <2>2 DEF TypeOK
  <2> QED BY <2>1, <2>3, WorkerKept
<1>3. CASE UNCHANGED vars
  BY <1>3 DEF vars, connection, worker, stopping, published, TypeOK, WorkerInv, Working
<1>4. ASSUME NEW m \in flight, Deliver(m) \/ Lose(m)
      PROVE  TypeOK' /\ WorkerInv'
  <2>1. UNCHANGED <<open, collection, stored, assigned, batches, pc, batch, thread, results, firsts,
                    active, lifespan, todo, broken>>
    BY <1>4 DEF Deliver, Lose, connection, worker, stopping
  <2>2. EventsOk' /\ told' \in [Tracks -> Ids \cup {None}]
    <3>1. CASE Deliver(m)
      BY <3>1, ReceivedType DEF Deliver
    <3>2. CASE Lose(m)
      BY <3>2, LostType DEF Lose, TypeOK
    <3> QED BY <1>4, <3>1, <3>2
  <2>3. TypeOK'
    BY <2>1, <2>2 DEF TypeOK, EventsOk
  <2> QED BY <2>1, <2>3, WorkerKept
<1> QED BY <1>1, <1>2, <1>3, <1>4

LEMMA NextCases ==
  ASSUME [Next]_vars
  PROVE  \/ Thread \/ Apply \/ EnsureReady \/ Tick \/ UNCHANGED vars
         \/ \E m \in flight : Deliver(m) \/ Lose(m)
         \/ BeginShutdown \/ Cancel \/ Close("task") \/ Close("lifespan") \/ LeaveLoop \/ Raise \/ Published
         \/ \E by \in {"task", "lifespan"} : \E c \in Cameras : Visit(by, c)
         \/ \E c \in Cameras : Refresh(c) \/ Add(c)
         \/ NothingToResolve
         \/ \E tracks \in SUBSET Tracks : \E looks \in [tracks -> Looks] : Resolve(looks)
BY Zenon DEF Next, Task, Stopper

LEMMA NextType ==
  ASSUME TypeOK, WorkerInv, [Next]_vars
  PROVE  TypeOK' /\ WorkerInv'
BY NextCases, ThreadType, ApplyType, OtherType, ShutdownType, VisitType, RefreshType, BundleStepType

\* Every variable keeps its type, and the worker thread of a batch knows what it looked up.
THEOREM TypeCorrect == Spec => [](TypeOK /\ WorkerInv)
BY NextType, InitType, PTL DEF Spec
-----------------------------------------------------------------------------
(* What the subscribers are told.                                          *)

\* While the subscribers can trust what they are told of a track, at most one event of it
\* is under way, which makes sense to them; if there is none, they know the assignment.
AgreeInv ==
  \A t \in Tracks :
    /\ trust[t] # "crossed" => \A m, n \in Events!Of(flight, t) : m = n
    /\ trust[t] # "crossed" => \A m \in Events!Of(flight, t) : Events!Says(m.event) = assigned[t].id
    /\ trust[t] = "sure" => \A m \in Events!Of(flight, t) : Events!Legal(told, m.event)
    /\ trust[t] = "sure" /\ Events!Of(flight, t) = {} => told[t] = assigned[t].id

OnePerTrack(messages) == \A m, n \in messages : m.event.track = n.event.track => m = n

\* Whether the messages say how the assignments change.
SaysIt(messages) ==
  /\ \A m \in messages : assigned'[m.event.track].id = Events!Says(m.event)
  /\ \A t \in Tracks : Events!Of(messages, t) = {} => assigned'[t].id = assigned[t].id

\* The publication of events that tell how the assignments change.
LEMMA SentAgrees ==
  ASSUME TypeOK, AgreeInv, NEW messages \in SUBSET Events!Message, OnePerTrack(messages),
         \A m \in messages : Events!Legal(Known, m.event),
         SaysIt(messages), Events!Sent(messages), told' = told
  PROVE  AgreeInv'
<1> SUFFICES ASSUME NEW t \in Tracks
             PROVE  /\ trust'[t] # "crossed" => \A m, n \in Events!Of(flight', t) : m = n
                    /\ trust'[t] # "crossed" =>
                         \A m \in Events!Of(flight', t) : Events!Says(m.event) = assigned'[t].id
                    /\ trust'[t] = "sure" =>
                         \A m \in Events!Of(flight', t) : Events!Legal(told, m.event)
                    /\ trust'[t] = "sure" /\ Events!Of(flight', t) = {} => told[t] = assigned'[t].id
  BY DEF AgreeInv, Events!Of, Events!Says, Events!Legal
<1>1. Events!Of(flight', t) = Events!Of(flight, t) \cup Events!Of(messages, t)
  BY DEF Events!Sent, Events!Of
<1>2. trust'[t] = IF Events!Of(messages, t) = {} THEN trust[t]
                  ELSE IF Events!Of(flight, t) # {} THEN "crossed"
                  ELSE IF trust[t] = "sure" THEN "sure" ELSE "lost"
  BY DEF Events!Sent
<1>3. CASE Events!Of(messages, t) = {}
  <2>1. Events!Of(flight', t) = Events!Of(flight, t) /\ trust'[t] = trust[t]
    BY <1>1, <1>2, <1>3
  <2>2. assigned'[t].id = assigned[t].id
    BY <1>3 DEF SaysIt
  <2> QED BY <2>1, <2>2 DEF AgreeInv
<1>4. CASE Events!Of(messages, t) # {} /\ Events!Of(flight, t) # {}
  BY <1>2, <1>4
<1>5. CASE Events!Of(messages, t) # {} /\ Events!Of(flight, t) = {}
  <2>1. Events!Of(flight', t) = Events!Of(messages, t)
    BY <1>1, <1>5
  <2>2. \A m, n \in Events!Of(messages, t) : m = n
    BY DEF OnePerTrack, Events!Of
  <2>3. \A m \in Events!Of(messages, t) : Events!Says(m.event) = assigned'[t].id
    BY DEF SaysIt, Events!Of
  <2>4. ASSUME trust[t] = "sure", NEW m \in Events!Of(messages, t)
        PROVE  Events!Legal(told, m.event)
    <3>1. m.event.track = t /\ Events!Legal(Known, m.event)
      BY DEF Events!Of
    <3>2. told[t] = Known[t]
      BY <1>5, <2>4 DEF AgreeInv, Known
    <3> QED BY <3>1, <3>2 DEF Events!Legal
  <2>5. trust'[t] = "sure" => trust[t] = "sure"
    BY <1>2, <1>5
  <2> QED BY <1>5, <2>1, <2>2, <2>3, <2>4, <2>5
<1> QED BY <1>3, <1>4, <1>5

\* It is a step of TrackEvents.
LEMMA SentEmits ==
  ASSUME TypeOK, NEW messages \in SUBSET Events!Message, OnePerTrack(messages),
         \A m \in messages : Events!Legal(Known, m.event), messages \cap flight = {},
         SaysIt(messages), Events!Sent(messages), told' = told
  PROVE  Events!Next
<1>1. flight' \ flight = messages
  BY DEF Events!Sent
<1>2. ASSUME NEW t \in Tracks PROVE Known'[t] = Events!After(Known, messages)[t]
  <2>1. CASE Events!Of(messages, t) = {}
    BY <2>1 DEF SaysIt, Known, Events!After
  <2>2. CASE Events!Of(messages, t) # {}
    <3>1. PICK m \in Events!Of(messages, t) : m = CHOOSE n \in Events!Of(messages, t) : TRUE
      BY <2>2
    <3>2. m \in messages /\ m.event.track = t
      BY DEF Events!Of
    <3>3. Known'[t] = Events!Says(m.event)
      BY <3>2 DEF SaysIt, Known
    <3>4. Events!After(Known, messages)[t] = Events!Says(m.event)
      BY <2>2, <3>1 DEF Events!After
    <3> QED BY <3>3, <3>4
  <2> QED BY <2>1, <2>2
<1>3. Known' = Events!After(Known, messages)
  BY <1>2 DEF Known, Events!After
<1>4. Events!Emit(messages)
  BY <1>3 DEF Events!Emit, OnePerTrack
<1> QED BY <1>1, <1>4 DEF Events!Next

LEMMA DroppedAgrees ==
  ASSUME TypeOK, AgreeInv, NEW tracks \in SUBSET Tracks,
         \A t \in Tracks \ tracks : assigned'[t].id = assigned[t].id,
         Events!Dropped(tracks), told' = told
  PROVE  AgreeInv' /\ Events!Next
<1>1. flight' = flight /\ trust' = [t \in Tracks |->
                                     IF t \notin tracks THEN trust[t]
                                     ELSE IF Events!Of(flight, t) # {} THEN "crossed" ELSE "lost"]
  BY DEF Events!Dropped
<1>2. ASSUME NEW t \in Tracks
      PROVE  /\ trust'[t] # "crossed" => \A m, n \in Events!Of(flight, t) : m = n
             /\ trust'[t] # "crossed" =>
                  \A m \in Events!Of(flight, t) : Events!Says(m.event) = assigned'[t].id
             /\ trust'[t] = "sure" => \A m \in Events!Of(flight, t) : Events!Legal(told, m.event)
             /\ trust'[t] = "sure" /\ Events!Of(flight, t) = {} => told[t] = assigned'[t].id
  <2>1. CASE t \in tracks
    BY <1>1, <2>1
  <2>2. CASE t \notin tracks
    BY <1>1, <2>2 DEF AgreeInv
  <2> QED BY <2>1, <2>2
<1>3. AgreeInv'
  <2>1. flight' = flight /\ told' = told
    BY DEF Events!Dropped
  <2>2. SUFFICES ASSUME NEW t \in Tracks
                 PROVE  /\ trust'[t] # "crossed" => \A m, n \in Events!Of(flight', t) : m = n
                        /\ trust'[t] # "crossed" =>
                             \A m \in Events!Of(flight', t) : Events!Says(m.event) = assigned'[t].id
                        /\ trust'[t] = "sure" =>
                             \A m \in Events!Of(flight', t) : Events!Legal(told', m.event)
                        /\ trust'[t] = "sure" /\ Events!Of(flight', t) = {} =>
                             told'[t] = assigned'[t].id
    BY DEF AgreeInv, Events!Of, Events!Says, Events!Legal
  <2> QED BY <1>2, <2>1, <2>2
<1>4. \A t \in Tracks \ tracks : Known'[t] = Known[t]
  BY DEF Known
<1>5. Events!Drop(tracks)
  BY <1>4 DEF Events!Drop
<1> QED BY <1>3, <1>5 DEF Events!Next

LEMMA LostAgrees ==
  ASSUME TypeOK, AgreeInv, NEW messages \in SUBSET flight, Events!Lost(messages),
         UNCHANGED <<assigned, told>>
  PROVE  AgreeInv' /\ Events!Next
<1>1. flight' = flight \ messages
      /\ trust' = [t \in Tracks |->
                     IF Events!Of(messages, t) # {} /\ trust[t] = "sure" THEN "lost" ELSE trust[t]]
  BY DEF Events!Lost
<1>2. ASSUME NEW t \in Tracks
      PROVE  /\ trust'[t] # "crossed" => \A m, n \in Events!Of(flight', t) : m = n
             /\ trust'[t] # "crossed" =>
                  \A m \in Events!Of(flight', t) : Events!Says(m.event) = assigned[t].id
             /\ trust'[t] = "sure" => \A m \in Events!Of(flight', t) : Events!Legal(told, m.event)
             /\ trust'[t] = "sure" /\ Events!Of(flight', t) = {} => told[t] = assigned[t].id
  <2>1. Events!Of(flight', t) \subseteq Events!Of(flight, t)
    BY <1>1 DEF Events!Of
  <2>2. Events!Of(messages, t) = {} => Events!Of(flight', t) = Events!Of(flight, t)
    BY <1>1 DEF Events!Of
  <2>3. (trust'[t] # "crossed" => trust[t] # "crossed")
        /\ (trust'[t] = "sure" => trust[t] = "sure" /\ Events!Of(messages, t) = {})
    BY <1>1
  <2> QED BY <2>1, <2>2, <2>3 DEF AgreeInv
<1>3. AgreeInv'
  BY <1>2 DEF AgreeInv, Events!Of, Events!Says, Events!Legal
<1>4. Events!Lose(messages)
  BY DEF Events!Lose, Known
<1> QED BY <1>3, <1>4 DEF Events!Next

LEMMA ReceivedAgrees ==
  ASSUME TypeOK, AgreeInv, NEW m \in flight, Events!Received(m), UNCHANGED assigned
  PROVE  AgreeInv' /\ Events!Next
<1>1. /\ flight' = flight \ {m} /\ told' = Events!After(told, {m})
      /\ trust' = [trust EXCEPT ![m.event.track] = IF @ = "lost" THEN "sure" ELSE @]
      /\ m.event.track \in Tracks
  BY DEF Events!Received, TypeOK, Events!Message, Events!Event
<1>2. ASSUME NEW t \in Tracks
      PROVE  told'[t] = IF m.event.track = t THEN Events!Says(m.event) ELSE told[t]
  <2>1. CASE m.event.track = t
    <3>1. Events!Of({m}, t) = {m}
      BY <2>1 DEF Events!Of
    <3>2. (CHOOSE n \in Events!Of({m}, t) : TRUE) = m
      BY <3>1
    <3>3. Events!Of({m}, t) # {}
      BY <3>1
    <3>4. Events!After(told, {m})[t] = Events!Says((CHOOSE n \in Events!Of({m}, t) : TRUE).event)
      BY <3>3 DEF Events!After
    <3> QED BY <1>1, <2>1, <3>2, <3>4
  <2>2. CASE m.event.track # t
    <3>1. Events!Of({m}, t) = {}
      BY <2>2 DEF Events!Of
    <3> QED BY <1>1, <2>2, <3>1 DEF Events!After
  <2> QED BY <2>1, <2>2
<1>3. ASSUME NEW t \in Tracks
      PROVE  /\ trust'[t] # "crossed" => \A n, k \in Events!Of(flight', t) : n = k
             /\ trust'[t] # "crossed" =>
                  \A n \in Events!Of(flight', t) : Events!Says(n.event) = assigned[t].id
             /\ trust'[t] = "sure" => \A n \in Events!Of(flight', t) : Events!Legal(told', n.event)
             /\ trust'[t] = "sure" /\ Events!Of(flight', t) = {} => told'[t] = assigned[t].id
  <2>1. CASE m.event.track = t
    <3>1. m \in Events!Of(flight, t)
      BY <2>1 DEF Events!Of
    <3>2. Events!Of(flight', t) = Events!Of(flight, t) \ {m}
      BY <1>1 DEF Events!Of
    <3>3. trust'[t] # "crossed" => trust[t] # "crossed"
      BY <1>1, <2>1 DEF TypeOK
    <3>4. trust[t] # "crossed" => Events!Of(flight', t) = {} /\ Events!Says(m.event) = assigned[t].id
      BY <3>1, <3>2 DEF AgreeInv
    <3>5. told'[t] = Events!Says(m.event)
      BY <1>2, <2>1
    <3>6. trust'[t] = "sure" => trust'[t] # "crossed"
      OBVIOUS
    <3> QED BY <3>3, <3>4, <3>5, <3>6
  <2>2. CASE m.event.track # t
    <3>1. Events!Of(flight', t) = Events!Of(flight, t) /\ trust'[t] = trust[t] /\ told'[t] = told[t]
      BY <1>1, <1>2, <2>2 DEF Events!Of, TypeOK
    <3>2. \A n \in Events!Of(flight, t) : Events!Legal(told, n.event) => Events!Legal(told', n.event)
      BY <3>1 DEF Events!Of, Events!Legal
    <3> QED BY <3>1, <3>2 DEF AgreeInv
  <2> QED BY <2>1, <2>2
<1>4. AgreeInv'
  BY <1>3 DEF AgreeInv, Events!Of, Events!Says, Events!Legal
<1>5. trust[m.event.track] = "sure" => Events!Legal(told, m.event)
  BY <1>1 DEF AgreeInv, Events!Of
<1>6. Events!Deliver(m)
  BY <1>5 DEF Events!Deliver, Known
<1> QED BY <1>4, <1>6 DEF Events!Next

\* The events of the tracks of a camera that is removed.
LEMMA RemoveAgrees ==
  ASSUME TypeOK, AgreeInv, NEW by \in {"task", "lifespan"}, NEW c, Remove(by, c), Free(by)
  PROVE  AgreeInv' /\ Events!Next
<1> DEFINE messages == Expiries(by, Gone(c))
<1>1. /\ told' = told /\ Events!Sent(messages) /\ Gone(c) \in SUBSET Assigned
      /\ assigned' = [t \in Tracks |-> IF t \in Gone(c) THEN NoAssignment ELSE assigned[t]]
  BY RemoveEffect
<1>2. Gone(c) \subseteq Tracks
  BY <1>1 DEF Assigned
<1>3. messages \in SUBSET Events!Message
  BY <1>1, ExpiriesType
<1>4. \A m \in messages : /\ m.by = by /\ m.event.kind = "expired" /\ m.event.track \in Gone(c)
                           /\ m = [by |-> by, event |-> Expiry(m.event.track)]
                           /\ m.event.id = assigned[m.event.track].id
  BY DEF Expiries, Expiry
<1>5. OnePerTrack(messages)
  <2> HIDE DEF messages
  <2> QED BY <1>4 DEF OnePerTrack
<1>6. \A m \in messages : Events!Legal(Known, m.event)
  <2> HIDE DEF messages
  <2> SUFFICES ASSUME NEW m \in messages PROVE Events!Legal(Known, m.event)
    OBVIOUS
  <2>1. m.event.kind = "expired" /\ Known[m.event.track] = m.event.id
    BY <1>2, <1>4 DEF Known
  <2> QED BY <2>1 DEF Events!Legal
<1>7. ASSUME NEW t \in Gone(c) PROVE Events!Of(messages, t) # {}
  <2>1. [by |-> by, event |-> Expiry(t)] \in messages /\ Expiry(t).track = t
    BY DEF Expiries, Expiry
  <2> HIDE DEF messages
  <2> QED BY <2>1 DEF Events!Of
<1> HIDE DEF messages
<1>8. SaysIt(messages)
  <2>1. \A m \in messages : assigned'[m.event.track].id = Events!Says(m.event)
    BY <1>1, <1>2, <1>4 DEF Events!Says, NoAssignment
  <2>2. \A t \in Tracks : Events!Of(messages, t) = {} => assigned'[t].id = assigned[t].id
    BY <1>1, <1>7
  <2> QED BY <2>1, <2>2 DEF SaysIt
<1>9. messages \cap flight = {}
  BY <1>4 DEF Free
<1> QED BY <1>1, <1>3, <1>5, <1>6, <1>8, <1>9, SentAgrees, SentEmits

\* The events of a bundle.
LEMMA ConcludeAgrees ==
  ASSUME TypeOK, AgreeInv, NEW present \in SUBSET Tracks, \A t \in present : results[t].id \in Ids,
         NEW fails \in BOOLEAN, Conclude(present, fails), Free("bundle")
  PROVE  AgreeInv' /\ Events!Next
<1> DEFINE events == BundleEvents(present)
           messages == BundleMessages(present)
<1>1. /\ assigned' = [t \in Tracks |->
                        IF t \in present THEN [id |-> results[t].id, age |-> 0]
                        ELSE IF t \in Stale(present) THEN NoAssignment ELSE assigned[t]]
      /\ told' = told
      /\ \/ fails /\ Events!Dropped({e.track : e \in events})
         \/ Events!Sent(messages)
  BY ConcludeEffect
<1>2. Stale(present) \subseteq Tracks /\ Stale(present) \cap present = {}
  BY DEF Stale, Assigned
<1>3. \A e \in events :
        \/ e.track \in present /\ e = EventOf(e.track) /\ e.kind # "expired"
           /\ e.id = results[e.track].id
        \/ e.track \in Stale(present) /\ e = Expiry(e.track) /\ e.kind = "expired"
  BY DEF BundleEvents, EventOf, Expiry
<1>4. \A e, f \in events : e.track = f.track => e = f
  <2> HIDE DEF events
  <2> QED BY <1>2, <1>3
<1>5. ASSUME NEW t \in present PROVE Events!Legal(Known, EventOf(t))
  <2>1. Known[t] = assigned[t].id /\ results[t].id # None
    BY <1>5, IdsAssumption DEF Known
  <2> QED BY <2>1 DEF EventOf, Events!Legal
<1>6. \A t \in Stale(present) : Events!Legal(Known, Expiry(t))
  BY <1>2 DEF Expiry, Events!Legal, Known
<1>7. /\ \A t \in present : \E e \in events : e.track = t
      /\ \A t \in Stale(present) : \E e \in events : e.track = t
  <2>1. ASSUME NEW t \in present PROVE \E e \in events : e.track = t
    <3>1. EventOf(t) \in events /\ EventOf(t).track = t
      BY DEF BundleEvents, EventOf
    <3> QED BY <3>1
  <2>2. ASSUME NEW t \in Stale(present) PROVE \E e \in events : e.track = t
    <3>1. Expiry(t) \in events /\ Expiry(t).track = t
      BY DEF BundleEvents, Expiry
    <3> QED BY <3>1
  <2> QED BY <2>1, <2>2
<1>8. messages \in SUBSET Events!Message
  BY BundleType
<1>9. /\ \A m \in messages : m.by = "bundle" /\ m.event \in events
      /\ \A m, n \in messages : m.event = n.event => m = n
      /\ \A e \in events : \E m \in messages : m.event = e
  <2> HIDE DEF events
  <2>1. messages = {[by |-> "bundle", event |-> e] : e \in events}
    BY DEF BundleMessages, events
  <2> HIDE DEF messages
  <2>2. \A m \in messages : m.by = "bundle" /\ m.event \in events /\ m = [by |-> "bundle", event |-> m.event]
    BY <2>1
  <2>3. ASSUME NEW e \in events PROVE \E m \in messages : m.event = e
    <3>1. [by |-> "bundle", event |-> e] \in messages
      BY <2>1
    <3>2. [by |-> "bundle", event |-> e].event = e
      OBVIOUS
    <3> QED BY <3>1, <3>2
  <2> QED BY <2>2, <2>3
<1> HIDE DEF events, messages
<1>10. \A e \in events : Events!Legal(Known, e)
  BY <1>3, <1>5, <1>6
<1>11. CASE fails /\ Events!Dropped({e.track : e \in events})
  <2>1. {e.track : e \in events} \in SUBSET Tracks
    BY <1>2, <1>3
  <2>2. ASSUME NEW t \in Tracks \ {e.track : e \in events} PROVE assigned'[t].id = assigned[t].id
    <3>1. t \notin present /\ t \notin Stale(present)
      BY <1>7
    <3> QED BY <1>1, <3>1
  <2> QED BY <1>1, <1>11, <2>1, <2>2, DroppedAgrees
<1>12. CASE Events!Sent(messages)
  <2>1. OnePerTrack(messages)
    BY <1>4, <1>9 DEF OnePerTrack
  <2>2. \A m \in messages : Events!Legal(Known, m.event)
    BY <1>9, <1>10
  <2>3. \A e \in events : assigned'[e.track].id = Events!Says(e)
    BY <1>1, <1>2, <1>3 DEF Events!Says, NoAssignment
  <2>4. \A t \in Tracks : Events!Of(messages, t) = {} => t \notin present /\ t \notin Stale(present)
    BY <1>7, <1>9 DEF Events!Of
  <2>5. SaysIt(messages)
    BY <1>1, <1>9, <2>3, <2>4 DEF SaysIt
  <2>6. messages \cap flight = {}
    BY <1>9 DEF Free
  <2> QED BY <1>1, <1>8, <1>12, <2>1, <2>2, <2>5, <2>6, SentAgrees, SentEmits
<1> QED BY <1>1, <1>11, <1>12

\* A bundle's events are under way only while the task waits for them.
BundleInv == pc # "publishing" => Free("bundle")

LEMMA NextBundle ==
  ASSUME TypeOK, BundleInv, [Next]_vars
  PROVE  BundleInv'
<1>1. CASE Thread \/ EnsureReady \/ Tick \/ UNCHANGED vars
  BY <1>1 DEF Thread, Search, Lookup, Upsert, CallFails, EnsureReady, Tick, vars, published, BundleInv, Free
<1>2. CASE Apply \/ NothingToResolve
  <2>1. pc # "publishing" /\ \E present, fails : Conclude(present, fails)
    BY <1>2 DEF Apply, NothingToResolve, Bundle
  <2>2. pc' = "publishing" \/ flight' = flight
    BY <2>1 DEF Conclude, Events!Dropped
  <2> QED BY <2>1, <2>2 DEF BundleInv, Free
<1>3. CASE \E m \in flight : Deliver(m) \/ Lose(m)
  <2>1. flight' \subseteq flight /\ pc' = pc
    BY <1>3 DEF Deliver, Lose, Events!Received, Events!Lost
  <2> QED BY <2>1 DEF BundleInv, Free
<1>4. CASE Cancel
  <2>1. flight' = flight \ {m \in flight : m.by \in {"bundle", "task"}}
    BY <1>4 DEF Cancel, Events!Lost
  <2> QED BY <2>1 DEF BundleInv, Free
<1>5. CASE BeginShutdown \/ Close("task") \/ Close("lifespan") \/ LeaveLoop \/ Raise \/ Published
  <2>1. flight' = flight
    BY <1>5 DEF BeginShutdown, Close, LeaveLoop, Raise, Published, published
  <2>2. pc' = "publishing" => pc = "publishing"
    BY <1>5 DEF BeginShutdown, Close, LeaveLoop, Raise, Published, StartStop
  <2>3. pc = "publishing" => pc' = "publishing" \/ Free("bundle")
    BY <1>5 DEF BeginShutdown, Close, LeaveLoop, Raise, Published
  <2> QED BY <2>1, <2>2, <2>3 DEF BundleInv, Free
<1>6. ASSUME NEW by \in {"task", "lifespan"}, NEW c, Remove(by, c), pc' = pc
      PROVE  BundleInv'
  <2>1. flight' = flight \cup Expiries(by, Gone(c))
    BY <1>6, RemoveEffect DEF Events!Sent
  <2>2. \A m \in Expiries(by, Gone(c)) : m.by # "bundle"
    BY DEF Expiries
  <2> QED BY <1>6, <2>1, <2>2 DEF BundleInv, Free
<1>7. CASE \E by \in {"task", "lifespan"} : \E c \in Cameras : Visit(by, c)
  BY <1>6, <1>7 DEF Visit
<1>8. CASE \E c \in Cameras : Refresh(c) \/ Add(c)
  <2>1. PICK c \in Cameras : Refresh(c) \/ Add(c)
    BY <1>8
  <2>2. CASE Refresh(c)
    BY <1>6, <2>2 DEF Refresh
  <2>3. CASE Add(c)
    BY <2>3 DEF Add, published, BundleInv, Free
  <2> QED BY <2>1, <2>2, <2>3
<1>9. CASE \E tracks \in SUBSET Tracks : \E looks \in [tracks -> Looks] : Resolve(looks)
  <2>1. pc = "idle" /\ pc' = "resolving" /\ flight' = flight
    BY <1>9 DEF Resolve, Bundle, published
  <2> QED BY <2>1 DEF BundleInv, Free
<1> QED BY <1>1, <1>2, <1>3, <1>4, <1>5, <1>7, <1>8, <1>9, NextCases

\* Nothing happens to the events.
LEMMA SilentAgrees ==
  ASSUME TypeOK, AgreeInv, \A t \in Tracks : assigned'[t].id = assigned[t].id,
         UNCHANGED <<flight, told, trust>>
  PROVE  AgreeInv' /\ UNCHANGED Events!vars
<1>1. AgreeInv'
  BY DEF AgreeInv, Events!Of, Events!Says, Events!Legal
<1>2. Known' = Known
  BY DEF Known
<1> QED BY <1>1, <1>2 DEF Events!vars

\* Every step of the system is a step of TrackEvents or changes nothing of it.
LEMMA NextAgrees ==
  ASSUME TypeOK, WorkerInv, BundleInv, AgreeInv, [Next]_vars
  PROVE  AgreeInv' /\ [Events!Next]_Events!vars
<1>1. CASE Thread \/ EnsureReady \/ BeginShutdown \/ Close("task") \/ Close("lifespan") \/ LeaveLoop
           \/ Raise \/ Published \/ UNCHANGED vars
           \/ (\E c \in Cameras : Add(c))
           \/ (\E tracks \in SUBSET Tracks : \E looks \in [tracks -> Looks] : Resolve(looks))
  <2>1. UNCHANGED <<assigned, flight, told, trust>>
    BY <1>1 DEF Thread, Search, Lookup, Upsert, CallFails, EnsureReady, BeginShutdown, Close,
                LeaveLoop, Raise, Published, vars, Add, Resolve, published
  <2> QED BY <2>1, SilentAgrees
<1>2. CASE Tick
  <2>1. UNCHANGED <<flight, told, trust>> /\ \A t \in Tracks : assigned'[t].id = assigned[t].id
    BY <1>2 DEF Tick, TypeOK, Assigned, NoAssignment, published
  <2> QED BY <2>1, SilentAgrees
<1>3. CASE Apply
  <2>1. pc = "resolving" /\ thread = "done" /\ Conclude(DOMAIN batch, broken)
    BY <1>3 DEF Apply
  <2>2. /\ DOMAIN batch \in SUBSET Tracks /\ broken \in BOOLEAN
        /\ \A t \in DOMAIN batch : results[t].id \in Ids
    BY <2>1 DEF TypeOK, WorkerInv, Working
  <2> QED BY <2>1, <2>2, ConcludeAgrees DEF BundleInv
<1>4. CASE NothingToResolve
  <2>1. pc = "idle" /\ \E fails \in BOOLEAN : Conclude({}, fails)
    BY <1>4, NothingToResolveEffect
  <2> QED BY <2>1, ConcludeAgrees DEF BundleInv
<1>5. CASE \E m \in flight : Deliver(m) \/ Lose(m)
  <2>1. PICK m \in flight : Deliver(m) \/ Lose(m)
    BY <1>5
  <2>2. CASE Deliver(m)
    BY <2>2, ReceivedAgrees DEF Deliver
  <2>3. CASE Lose(m)
    BY <2>3, LostAgrees DEF Lose
  <2> QED BY <2>1, <2>2, <2>3
<1>6. CASE Cancel
  BY <1>6, LostAgrees DEF Cancel
<1>7. CASE \E by \in {"task", "lifespan"} : \E c \in Cameras : Visit(by, c)
  BY <1>7, RemoveAgrees DEF Visit
<1>8. CASE \E c \in Cameras : Refresh(c)
  BY <1>8, RemoveAgrees DEF Refresh
<1> QED BY <1>1, <1>2, <1>3, <1>4, <1>5, <1>6, <1>7, <1>8, NextCases

LEMMA Agreement == Spec => [](AgreeInv /\ BundleInv)
<1>1. Init => AgreeInv /\ BundleInv
  BY DEF Init, AgreeInv, BundleInv, Free, NoAssignment, Events!Of
<1>2. TypeOK /\ WorkerInv /\ AgreeInv /\ BundleInv /\ [Next]_vars => AgreeInv' /\ BundleInv'
  BY NextAgrees, NextBundle
<1> QED BY <1>1, <1>2, TypeCorrect, PTL DEF Spec

\* The service implements TrackEvents: whatever fails, however the shutdown and the task get
\* in each other's way, and whichever publications Kafka refuses, the events of a track make
\* sense one after the other as long as none is lost or overtaken, and again from the next
\* one on (service.py 199-260, runtime.py 292-325).
THEOREM EventsMakeSense == Spec => ImplementsTrackEvents
<1>1. Init => Events!Init
  BY DEF Init, Events!Init, Known, NoAssignment
<1>2. TypeOK /\ WorkerInv /\ BundleInv /\ AgreeInv /\ [Next]_vars => [Events!Next]_Events!vars
  BY NextAgrees
<1> QED
  BY <1>1, <1>2, TypeCorrect, Agreement, PTL DEF Spec, ImplementsTrackEvents, Events!Spec

\* A track is assigned only while its camera is active, or the task has failed over it or
\* over another track of its bundle, in which case the subscribers cannot trust what they
\* are told.  stop() has all active cameras to remove.
CameraInv ==
  /\ pc = "starting" => active = {}
  /\ pc = "resolving" /\ ~broken => \A t \in DOMAIN batch : t[1] \in active
  /\ \A t \in Assigned :
       \/ t[1] \in active
       \/ /\ pc \in {"stopping", "stopped", "aborted"}
          /\ trust[t] # "sure"
          /\ trust[t] = "lost" => Events!Of(flight, t) = {}
  /\ pc = "stopping" => active \subseteq todo["task"]
  /\ pc = "stopped" => active = {}

\* The camera of a track stays active, or there is no message for it.
LEMMA ConcludeCamera ==
  ASSUME TypeOK, BundleInv, CameraInv, pc \in {"idle", "resolving"}, NEW present \in SUBSET Tracks,
         \A t \in present : results[t].id \in Ids, NEW fails \in BOOLEAN, Conclude(present, fails),
         ~fails => \A t \in present : t[1] \in active
  PROVE  CameraInv'
<1> DEFINE tracks == {e.track : e \in BundleEvents(present)}
<1>1. /\ assigned' = [t \in Tracks |->
                        IF t \in present THEN [id |-> results[t].id, age |-> 0]
                        ELSE IF t \in Stale(present) THEN NoAssignment ELSE assigned[t]]
      /\ active' = active
      /\ \/ fails /\ Events!Dropped(tracks) /\ StartStop
         \/ ~fails /\ pc' = "publishing"
  BY ConcludeEffect
<1>2. ASSUME NEW t \in Assigned', t[1] \notin active
      PROVE  t \in present /\ fails
  <2>1. t \in Tracks /\ (t \notin present => t \in Assigned)
    BY <1>1 DEF Assigned
  <2>2. t \in present
    BY <1>2, <2>1 DEF CameraInv
  <2> QED BY <1>2, <2>2
<1>3. ASSUME NEW t \in present PROVE t \in tracks
  <2>1. EventOf(t) \in BundleEvents(present) /\ EventOf(t).track = t
    BY DEF BundleEvents, EventOf
  <2> QED BY <2>1
<1> HIDE DEF tracks
<1>4. CASE ~fails
  BY <1>1, <1>2, <1>4 DEF CameraInv
<1>5. CASE fails
  <2>1. /\ Events!Dropped(tracks)
        /\ \/ pc' = "stopped" /\ active = {}
           \/ pc' = "stopping" /\ todo'["task"] = active
    BY <1>1, <1>5, StartStopEffect
  <2>2. ASSUME NEW t \in Assigned', t[1] \notin active
        PROVE  trust'[t] # "sure" /\ (trust'[t] = "lost" => Events!Of(flight', t) = {})
    <3>1. t \in tracks /\ t \in Tracks
      BY <1>2, <1>3, <2>2 DEF Assigned
    <3> QED BY <2>1, <3>1 DEF Events!Dropped
  <2> QED BY <1>1, <2>1, <2>2 DEF CameraInv, Events!Of
<1> QED BY <1>4, <1>5

LEMMA RemoveCamera ==
  ASSUME TypeOK, CameraInv, NEW by \in {"task", "lifespan"}, NEW c, Remove(by, c), pc' = pc
  PROVE  /\ active' \subseteq active
         /\ \A t \in Assigned' :
              \/ t[1] \in active'
              \/ /\ pc' \in {"stopping", "stopped", "aborted"}
                 /\ trust'[t] # "sure"
                 /\ trust'[t] = "lost" => Events!Of(flight', t) = {}
<1>1. /\ active' = active \ {c} /\ Events!Sent(Expiries(by, Gone(c)))
      /\ assigned' = [t \in Tracks |-> IF t \in Gone(c) THEN NoAssignment ELSE assigned[t]]
  BY RemoveEffect
<1>2. ASSUME NEW t \in Assigned', t[1] \notin active'
      PROVE  /\ pc \in {"stopping", "stopped", "aborted"}
             /\ trust'[t] # "sure"
             /\ trust'[t] = "lost" => Events!Of(flight', t) = {}
  <2>1. t \in Assigned /\ t \notin Gone(c) /\ t \in Tracks
    BY <1>1 DEF Assigned
  <2>2. t[1] \notin active
    BY <1>1, <1>2, <2>1 DEF Gone
  <2>3. /\ pc \in {"stopping", "stopped", "aborted"} /\ trust[t] # "sure"
        /\ trust[t] = "lost" => Events!Of(flight, t) = {}
    BY <2>1, <2>2 DEF CameraInv
  <2>4. \A m \in Expiries(by, Gone(c)) : m.event.track \in Gone(c)
    BY DEF Expiries, Expiry
  <2>5. Events!Of(Expiries(by, Gone(c)), t) = {}
    BY <2>1, <2>4 DEF Events!Of
  <2>6. trust'[t] = trust[t]
    BY <1>1, <2>1, <2>5 DEF Events!Sent
  <2>7. Events!Of(flight', t) = Events!Of(flight, t)
    BY <1>1, <2>5 DEF Events!Sent, Events!Of
  <2> QED BY <2>3, <2>6, <2>7
<1> QED BY <1>1, <1>2

LEMMA VisitCamera ==
  ASSUME TypeOK, CameraInv, NEW by \in {"task", "lifespan"}, NEW c, Visit(by, c)
  PROVE  CameraInv'
<1>1. /\ todo' = [todo EXCEPT ![by] = @ \ {c}] /\ Remove(by, c) /\ pc' = pc /\ batch' = batch
      /\ pc = "resolving" /\ ~broken' => ~broken /\ \A t \in DOMAIN batch : t[1] = c => c \notin active
  BY VisitEffect
<1>2. active' = active \ {c}
  BY <1>1, RemoveEffect
<1>3. \A t \in Assigned' :
        \/ t[1] \in active'
        \/ /\ pc' \in {"stopping", "stopped", "aborted"}
           /\ trust'[t] # "sure"
           /\ trust'[t] = "lost" => Events!Of(flight', t) = {}
  BY <1>1, RemoveCamera
<1>4. pc = "resolving" /\ ~broken' => \A t \in DOMAIN batch : t[1] \in active'
  BY <1>1, <1>2 DEF CameraInv
<1>5. pc = "stopping" => active' \subseteq todo'["task"]
  BY <1>1, <1>2 DEF CameraInv, TypeOK
<1> QED BY <1>1, <1>2, <1>3, <1>4, <1>5 DEF CameraInv

\* The messages under way become fewer.
LEMMA FewerCamera ==
  ASSUME TypeOK, CameraInv, UNCHANGED <<assigned, active>>,
         \/ \E m \in flight : Events!Received(m)
         \/ \E messages \in SUBSET flight : Events!Lost(messages)
         \/ UNCHANGED <<flight, trust>>,
         NEW t \in Assigned', t[1] \notin active'
  PROVE  /\ pc \in {"stopping", "stopped", "aborted"}
         /\ trust'[t] # "sure"
         /\ trust'[t] = "lost" => Events!Of(flight', t) = {}
<1>1. t \in Tracks /\ t \in Assigned
  BY DEF Assigned
<1>2. /\ pc \in {"stopping", "stopped", "aborted"} /\ trust[t] # "sure"
      /\ trust[t] = "lost" => Events!Of(flight, t) = {}
  BY <1>1 DEF CameraInv
<1>3. CASE \E m \in flight : Events!Received(m)
  <2>1. PICK m \in flight : Events!Received(m)
    BY <1>3
  <2>2. CASE m.event.track = t
    <3>1. m \in Events!Of(flight, t)
      BY <2>2 DEF Events!Of
    <3>2. trust[t] = "crossed"
      BY <1>1, <1>2, <3>1 DEF TypeOK, Events!Trust
    <3> QED BY <1>1, <1>2, <2>1, <2>2, <3>2 DEF Events!Received, TypeOK
  <2>3. CASE m.event.track # t
    <3>1. trust'[t] = trust[t] /\ Events!Of(flight', t) = Events!Of(flight, t)
      BY <1>1, <2>1, <2>3 DEF Events!Received, Events!Of, TypeOK
    <3> QED BY <1>2, <3>1
  <2> QED BY <2>2, <2>3
<1>4. CASE \E messages \in SUBSET flight : Events!Lost(messages)
  <2>1. trust'[t] = trust[t] /\ flight' \subseteq flight
    BY <1>1, <1>2, <1>4 DEF Events!Lost
  <2>2. Events!Of(flight', t) \subseteq Events!Of(flight, t)
    BY <2>1 DEF Events!Of
  <2> QED BY <1>2, <2>1, <2>2
<1>5. CASE UNCHANGED <<flight, trust>>
  BY <1>2, <1>5
<1> QED BY <1>3, <1>4, <1>5

LEMMA NextCamera ==
  ASSUME TypeOK, WorkerInv, BundleInv, CameraInv, [Next]_vars
  PROVE  CameraInv'
<1>1. CASE Thread \/ UNCHANGED vars
  <2>1. UNCHANGED <<pc, active, broken, batch, assigned, todo, flight, trust>>
    BY <1>1 DEF Thread, Search, Lookup, Upsert, CallFails, vars, stopping, published
  <2> QED BY <2>1 DEF CameraInv, Assigned, Events!Of
<1>2. CASE EnsureReady
  <2>1. /\ pc = "starting" /\ UNCHANGED <<assigned, todo, flight, trust>>
        /\ (pc' = "idle" \/ (pc' = "stopped" /\ active' = active))
    BY <1>2 DEF EnsureReady, connection, published
  <2>2. Assigned' = {} /\ active = {}
    BY <2>1 DEF CameraInv, Assigned
  <2> QED BY <2>1, <2>2 DEF CameraInv
<1>3. CASE Tick
  <2>1. /\ UNCHANGED <<pc, active, broken, batch, todo, flight, trust>>
        /\ assigned' = [t \in Tracks |->
                          IF t \in Assigned /\ assigned[t].age < Ttl
                          THEN [assigned[t] EXCEPT !.age = @ + 1] ELSE assigned[t]]
    BY <1>3 DEF Tick, stopping, published
  <2>2. Assigned' \subseteq Assigned
    BY <2>1 DEF Assigned
  <2> QED BY <2>1, <2>2 DEF CameraInv, Events!Of
<1>4. CASE Apply
  <2>1. pc = "resolving" /\ thread = "done" /\ Conclude(DOMAIN batch, broken)
    BY <1>4 DEF Apply
  <2>2. /\ DOMAIN batch \in SUBSET Tracks /\ broken \in BOOLEAN
        /\ \A t \in DOMAIN batch : results[t].id \in Ids
    BY <2>1 DEF TypeOK, WorkerInv, Working
  <2>3. ~broken => \A t \in DOMAIN batch : t[1] \in active
    BY <2>1 DEF CameraInv
  <2> QED BY <2>1, <2>2, <2>3, ConcludeCamera
<1>5. CASE NothingToResolve
  <2>1. pc = "idle" /\ \E fails \in BOOLEAN : Conclude({}, fails)
    BY <1>5, NothingToResolveEffect
  <2> QED BY <2>1, ConcludeCamera
<1>6. CASE \E m \in flight : Deliver(m) \/ Lose(m)
  <2>1. UNCHANGED <<pc, active, broken, batch, assigned, todo>>
    BY <1>6 DEF Deliver, Lose, stopping
  <2>2. \/ \E m \in flight : Events!Received(m)
        \/ \E messages \in SUBSET flight : Events!Lost(messages)
    BY <1>6 DEF Deliver, Lose
  <2>3. \A t \in Assigned' :
          t[1] \notin active' => /\ pc \in {"stopping", "stopped", "aborted"} /\ trust'[t] # "sure"
                                 /\ trust'[t] = "lost" => Events!Of(flight', t) = {}
    BY <2>1, <2>2, FewerCamera
  <2> QED BY <2>1, <2>3 DEF CameraInv
<1>7. CASE BeginShutdown \/ Cancel \/ Close("task") \/ Close("lifespan") \/ LeaveLoop \/ Raise \/ Published
  <2>1. UNCHANGED <<active, broken, batch, assigned>>
    BY <1>7 DEF BeginShutdown, Cancel, Close, LeaveLoop, Raise, Published
  <2>2. \/ \E messages \in SUBSET flight : Events!Lost(messages)
        \/ UNCHANGED <<flight, trust>>
    BY <1>7 DEF BeginShutdown, Cancel, Close, LeaveLoop, Raise, Published, published
  <2>3. \A t \in Assigned' :
          t[1] \notin active' => /\ pc \in {"stopping", "stopped", "aborted"} /\ trust'[t] # "sure"
                                 /\ trust'[t] = "lost" => Events!Of(flight', t) = {}
    BY <2>1, <2>2, FewerCamera
  <2>4. /\ pc \in {"stopping", "stopped", "aborted"} => pc' \in {"stopping", "stopped", "aborted"}
        /\ pc' = "starting" => pc = "starting"
        /\ pc' = "resolving" => pc = "resolving"
    BY <1>7 DEF BeginShutdown, Cancel, Close, LeaveLoop, Raise, Published, StartStop
  <2>5. (pc' = "stopping" => active' \subseteq todo'["task"]) /\ (pc' = "stopped" => active' = {})
    <3>1. CASE StartStop
      BY <2>1, <3>1, StartStopEffect
    <3>2. CASE BeginShutdown
      BY <2>1, <3>2 DEF BeginShutdown, CameraInv, TypeOK
    <3>3. CASE Close("task") \/ Close("lifespan")
      BY <2>1, <3>3 DEF Close, CameraInv
    <3>4. CASE (Cancel \/ Published) /\ ~StartStop
      BY <2>1, <3>4 DEF Cancel, Published, CameraInv
    <3> QED BY <1>7, <3>1, <3>2, <3>3, <3>4 DEF LeaveLoop, Raise
  <2> QED BY <2>1, <2>3, <2>4, <2>5 DEF CameraInv
<1>8. CASE \E by \in {"task", "lifespan"} : \E c \in Cameras : Visit(by, c)
  BY <1>8, VisitCamera
<1>9. CASE \E c \in Cameras : Refresh(c)
  <2>1. PICK c \in Cameras : Refresh(c)
    BY <1>9
  <2>2. pc = "idle" /\ pc' = pc /\ Remove("task", c)
    BY <2>1 DEF Refresh
  <2> QED BY <2>2, RemoveCamera DEF CameraInv
<1>10. CASE \E c \in Cameras : Add(c)
  <2>1. pc = "idle" /\ pc' = pc /\ active \subseteq active' /\ assigned' = assigned
    BY <1>10 DEF Add
  <2>2. \A t \in Assigned' : t[1] \in active'
    BY <2>1 DEF CameraInv, Assigned
  <2> QED BY <2>1, <2>2 DEF CameraInv
<1>11. CASE \E tracks \in SUBSET Tracks : \E looks \in [tracks -> Looks] : Resolve(looks)
  <2>1. PICK tracks \in SUBSET Tracks : \E looks \in [tracks -> Looks] : Resolve(looks)
    BY <1>11
  <2>2. PICK looks \in [tracks -> Looks] : Resolve(looks)
    BY <2>1
  <2>3. /\ pc = "idle" /\ pc' = "resolving" /\ UNCHANGED <<assigned, active>> /\ batch' = looks
        /\ ~broken' => {t[1] : t \in DOMAIN looks} \subseteq active
    BY <2>2 DEF Resolve, Bundle
  <2>4. \A t \in Assigned' : t[1] \in active'
    BY <2>3 DEF CameraInv, Assigned
  <2>5. ~broken' => \A t \in DOMAIN batch' : t[1] \in active'
    BY <2>3
  <2> QED BY <2>3, <2>4, <2>5 DEF CameraInv
<1> QED BY <1>1, <1>2, <1>3, <1>4, <1>5, <1>6, <1>7, <1>8, <1>9, <1>10, <1>11, NextCases

\* A pipeline that has stopped, in whatever way, and whose last events are no longer under
\* way has told the subscribers that every track has expired, but for those of which an
\* event was lost or overtaken (runtime.py 176-187, 238, 292-325).
THEOREM StopAlwaysExpiresTracks == Spec => []StopExpiresTracks
<1>1. Init => CameraInv
  BY DEF Init, CameraInv, Assigned
<1>2. TypeOK /\ WorkerInv /\ BundleInv /\ CameraInv /\ [Next]_vars => CameraInv'
  BY NextCamera
<1>3. AgreeInv /\ CameraInv => StopExpiresTracks
  <2> SUFFICES ASSUME AgreeInv, CameraInv, pc = "stopped", flight = {}, NEW t \in Tracks,
                      told[t] # None, trust[t] = "sure"
               PROVE  FALSE
    BY DEF StopExpiresTracks
  <2>1. told[t] = assigned[t].id
    BY DEF AgreeInv, Events!Of
  <2>2. t \in Assigned
    BY <2>1 DEF Assigned, NoAssignment
  <2> QED BY <2>2 DEF CameraInv
<1> QED BY <1>1, <1>2, <1>3, TypeCorrect, Agreement, PTL DEF Spec

-----------------------------------------------------------------------------
(* What is stored.                                                         *)

\* The identities of the assignments and of the events are in the collection.
StoredInv ==
  /\ \A t \in Tracks : assigned[t].id \in DOMAIN stored \cup {None}
  /\ \A m \in flight : m.event.id \in DOMAIN stored
  /\ \A t \in Tracks : told[t] \in DOMAIN stored \cup {None}

LEMMA StoredKept ==
  ASSUME [Next]_vars, ~Upsert
  PROVE  stored' = stored
<1>1. CASE Thread \/ EnsureReady \/ Tick \/ UNCHANGED vars
  BY <1>1 DEF Thread, Search, Lookup, CallFails, EnsureReady, Tick, vars
<1>2. CASE Apply \/ NothingToResolve
  BY <1>2 DEF Apply, NothingToResolve, Conclude
<1>3. CASE \/ \E m \in flight : Deliver(m) \/ Lose(m)
           \/ BeginShutdown \/ Cancel \/ Close("task") \/ Close("lifespan") \/ LeaveLoop \/ Raise \/ Published
  BY <1>3 DEF Deliver, Lose, BeginShutdown, Cancel, Close, LeaveLoop, Raise, Published
<1>4. CASE \/ \E by \in {"task", "lifespan"} : \E c \in Cameras : Visit(by, c)
           \/ \E c \in Cameras : Refresh(c) \/ Add(c)
           \/ \E tracks \in SUBSET Tracks : \E looks \in [tracks -> Looks] : Resolve(looks)
  BY <1>4 DEF Visit, Refresh, Add, Resolve
<1> QED BY <1>1, <1>2, <1>3, <1>4, NextCases

LEMMA ConcludeStored ==
  ASSUME TypeOK, StoredInv, NEW present \in SUBSET Tracks, \A t \in present : results[t].id \in Ids,
         \A t \in present : results[t].id \in DOMAIN stored, NEW fails \in BOOLEAN,
         Conclude(present, fails)
  PROVE  StoredInv'
<1>1. /\ assigned' = [t \in Tracks |->
                        IF t \in present THEN [id |-> results[t].id, age |-> 0]
                        ELSE IF t \in Stale(present) THEN NoAssignment ELSE assigned[t]]
      /\ \/ Events!Dropped({e.track : e \in BundleEvents(present)})
         \/ Events!Sent(BundleMessages(present))
      /\ UNCHANGED <<stored, told>>
  BY ConcludeEffect
<1>2. \A t \in Tracks : assigned'[t].id \in DOMAIN stored \cup {None}
  BY <1>1 DEF StoredInv, NoAssignment
<1>3. \A t \in present : EventOf(t).id \in DOMAIN stored
  BY DEF EventOf
<1>4. \A t \in Stale(present) : Expiry(t).id \in DOMAIN stored
  <2>1. \A t \in Stale(present) : t \in Tracks /\ assigned[t].id \in Ids
    BY DEF Stale, Assigned, TypeOK
  <2> QED BY <2>1, IdsAssumption DEF Expiry, StoredInv
<1>5. \A m \in BundleMessages(present) : m.event.id \in DOMAIN stored
  BY <1>3, <1>4 DEF BundleMessages, BundleEvents
<1>6. \A m \in flight' : m \in flight \/ m \in BundleMessages(present)
  BY <1>1 DEF Events!Dropped, Events!Sent
<1> QED BY <1>1, <1>2, <1>5, <1>6 DEF StoredInv

LEMMA RemoveStored ==
  ASSUME TypeOK, StoredInv, NEW by \in {"task", "lifespan"}, NEW c, Remove(by, c), stored' = stored
  PROVE  StoredInv'
<1>1. /\ told' = told /\ flight' = flight \cup Expiries(by, Gone(c)) /\ Gone(c) \in SUBSET Assigned
      /\ assigned' = [t \in Tracks |-> IF t \in Gone(c) THEN NoAssignment ELSE assigned[t]]
  BY RemoveEffect DEF Events!Sent
<1>2. \A t \in Gone(c) : Expiry(t).id \in DOMAIN stored
  <2>1. \A t \in Gone(c) : t \in Tracks /\ assigned[t].id \in Ids
    BY <1>1 DEF Assigned, TypeOK
  <2> QED BY <2>1, IdsAssumption DEF Expiry, StoredInv
<1>3. \A m \in Expiries(by, Gone(c)) : m.event.id \in DOMAIN stored
  BY <1>2 DEF Expiries
<1> QED BY <1>1, <1>3 DEF StoredInv, NoAssignment

LEMMA NextStored ==
  ASSUME TypeOK, WorkerInv, StoredInv, [Next]_vars
  PROVE  StoredInv'
<1>1. CASE Apply
  <2>1. thread = "done" /\ Conclude(DOMAIN batch, broken) /\ DOMAIN batch \in SUBSET Tracks
        /\ broken \in BOOLEAN
    BY <1>1 DEF Apply, TypeOK
  <2>2. \A t \in DOMAIN batch : results[t].id \in DOMAIN stored /\ results[t].id \in Ids
    BY <2>1 DEF WorkerInv, Working
  <2> QED BY <2>1, <2>2, ConcludeStored
<1>2. CASE NothingToResolve
  <2>1. \E fails \in BOOLEAN : Conclude({}, fails)
    BY <1>2, NothingToResolveEffect
  <2> QED BY <2>1, ConcludeStored
<1>3. CASE \/ \E by \in {"task", "lifespan"} : \E c \in Cameras : Visit(by, c)
           \/ \E c \in Cameras : Refresh(c)
  BY <1>3, RemoveStored DEF Visit, Refresh
<1>4. CASE \E m \in flight : Deliver(m) \/ Lose(m)
  <2>1. PICK m \in flight : Deliver(m) \/ Lose(m)
    BY <1>4
  <2>2. UNCHANGED <<stored, assigned>> /\ flight' \subseteq flight
    BY <2>1 DEF Deliver, Lose, Events!Received, Events!Lost
  <2>3. ASSUME NEW t \in Tracks PROVE told'[t] \in DOMAIN stored \cup {None}
    <3>1. CASE Deliver(m)
      <4>1. told' = Events!After(told, {m})
        BY <3>1 DEF Deliver, Events!Received
      <4>2. \A n \in Events!Of({m}, t) : Events!Says(n.event) \in DOMAIN stored \cup {None}
        BY DEF StoredInv, Events!Of, Events!Says
      <4>3. CASE Events!Of({m}, t) = {}
        BY <4>1, <4>3 DEF Events!After, StoredInv
      <4>4. CASE Events!Of({m}, t) # {}
        BY <4>1, <4>2, <4>4 DEF Events!After
      <4> QED BY <4>3, <4>4
    <3>2. CASE Lose(m)
      BY <3>2 DEF Lose, StoredInv
    <3> QED BY <2>1, <3>1, <3>2
  <2> QED BY <2>2, <2>3 DEF StoredInv
<1>5. CASE Tick
  <2>1. /\ UNCHANGED <<stored, flight, told>>
        /\ \A t \in Tracks : assigned'[t].id = assigned[t].id
    BY <1>5 DEF Tick, TypeOK, Assigned, NoAssignment, published
  <2> QED BY <2>1 DEF StoredInv
<1>6. CASE \/ Thread \/ EnsureReady \/ UNCHANGED vars
           \/ BeginShutdown \/ Cancel \/ Close("task") \/ Close("lifespan") \/ LeaveLoop \/ Raise \/ Published
           \/ \E c \in Cameras : Add(c)
           \/ \E tracks \in SUBSET Tracks : \E looks \in [tracks -> Looks] : Resolve(looks)
  <2>1. UNCHANGED <<assigned, told>> /\ flight' \subseteq flight
    BY <1>6 DEF Thread, Search, Lookup, Upsert, CallFails, EnsureReady, BeginShutdown, Cancel, Close,
                LeaveLoop, Raise, Published, vars, published, Add, Resolve, Events!Lost
  <2>2. DOMAIN stored \subseteq DOMAIN stored'
    BY StoredKept DEF Upsert
  <2> QED BY <2>1, <2>2 DEF StoredInv
<1> QED BY <1>1, <1>2, <1>3, <1>4, <1>5, <1>6, NextCases

\* An identity that anybody has been told of is stored, whichever call has failed and
\* whenever the task was cancelled (milvus_store.py 323-401).
THEOREM AnnouncedAlwaysStored == Spec => []AnnouncedIdentitiesStored
<1>1. Init => StoredInv
  BY DEF Init, StoredInv, NoAssignment
<1>2. TypeOK /\ WorkerInv /\ StoredInv /\ [Next]_vars => StoredInv'
  BY NextStored
<1>3. StoredInv => AnnouncedIdentitiesStored
  BY DEF StoredInv, AnnouncedIdentitiesStored
<1> QED BY <1>1, <1>2, <1>3, TypeCorrect, PTL DEF Spec

\* What the payloads about to be upserted keep of the records.
PayloadInv ==
  /\ thread = "looked" => \A i \in DOMAIN firsts \cap DOMAIN stored : firsts[i] = stored[i].first
  /\ thread \in {"searched", "looked", "guessed"} =>
       \A i \in DOMAIN firsts \ DOMAIN stored : firsts[i] = batches
  /\ "lookup" \notin Faults => thread # "guessed"

\* Outside the worker thread.
LEMMA ThreadKept ==
  ASSUME [Next]_vars, ~Thread
  PROVE  \/ UNCHANGED <<thread, firsts, stored, batches, results, batch>>
         \/ thread' \in {"none", "ready"} /\ stored' = stored
<1>1. CASE EnsureReady \/ Tick \/ UNCHANGED vars \/ NothingToResolve
  BY <1>1 DEF EnsureReady, Tick, vars, worker, NothingToResolve, Conclude
<1>2. CASE Apply
  BY <1>2 DEF Apply, Conclude
<1>3. CASE \/ \E m \in flight : Deliver(m) \/ Lose(m)
           \/ BeginShutdown \/ Cancel \/ Close("task") \/ Close("lifespan") \/ LeaveLoop \/ Raise \/ Published
  BY <1>3 DEF Deliver, Lose, BeginShutdown, Cancel, Close, LeaveLoop, Raise, Published, worker
<1>4. CASE \/ \E by \in {"task", "lifespan"} : \E c \in Cameras : Visit(by, c)
           \/ \E c \in Cameras : Refresh(c) \/ Add(c)
  BY <1>4 DEF Visit, Refresh, Add, worker
<1>5. CASE \E tracks \in SUBSET Tracks : \E looks \in [tracks -> Looks] : Resolve(looks)
  BY <1>5 DEF Resolve
<1> QED BY <1>1, <1>2, <1>3, <1>4, <1>5, NextCases

LEMMA NextPayload ==
  ASSUME TypeOK, WorkerInv, PayloadInv, [Next]_vars
  PROVE  PayloadInv'
<1>1. CASE Search
  <2>1. thread' = "searched" /\ stored' = stored /\ batches' = batches
        /\ firsts' = [i \in {results'[t].id : t \in DOMAIN batch} |-> batches]
    BY <1>1 DEF Search
  <2> QED BY <2>1 DEF PayloadInv
<1>2. CASE Lookup
  <2>1. /\ thread = "searched" /\ stored' = stored /\ batches' = batches
        /\ \/ /\ thread' = "looked"
              /\ firsts' = [i \in DOMAIN firsts |->
                              IF i \in DOMAIN stored THEN stored[i].first ELSE firsts[i]]
           \/ "lookup" \in Faults /\ thread' = "guessed" /\ firsts' = firsts
    BY <1>2 DEF Lookup
  <2> QED BY <2>1 DEF PayloadInv
<1>3. CASE Upsert \/ CallFails
  <2>1. thread' \notin {"searched", "looked", "guessed"}
    BY <1>3 DEF Upsert, CallFails
  <2> QED BY <2>1 DEF PayloadInv
<1>4. CASE ~Thread
  BY <1>4, ThreadKept DEF PayloadInv
<1> QED BY <1>1, <1>2, <1>3, <1>4 DEF Thread

LEMMA Payloads == Spec => []PayloadInv
<1>1. Init => PayloadInv
  BY DEF Init, PayloadInv
<1> QED BY <1>1, NextPayload, TypeCorrect, PTL DEF Spec

\* Only the failure of the call that fetches the stored payloads can change the time an
\* identity was first seen: whatever else fails, is cancelled or overtakes it keeps it
\* (milvus_store.py 349-401).
THEOREM FirstSeenKept == Spec => FirstSeenLostOnlyByFailedLookup
<1>1. PayloadInv /\ [Next]_vars =>
        [\A i \in DOMAIN stored : stored'[i].first # stored[i].first => thread = "guessed"]_stored
  <2> SUFFICES ASSUME PayloadInv, [Next]_vars, stored' # stored, thread # "guessed"
               PROVE  \A i \in DOMAIN stored : stored'[i].first = stored[i].first
    OBVIOUS
  <2>1. Upsert
    BY StoredKept
  <2> QED BY <2>1 DEF Upsert, PayloadInv
<1> QED BY <1>1, Payloads, PTL DEF Spec, FirstSeenLostOnlyByFailedLookup

\* What was found is what was looked for, and a new identity has a look nobody has.
LookInv ==
  thread \in {"searched", "looked", "guessed"} =>
    \A t \in DOMAIN batch :
      /\ results[t].id \in DOMAIN stored => stored[results[t].id].look = batch[t]
      /\ results[t].id \notin DOMAIN stored => \A i \in DOMAIN stored : stored[i].look # batch[t]

LEMMA SearchLooks ==
  ASSUME Near = {}, Search
  PROVE  LookInv'
<1>1. PICK ids \in [DOMAIN batch -> Ids] :
        /\ \A t \in DOMAIN batch :
             IF Hits(batch[t]) # {} THEN ids[t] \in Hits(batch[t])
             ELSE ids[t] \notin DOMAIN stored /\ \A u \in DOMAIN batch \ {t} : ids[u] # ids[t]
        /\ results' = [t \in DOMAIN batch |-> [id |-> ids[t], matched |-> Hits(batch[t]) # {}]]
  BY DEF Search
<1>2. \A look : Hits(look) = {i \in DOMAIN stored : stored[i].look = look}
  BY DEF Hits
<1>3. UNCHANGED <<stored, batch>>
  BY DEF Search
<1>4. ASSUME NEW t \in DOMAIN batch
      PROVE  /\ results'[t].id \in DOMAIN stored => stored[results'[t].id].look = batch[t]
             /\ results'[t].id \notin DOMAIN stored =>
                  \A i \in DOMAIN stored : stored[i].look # batch[t]
  <2>1. results'[t].id = ids[t]
    BY <1>1
  <2> QED BY <1>1, <1>2, <2>1
<1> QED BY <1>3, <1>4 DEF LookInv

LEMMA NextLooks ==
  ASSUME WorkerInv, LookInv, Near = {}, [Next]_vars
  PROVE  LookInv'
<1>1. CASE Search
  BY <1>1, SearchLooks
<1>2. CASE Lookup
  <2>1. thread = "searched" /\ UNCHANGED <<stored, batch, results>>
    BY <1>2 DEF Lookup
  <2> QED BY <2>1 DEF LookInv
<1>3. CASE Upsert
  <2>1. thread' \notin {"searched", "looked", "guessed"}
    BY <1>3 DEF Upsert
  <2> QED BY <2>1 DEF LookInv
<1>4. CASE CallFails
  <2>1. thread' = "failed"
    BY <1>4 DEF CallFails
  <2> QED BY <2>1 DEF LookInv
<1>5. CASE ~Thread
  BY <1>5, ThreadKept DEF LookInv
<1> QED BY <1>1, <1>2, <1>3, <1>4, <1>5 DEF Thread

\* A record keeps its look, and a new one has a look no older one has.
LEMMA UpsertLooks ==
  ASSUME LookInv, Upsert
  PROVE  /\ \A i \in DOMAIN stored : stored'[i].look = stored[i].look
         /\ \A i \in DOMAIN stored' \ DOMAIN stored, j \in DOMAIN stored :
              stored'[i].look # stored[j].look
<1>1. PICK last \in [DOMAIN firsts -> DOMAIN batch] :
        /\ \A i \in DOMAIN firsts : results[last[i]].id = i
        /\ stored' = [i \in DOMAIN stored \cup DOMAIN firsts |->
                       IF i \in DOMAIN firsts THEN [look |-> batch[last[i]], first |-> firsts[i]]
                       ELSE stored[i]]
  BY DEF Upsert
<1>2. thread \in {"looked", "guessed"}
  BY DEF Upsert
<1>3. ASSUME NEW i \in DOMAIN stored
      PROVE  stored'[i].look = stored[i].look
  <2>1. CASE i \in DOMAIN firsts
    <3>1. last[i] \in DOMAIN batch /\ results[last[i]].id = i
      BY <1>1, <2>1
    <3>2. stored[i].look = batch[last[i]]
      BY <1>2, <3>1 DEF LookInv
    <3> QED BY <1>1, <2>1, <3>2
  <2>2. CASE i \notin DOMAIN firsts
    BY <1>1, <2>2
  <2> QED BY <2>1, <2>2
<1>4. ASSUME NEW i \in DOMAIN stored' \ DOMAIN stored, NEW j \in DOMAIN stored
      PROVE  stored'[i].look # stored[j].look
  <2>1. i \in DOMAIN firsts
    BY <1>1
  <2>2. last[i] \in DOMAIN batch /\ results[last[i]].id = i
    BY <1>1, <2>1
  <2>3. stored[j].look # batch[last[i]]
    BY <1>2, <2>2 DEF LookInv
  <2> QED BY <1>1, <2>1, <2>3
<1> QED BY <1>3, <1>4

\* Where no two different looks pass the threshold, one look gets two identities only if
\* one batch creates both, whose searches all precede its upsert, whichever calls fail
\* (milvus_store.py 334-401).
THEOREM DuplicatesFromOneBatch == Near = {} => (Spec => DuplicatesOnlyFromOneBatch)
<1> SUFFICES ASSUME Near = {}
             PROVE  Spec => DuplicatesOnlyFromOneBatch
  OBVIOUS
<1>1. Init => LookInv
  BY DEF Init, LookInv
<1>2. WorkerInv /\ LookInv /\ [Next]_vars => LookInv'
  BY NextLooks
<1>3. LookInv /\ [Next]_vars =>
        [\A i, j \in DOMAIN stored' : i # j /\ stored'[i].look = stored'[j].look =>
           IF i \in DOMAIN stored THEN j \in DOMAIN stored /\ stored[i].look = stored[j].look
           ELSE j \notin DOMAIN stored]_stored
  <2> SUFFICES ASSUME LookInv, [Next]_vars, stored' # stored,
                      NEW i \in DOMAIN stored', NEW j \in DOMAIN stored', i # j,
                      stored'[i].look = stored'[j].look
               PROVE  IF i \in DOMAIN stored
                      THEN j \in DOMAIN stored /\ stored[i].look = stored[j].look
                      ELSE j \notin DOMAIN stored
    OBVIOUS
  <2>1. Upsert
    BY StoredKept
  <2> QED BY <2>1, UpsertLooks
<1> QED BY <1>1, <1>2, <1>3, TypeCorrect, PTL DEF Spec, DuplicatesOnlyFromOneBatch
=============================================================================
