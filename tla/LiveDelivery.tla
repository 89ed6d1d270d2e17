---------------------------- MODULE LiveDelivery ----------------------------
(***************************************************************************)
(* What becomes of the outputs of the pipeline and of the inference        *)
(* workers.  For all cameras of a bundle at once, the dispatcher pushes    *)
(* the frame to the WebRTC viewers and broadcasts the tracks and the frame *)
(* to the WebSocket clients; each worker broadcasts its results, by        *)
(* itself; and the consumer broadcasts what it reads from Kafka            *)
(* (backend/src/opencv_pipeline/output/publisher.py OutputDispatcher,      *)
(* services/tracking/updates.py, services/inference/orchestrator.py,       *)
(* services/stream/kafka_event_consumer.py).                               *)
(*                                                                         *)
(* Kafka is external: the consumer may be handed a message about any       *)
(* camera at any time, or never again, so that what the other tasks        *)
(* publish to Kafka, whether that fails, and whether the consumer's loop   *)
(* has ended make no difference here.  What the dispatcher hands to the    *)
(* inference ingress is in IngressScheduler.                               *)
(***************************************************************************)
EXTENDS WebSockets, PeerConnections

CONSTANTS
  Workers,     (* The cameras with an inference worker.                    *)
  MaxBundles,  (* Bound of the model: bundles of the pipeline.             *)
  MaxClients   (* Bound of the model: sockets and offers together.         *)

ASSUME DeliveryAssumption ==
  /\ MaxBundles \in Nat /\ MaxClients \in Nat
  /\ Viewable \subseteq Cameras /\ Workers \subseteq Cameras

VARIABLES
  bundles,   (* The cameras of each bundle so far.                         *)
  parts      (* The broadcasts that are about to begin.                    *)

rest == <<bundles, parts>>
vars == <<wsvars, pcvars, rest>>

Init ==
  /\ WebSocketsInit /\ PeersInit
  /\ bundles = <<>>
  /\ parts = {}

Number == Len(bundles)

\* What the tasks of the pipeline and of a worker broadcast.
OfBundle(cameras) == {"tracks", "frame"} \X cameras \X {None}
Results(c, payloads) == {"inference"} \X {c} \X payloads
Alerts(c, payloads) == {"alert"} \X {c} \X payloads
OfWorker(c) == Results(c, Payloads) \cup Alerts(c, Payloads)

-----------------------------------------------------------------------------
(* The pipeline.                                                           *)

\* It waits for everything it has dispatched before the next bundle.
Dispatched == OfBundle(Viewable) \cap (parts \cup sending) = {}

Dispatch(cameras) ==
  /\ Dispatched /\ Number < MaxBundles
  /\ cameras # {}
  /\ bundles' = Append(bundles, cameras)
  /\ Push(cameras, Number + 1)
  /\ parts' = parts \cup OfBundle(cameras)
  /\ owed' = [b \in Paths |-> IF b \in OfBundle(cameras) THEN Readers(b[2]) ELSE owed[b]]
  /\ UNCHANGED <<filter, client, conn, gauge, pend, failed, sending>>

-----------------------------------------------------------------------------
(* The inference workers.                                                  *)

\* The results of a batch are delivered together; some of them raise an alert.
Infer(c) ==
  /\ OfWorker(c) \cap (parts \cup sending) = {}
  /\ \E payloads \in SUBSET Payloads \ {{}} : \E alerts \in SUBSET payloads :
       /\ parts' = parts \cup Results(c, payloads) \cup Alerts(c, alerts)
       /\ owed' = [b \in Paths |-> IF b \in Results(c, payloads) THEN Readers(c) ELSE owed[b]]
  /\ UNCHANGED <<filter, client, conn, gauge, pend, failed, sending, pcvars, bundles>>

\* The alert is broadcast after its result.
Alert(c, k) ==
  LET path == <<"inference", c, k>>
  IN /\ <<"alert", c, k>> \in parts
     /\ path \notin parts
     /\ parts' = parts \ {<<"alert", c, k>>}
     /\ Broadcast(path, Readers(c))
     /\ UNCHANGED <<pcvars, bundles>>

\* Closing a worker cancels its task, wherever it is.
CloseWorker(c) ==
  /\ OfWorker(c) \cap (parts \cup sending) # {}
  /\ parts' = parts \ OfWorker(c)
  /\ Abandon(Results(c, Payloads))
  /\ UNCHANGED <<pcvars, bundles>>

Begin(b) ==
  /\ b \in parts
  /\ parts' = parts \ {b}
  /\ Broadcast(b, owed[b])
  /\ UNCHANGED <<pcvars, bundles>>

-----------------------------------------------------------------------------
(* The consumer.                                                           *)

Reading == \A c \in Cameras : <<"consumer", c, None>> \notin sending

\* It broadcasts a message before it reads the next one.
Consume(c) ==
  /\ Reading
  /\ Broadcast(<<"consumer", c, None>>, Readers(c))
  /\ UNCHANGED <<pcvars, rest>>

-----------------------------------------------------------------------------

Room ==
  Cardinality({s \in Sockets : client[s] # "away"} \cup {p \in Peers : offer[p] # "none"})
    < MaxClients

Delivery ==
  \/ \E cameras \in SUBSET Viewable : Dispatch(cameras)
  \/ \E c \in Workers : Infer(c) \/ CloseWorker(c) \/ \E k \in Payloads : Alert(c, k)
  \/ \E c \in Cameras : Consume(c)
  \/ \E b \in Paths : Begin(b) \/ (Sending(b) /\ UNCHANGED <<pcvars, rest>>)

Next ==
  \/ Delivery
  \/ \E s \in Sockets :
       ((Connect(s) /\ Room) \/ Clients(s) \/ Disconnect(s)) /\ UNCHANGED <<pcvars, rest>>
  \/ \E p \in Peers :
       ((Offer(p) /\ Room) \/ Viewers(p) \/ Handling(p)) /\ UNCHANGED <<wsvars, rest>>

Spec == Init /\ [][Next]_vars

\* The event loop runs the routes and callbacks that are ready.
FairSpec ==
  /\ Spec
  /\ \A s \in Sockets : WF_vars(Disconnect(s) /\ UNCHANGED <<pcvars, rest>>)
  /\ \A p \in Peers : WF_vars(Handling(p) /\ UNCHANGED <<wsvars, rest>>)

-----------------------------------------------------------------------------
(* Properties.                                                             *)

TypeOK ==
  /\ filter \in [Sockets -> Cameras \cup {None}]
  /\ client \in [Sockets -> {"away", "steady", "slow", "back", "gone", "closed"}]
  /\ conn \subseteq Sockets /\ sending \subseteq Paths
  /\ gauge \in 0 .. Cardinality(Sockets)
  /\ pend \in [Paths -> SUBSET Sockets] /\ failed \in [Paths -> SUBSET Sockets]
  /\ owed \in [Paths -> SUBSET Sockets]
  /\ watch \in [Peers -> Viewable]
  /\ offer \in [Peers -> {"none", "listing", "answering", "answered", "failed"}]
  /\ state \in [Peers -> {"none", "new", "connected"} \cup Over]
  /\ changed \subseteq Peers /\ closing \subseteq Peers
  /\ pcs \subseteq Peers /\ tracks \subseteq Peers
  /\ latest \in [Peers -> Nat] /\ cached \in [Viewable -> Nat]
  /\ bundles \in Seq(SUBSET Viewable) /\ Number <= MaxBundles
  /\ parts \subseteq OfBundle(Viewable) \cup UNION {OfWorker(c) : c \in Workers}

MaxOf(S) == IF S = {} THEN 0 ELSE CHOOSE n \in S : \A m \in S : m <= n

\* A client that has always read stays registered until it leaves, and has got every
\* message that was handed out for its camera by the time the task is done with it, unless
\* the worker that sends it is closed meanwhile; no client gets one of another camera.
\* The slow clients, the other broadcasts and the cancelled tasks make no difference.  (A
\* client that was slow once may be forgotten: ReadersRegistered.)  (websocket_manager.py:63,
\* 85, publisher.py:355, updates.py:65, orchestrator.py:692.)
NothingMissed ==
  /\ \A s \in Sockets : client[s] = "steady" => s \in conn
  /\ \A b \in Paths : b \notin parts \cup sending => owed[b] = {}
  /\ \A b \in Paths : \A s \in pend[b] : filter[s] \in {None, b[2]}

\* A viewer is shown the last frame of its camera, black if there is none, however late it
\* joins (registry.py:51, 86).
LastFrameShown ==
  \A p \in tracks : Shown(p) = MaxOf({n \in 1 .. Number : watch[p] \in bundles[n]})

\* No client is counted out twice, though many broadcasts and its route may all remove it:
\* the gauge never falls below the registered clients (websocket_manager.py:38, 87).  How
\* far it may rise above them: GaugeIsConnections.
GaugeNeverUndercounts == gauge >= Cardinality(conn)

\* "Current number of open websocket subscriptions." (metrics.py 249-251)
GaugeIsConnections == gauge = Cardinality(conn)

\* "Remove a websocket connection when it closes or becomes stale." (websocket_manager.py
\* 34): a client that reads is registered.
ReadersRegistered == \A s \in Sockets : client[s] \in {"steady", "back"} => s \in conn

\* Nothing is left open by whoever was to clean up: a connection that is open is
\* registered or about to be closed, one that has ended is registered only while its
\* callback is due, a track is registered exactly as long as its connection, and a
\* socket that is registered has a route that will forget it (webrtc_routes.py:52, 120,
\* 153, stream_routes.py:97).
NothingLeaked ==
  /\ \A p \in Peers : state[p] \in {"none", "closed"} \/ p \in pcs \cup closing
  /\ \A p \in pcs : state[p] \in Over => p \in changed
  /\ tracks = pcs
  /\ \A s \in conn : client[s] \notin {"away", "closed"}

\* A client that has left is forgotten, also if no broadcast meets it; a peer connection
\* that has ended is closed and forgotten with its track, whichever of its callbacks and
\* its offer's error path come first (stream_routes.py:101, webrtc_routes.py:120, 153).
GoneForgotten ==
  /\ \A s \in Sockets : client[s] = "gone" ~> s \notin conn
  /\ \A p \in Peers :
       state[p] \in Over \/ offer[p] = "failed" ~>
         p \notin pcs \cup tracks /\ state[p] \in {"none", "closed"}

\* "Global store - keeps every RTCPeerConnection strongly referenced until it is
\* explicitly closed." (webrtc_routes.py 26-27)
ReferencedUntilClosed == \A p \in Peers : state[p] \notin {"none", "closed"} => p \in pcs
=============================================================================
