----------------------------- MODULE WebSockets -----------------------------
(***************************************************************************)
(* The WebSocket clients: the route that serves one client and the manager *)
(* that broadcasts to all of them (backend/src/routes/stream_routes.py,    *)
(* services/presentation/websocket_manager.py).                            *)
(*                                                                         *)
(* The manager's lock is held only where nothing is awaited, so a section  *)
(* under it is one step.  Many tasks broadcast at the same time: the       *)
(* tracks and the frame of every camera of a bundle, the results of every  *)
(* inference worker, and the consumer of the Kafka topics.  Each is a path *)
(* here, which broadcasts one message at a time.                           *)
(***************************************************************************)
EXTENDS FiniteSets, Integers, Sequences

CONSTANTS
  Sockets,  (* A client that comes back has another socket.                *)
  Cameras,
  Payloads, (* The results that a worker delivers together.                *)
  MaxSending, (* Bound of the model: broadcasts under way at once.         *)
  None

ASSUME SocketsAssumption == IsFiniteSet(Sockets) /\ None \notin Cameras

VARIABLES
  filter,   (* The camera a client asks for, or None for all.              *)
  client,   (* "away"; "steady", which has always read; "slow"; "back",
               which reads again; "gone"; "closed" by its route.           *)
  conn,     (* _connections                                                *)
  gauge,    (* The connections counted in the metrics.                     *)
  pend,     (* The sockets a broadcast still sends to ...                  *)
  failed,   (* ... and those it could not send to.                         *)
  sending,  (* The paths with a broadcast under way.                       *)
  owed      (* The clients that were registered when the message of a path
               was handed out, have always read, and have not got it yet.  *)

wsvars == <<filter, client, conn, gauge, pend, failed, sending, owed>>

\* Each is named by its task, its camera, and which result of a worker it is.
Paths ==
  ({"tracks", "frame", "consumer"} \X Cameras \X {None})
    \cup ({"inference"} \X Cameras \X Payloads)

Matches(s, c) == filter[s] \in {None, c}
Counted(S) == {s \in S : filter[s] # None}

\* The clients that a message about camera c is for, if they go on reading.
Readers(c) == {s \in conn : client[s] = "steady" /\ Matches(s, c)}

WebSocketsInit ==
  /\ filter = [s \in Sockets |-> None]
  /\ client = [s \in Sockets |-> "away"]
  /\ conn = {}
  /\ gauge = 0
  /\ pend = [b \in Paths |-> {}]
  /\ failed = [b \in Paths |-> {}]
  /\ sending = {}
  /\ owed = [b \in Paths |-> {}]

-----------------------------------------------------------------------------
(* The clients and their routes.                                           *)

Connect(s) ==
  /\ client[s] = "away"
  /\ client' = [client EXCEPT ![s] = "steady"]
  /\ \E c \in Cameras \cup {None} : filter' = [filter EXCEPT ![s] = c]
  /\ conn' = conn \cup {s}
  /\ gauge' = gauge + 1
  /\ UNCHANGED <<pend, failed, sending, owed>>

\* A client reads so slowly that a send takes two seconds, reads again, or leaves.
ClientTurns(s, from, to) ==
  /\ client[s] \in from
  /\ client' = [client EXCEPT ![s] = to]
  /\ owed' = [b \in Paths |-> owed[b] \ {s}]
  /\ UNCHANGED <<filter, conn, gauge, pend, failed, sending>>

Slows(s) == ClientTurns(s, {"steady", "back"}, "slow")
Recovers(s) == ClientTurns(s, {"slow"}, "back")
Leaves(s) == ClientTurns(s, {"steady", "slow", "back"}, "gone")

\* The route receives the end of the connection.  pop(...) is not None tells apart a
\* socket that is still registered, unless its camera_id is None.
Disconnect(s) ==
  /\ client[s] = "gone"
  /\ client' = [client EXCEPT ![s] = "closed"]
  /\ conn' = conn \ {s}
  /\ gauge' = gauge - Cardinality(Counted(conn \cap {s}))
  /\ UNCHANGED <<filter, pend, failed, sending, owed>>

-----------------------------------------------------------------------------
(* broadcast.                                                              *)

\* Fault: a client that asks for no camera is passed over.
BroadcastExact(b, due) ==
  LET targets == {s \in conn : filter[s] = b[2]}
  IN /\ b \notin sending /\ Cardinality(sending) < MaxSending
     /\ pend' = [pend EXCEPT ![b] = targets]
     /\ sending' = IF targets = {} THEN sending ELSE sending \cup {b}
     /\ owed' = [owed EXCEPT ![b] = due]
     /\ UNCHANGED <<filter, client, conn, gauge, failed>>

\* The message of a path, due to the given clients, goes to the matching sockets of the
\* moment; without any the call returns.
Broadcast(b, due) ==
  LET targets == {s \in conn : Matches(s, b[2])}
  IN /\ b \notin sending /\ Cardinality(sending) < MaxSending
     /\ pend' = [pend EXCEPT ![b] = targets]
     /\ sending' = IF targets = {} THEN sending ELSE sending \cup {b}
     /\ owed' = [owed EXCEPT ![b] = due]
     /\ UNCHANGED <<filter, client, conn, gauge, failed>>

Sent(b, s) ==
  /\ s \in pend[b] /\ client[s] \in {"steady", "back"}
  /\ pend' = [pend EXCEPT ![b] = @ \ {s}]
  /\ owed' = [owed EXCEPT ![b] = @ \ {s}]
  /\ UNCHANGED <<filter, client, conn, gauge, failed, sending>>

\* An error of the socket, or the two seconds have passed.
SendFails(b, s) ==
  /\ s \in pend[b] /\ client[s] \in {"slow", "gone", "closed"}
  /\ pend' = [pend EXCEPT ![b] = @ \ {s}]
  /\ failed' = [failed EXCEPT ![b] = @ \cup {s}]
  /\ UNCHANGED <<filter, client, conn, gauge, sending, owed>>

\* Fault: an eviction is counted though the socket is not registered any more.
EvictUnchecked(b) ==
  /\ b \in sending /\ pend[b] = {}
  /\ conn' = conn \ failed[b]
  /\ gauge' = gauge - Cardinality(Counted(failed[b]))
  /\ failed' = [failed EXCEPT ![b] = {}]
  /\ sending' = sending \ {b}
  /\ UNCHANGED <<filter, client, pend, owed>>

\* The sockets that failed are forgotten, not closed; another path or their route may
\* have forgotten them before.
Evict(b) ==
  /\ b \in sending /\ pend[b] = {}
  /\ conn' = conn \ failed[b]
  /\ gauge' = gauge - Cardinality(Counted(conn \cap failed[b]))
  /\ failed' = [failed EXCEPT ![b] = {}]
  /\ sending' = sending \ {b}
  /\ UNCHANGED <<filter, client, pend, owed>>

\* The tasks that broadcast are cancelled.
Abandon(paths) ==
  LET without(f) == [b \in Paths |-> IF b \in paths THEN {} ELSE f[b]]
  IN /\ pend' = without(pend) /\ failed' = without(failed) /\ owed' = without(owed)
     /\ sending' = sending \ paths
     /\ UNCHANGED <<filter, client, conn, gauge>>

Clients(s) == Slows(s) \/ Recovers(s) \/ Leaves(s)
Sending(b) == Evict(b) \/ \E s \in Sockets : Sent(b, s) \/ SendFails(b, s)
=============================================================================
