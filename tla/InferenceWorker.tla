-------------------------- MODULE InferenceWorker --------------------------
(***************************************************************************)
(* The inference worker of one camera: the consume loop of its             *)
(* InferenceOrchestrator, the Triton client it owns, the delivery of       *)
(* results to three sinks, and the overlay cache its results are drawn     *)
(* from, up to the removal of the camera (backend/src:                     *)
(* services/inference/orchestrator.py, triton_client.py, batch_builder.py, *)
(* decision_engine.py; opencv_pipeline/output/publisher.py, runtime.py).   *)
(*                                                                         *)
(* The loop handles one batch at a time.  An action extends from one await *)
(* that suspends to the next.  A score is low or high: smoothing yields a  *)
(* level between the raw score and the previous one.  The batch that waits *)
(* is the subject of IngressScheduler; here it is one of the tracks.       *)
(* The health flags are left out.                                          *)
(***************************************************************************)
EXTENDS Naturals, Sequences, FiniteSets

CONSTANTS
  Tracks,
  Interval,    (* reconnect_interval_seconds, in ticks.                    *)
  MaxScores,   (* Bound of the model: scores in an answer, one per sample. *)
  MaxBatches,  (* Bound of the model: results that are recorded in sent.   *)
  Faults,      (* What else may fail: "build", "parse", "sink", "timeout". *)
  None

ASSUME BoundsAssumption == Interval \in Nat \ {0} /\ MaxScores \in Nat \ {0} /\ MaxBatches \in Nat
ASSUME FaultsAssumption == Faults \subseteq {"build", "parse", "sink", "timeout"}

VARIABLES
  up,        (* Triton is live.                                            *)
  client,    (* The client holds a channel (_client).                      *)
  channels,  (* gRPC channels that are open.                               *)
  since,     (* Ticks since _last_connect_attempt_at, up to Interval.      *)
  waiting,   (* Tracks with a batch in the queue, oldest first.            *)
  pc,        (* Where the consume loop is suspended.                       *)
  track,     (* The track whose batch is being processed.                  *)
  number,    (* Batches with a result so far, up to MaxBatches.            *)
  smoothed,  (* _ema_scores, as the level they stand for.                  *)
  due,       (* Deliveries of the current result that have not ended.      *)
  sent,      (* What each sink has received, in order.                     *)
  reported,  (* The deliveries that were reported as failed.               *)
  cache,     (* Tracks with a record in InferenceOverlayCache.             *)
  camera     (* Where the removal of the camera is.                        *)

triton == <<up, client, channels, since>>
results == <<number, smoothed, due, sent, reported>>
vars == <<triton, waiting, pc, track, results, cache, camera>>

Levels == {"normal", "alert"}
Sinks == {"websocket", "kafka", "persistence"}

\* A delivery: the result, or on the WebSocket the alert that follows it.
Delivery == [sink : Sinks, kind : {"result", "alert"}, batch : 1 .. MaxBatches,
             part : 1 .. MaxScores, level : Levels]

Init ==
  /\ up \in BOOLEAN
  /\ client = up
  /\ channels = IF up THEN 1 ELSE 0
  /\ since = 0
  /\ waiting = <<>>
  /\ pc = "get"
  /\ track = None
  /\ number = 0
  /\ smoothed = [t \in Tracks |-> None]
  /\ due = {}
  /\ sent = [s \in Sinks |-> <<>>]
  /\ reported = {}
  /\ cache = {}
  /\ camera = "active"

Channel(open) == IF open THEN 1 ELSE 0

\* The task goes on until it is cancelled; then its next step is CancelledError.
Running == camera \in {"active", "clearing"}

-----------------------------------------------------------------------------
(* Connection.                                                             *)

\* The batch is given up: the loop takes the next one.
GiveUp == pc' = "get" /\ track' = None

\* The tensors are built without an await, and sent.
Build(t) ==
  \/ pc' = "inferring" /\ track' = t
  \/ "build" \in Faults /\ GiveUp

\* Fault: an attempt that is refused counts as an attempt.
EnsureConnectedRestarts(t) ==
  IF client THEN Build(t) /\ UNCHANGED <<channels, since>>
  ELSE IF since < Interval THEN GiveUp /\ since' = 0 /\ UNCHANGED channels
  ELSE pc' = "connecting" /\ track' = t /\ channels' = channels + 1 /\ since' = 0

\* ensure_connected: within the interval after an attempt there is no other.
EnsureConnected(t) ==
  IF client THEN Build(t) /\ UNCHANGED <<channels, since>>
  ELSE IF since < Interval THEN GiveUp /\ UNCHANGED <<channels, since>>
  ELSE pc' = "connecting" /\ track' = t /\ channels' = channels + 1 /\ since' = 0

Get ==
  /\ Running
  /\ pc = "get"
  /\ waiting # <<>>
  /\ waiting' = Tail(waiting)
  /\ EnsureConnected(Head(waiting))
  /\ UNCHANGED <<up, client, results, cache, camera>>

\* is_server_live answers.
Connected ==
  /\ Running
  /\ pc = "connecting"
  /\ up
  /\ client' = TRUE
  /\ Build(track)
  /\ UNCHANGED <<up, channels, since, waiting, results, cache, camera>>

\* ... or does not: the channel is closed.
ConnectFails ==
  /\ Running
  /\ pc = "connecting"
  /\ ~up
  /\ channels' = channels - 1
  /\ GiveUp
  /\ UNCHANGED <<up, client, since, waiting, results, cache, camera>>

\* Fault: the client is dropped without closing its channel.
InferFailsUnclosed ==
  /\ Running
  /\ pc = "inferring"
  /\ ~up
  /\ client' = FALSE
  /\ GiveUp
  /\ UNCHANGED <<up, channels, since, waiting, results, cache, camera>>

\* A connection error: the client is dropped, then its channel closed.
InferFails ==
  /\ Running
  /\ pc = "inferring"
  /\ ~up
  /\ client' = FALSE
  /\ pc' = "resetting"
  /\ UNCHANGED <<up, channels, since, waiting, track, results, cache, camera>>

Reset ==
  /\ Running
  /\ pc = "resetting"
  /\ channels' = channels - 1
  /\ GiveUp
  /\ UNCHANGED <<up, client, since, waiting, results, cache, camera>>

\* Any other error keeps the client, as do outputs that cannot be parsed.
InferErrors ==
  /\ Running
  /\ pc = "inferring"
  /\ "timeout" \in Faults \/ ("parse" \in Faults /\ up)
  /\ GiveUp
  /\ UNCHANGED <<triton, waiting, results, cache, camera>>

-----------------------------------------------------------------------------
(* Results.                                                                *)

\* _score_attributions: one score, for the last sample of the batch, or one for each
\* sample; a missing output counts as the score 0.
Answers == UNION {[1 .. scores -> Levels] : scores \in 1 .. MaxScores}

\* A convex combination of the raw score and the previous one.
Smooth(previous, raw) == IF previous \in {None, raw} THEN {raw} ELSE Levels

\* The levels of the scores of an answer, smoothed one after the other.
Classified(previous, raw) ==
  {levels \in [DOMAIN raw -> Levels] :
     \A i \in DOMAIN raw :
       levels[i] \in Smooth(IF i = 1 THEN previous ELSE levels[i - 1], raw[i])}

\* Fault: the alert on the WebSocket is started along with the result.
DueAtOnce(n, levels) ==
  {d \in Delivery :
     /\ d.kind = "alert" => d.sink = "websocket" /\ d.level = "alert"
     /\ d.batch = n
     /\ d.part \in DOMAIN levels /\ d.level = levels[d.part]
     /\ d.sink = "persistence" => d.level = "alert"}

\* What _deliver_payload starts for the results of batch n.  The alert on the
\* WebSocket is started by the broadcast of the result.
Due(n, levels) ==
  {d \in Delivery :
     /\ d.kind = "result" /\ d.batch = n
     /\ d.part \in DOMAIN levels /\ d.level = levels[d.part]
     /\ d.sink = "persistence" => d.level = "alert"}

\* The answer: scores are smoothed and classified, the overlay cache is told, and
\* the deliveries start.
Infer ==
  /\ Running
  /\ pc = "inferring"
  /\ up
  /\ number' = IF number < MaxBatches THEN number + 1 ELSE number
  /\ \E raw \in Answers : \E levels \in Classified(smoothed[track], raw) :
       /\ smoothed' = [smoothed EXCEPT ![track] = levels[Len(levels)]]
       /\ due' = IF number < MaxBatches THEN Due(number + 1, levels) ELSE {}
  /\ cache' = cache \cup {track}
  /\ pc' = "delivering"
  /\ UNCHANGED <<triton, waiting, track, sent, reported, camera>>

\* Is d the broadcast of a result that is an alert?
Alerts(d) == d.sink = "websocket" /\ d.kind = "result" /\ d.level = "alert"

Deliver(d) ==
  /\ Running
  /\ pc = "delivering"
  /\ d \in due
  /\ sent' = [sent EXCEPT ![d.sink] = Append(@, d)]
  /\ due' = (due \ {d}) \cup (IF Alerts(d) THEN {[d EXCEPT !.kind = "alert"]} ELSE {})
  /\ UNCHANGED <<triton, waiting, pc, track, number, smoothed, reported, cache, camera>>

\* Fault: the first failure abandons the other deliveries.
DeliveryFailsAll(d) ==
  /\ Running
  /\ "sink" \in Faults
  /\ pc = "delivering"
  /\ d \in due
  /\ reported' = reported \cup {d}
  /\ due' = {}
  /\ UNCHANGED <<triton, waiting, pc, track, number, smoothed, sent, cache, camera>>

\* gather(..., return_exceptions=True): a failure is reported, the others go on.
\* A failing broadcast of the result starts no alert.
DeliveryFails(d) ==
  /\ Running
  /\ "sink" \in Faults
  /\ pc = "delivering"
  /\ d \in due
  /\ reported' = reported \cup {d}
  /\ due' = due \ {d}
  /\ UNCHANGED <<triton, waiting, pc, track, number, smoothed, sent, cache, camera>>

Complete ==
  /\ Running
  /\ pc = "delivering"
  /\ due = {}
  /\ pc' = "get"
  /\ track' = None
  /\ UNCHANGED <<triton, waiting, results, cache, camera>>

-----------------------------------------------------------------------------
(* The camera's frames, its removal, and the world.                        *)

\* A frame of the camera: a batch of a track is ready, the latest per track.
Enqueue(t) ==
  /\ camera = "active"
  /\ \A i \in DOMAIN waiting : waiting[i] # t
  /\ waiting' = Append(waiting, t)
  /\ UNCHANGED <<triton, pc, track, results, cache, camera>>

\* annotate keeps the records of the tracks on the frame.
Annotate(visible) ==
  /\ camera = "active"
  /\ cache' = cache \cap visible
  /\ cache' # cache
  /\ UNCHANGED <<triton, waiting, pc, track, results, camera>>

\* _remove_camera clears the cache and publishes the expired identities, an await;
\* then the worker is closed: its task is cancelled, and the removal waits for it.
ClearCamera ==
  /\ camera = "active"
  /\ camera' = "clearing"
  /\ cache' = {}
  /\ UNCHANGED <<triton, waiting, pc, track, results>>

CancelTask ==
  /\ camera = "clearing"
  /\ camera' = "cancelling"
  /\ UNCHANGED <<triton, waiting, pc, track, results, cache>>

\* Whatever the loop is suspended on raises CancelledError, which only the loop
\* catches: deliveries are abandoned, a channel being probed is left as it is.
Cancelled ==
  /\ camera = "cancelling"
  /\ pc # "ended"
  /\ pc' = "ended"
  /\ track' = None
  /\ due' = {}
  /\ UNCHANGED <<triton, waiting, number, smoothed, sent, reported, cache, camera>>

CloseTriton ==
  /\ camera = "cancelling"
  /\ pc = "ended"
  /\ channels' = channels - Channel(client)
  /\ client' = FALSE
  /\ camera' = "removed"
  /\ UNCHANGED <<up, since, waiting, pc, track, results, cache>>

Toggle == up' = ~up /\ UNCHANGED <<client, channels, since, waiting, pc, track, results,
                                   cache, camera>>

Tick ==
  /\ since < Interval
  /\ since' = since + 1
  /\ UNCHANGED <<up, client, channels, waiting, pc, track, results, cache, camera>>

Loop ==
  \/ Get \/ Connected \/ ConnectFails \/ InferFails \/ Reset \/ InferErrors \/ Infer
  \/ Complete
  \/ \E d \in Delivery : Deliver(d) \/ DeliveryFails(d)

Removal == ClearCamera \/ CancelTask \/ Cancelled \/ CloseTriton

Next ==
  \/ Loop \/ Removal \/ Toggle \/ Tick
  \/ \E t \in Tracks : Enqueue(t)
  \/ \E visible \in SUBSET Tracks : Annotate(visible)

Spec == Init /\ [][Next]_vars

\* Awaited calls return, time passes, and the camera keeps delivering batches.
FairSpec ==
  Spec /\ WF_vars(Loop) /\ WF_vars(Tick) /\ \A t \in Tracks : WF_vars(Enqueue(t))

-----------------------------------------------------------------------------
(* Properties.                                                             *)

TypeOK ==
  /\ up \in BOOLEAN /\ client \in BOOLEAN
  /\ channels \in 0 .. 1
  /\ since \in 0 .. Interval
  /\ waiting \in Seq(Tracks) /\ \A i, j \in DOMAIN waiting : waiting[i] = waiting[j] => i = j
  /\ pc \in {"get", "connecting", "inferring", "resetting", "delivering", "ended"}
  /\ track \in Tracks \cup {None}
  /\ number \in 0 .. MaxBatches
  /\ smoothed \in [Tracks -> Levels \cup {None}]
  /\ due \subseteq Delivery
  /\ sent \in [Sinks -> Seq(Delivery)]
  /\ reported \subseteq Delivery
  /\ cache \subseteq Tracks
  /\ camera \in {"active", "clearing", "cancelling", "removed"}

\* While the worker runs every open channel has an owner that will close it: the
\* client, the attempt under way, or the reset under way (triton_client.py 76-124,
\* 236-253).
ChannelsOwned ==
  pc # "ended" => channels = Channel(client) + Channel(pc \in {"connecting", "resetting"})

\* close "Cancel the consume loop, wait for it, and close Triton resources"
\* (orchestrator.py:148): no channel remains.
CloseReleasesTriton == camera = "removed" => channels = 0

\* "Entries are evicted when a camera is removed" (README.md:315), and stay so.
RemovedCameraHasNoEntries == camera = "removed" => cache = {}

\* Every sink receives the results in the order of the batches, and the alert of a
\* result after the result (orchestrator.py 474-482, 691-714).
DeliveredInOrder ==
  \A s \in Sinks : \A i, j \in DOMAIN sent[s] :
    i < j => \/ sent[s][i].batch < sent[s][j].batch
             \/ sent[s][i].batch = sent[s][j].batch /\ sent[s][i].part # sent[s][j].part
             \/ sent[s][j] = [sent[s][i] EXCEPT !.kind = "alert"]

\* A failing sink does not keep the others from a result: of a batch the loop is
\* done with, every delivery of a score has been made or reported once one of them
\* has, for an alert the one to the database and the second broadcast included
\* (orchestrator.py 654-680).
SinksIndependent ==
  LET made == UNION {{sent[s][i] : i \in DOMAIN sent[s]} : s \in Sinks}
      ended == made \cup reported
  IN \A d \in ended :
       d.kind = "result" /\ (d.batch < number \/ pc = "get") =>
         /\ \A s \in {"websocket", "kafka"} : [d EXCEPT !.sink = s] \in ended
         /\ d.level = "alert" => [d EXCEPT !.sink = "persistence"] \in ended
         /\ d \in made /\ Alerts(d) => [d EXCEPT !.kind = "alert"] \in ended

\* If Triton stays up, the worker comes to have a connection, however many batches
\* arrive, and are dropped, while the reconnect interval runs (triton_client.py 55-74).
ConnectionResumes ==
  <>[](up /\ camera = "active") => []<>client
=============================================================================
