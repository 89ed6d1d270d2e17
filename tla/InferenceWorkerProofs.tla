----------------------- MODULE InferenceWorkerProofs -----------------------
(***************************************************************************)
(* Proofs about an inference worker, for any number of tracks, any number  *)
(* of batches and scores, any reconnect interval, and every choice of what *)
(* may fail.                                                               *)
(***************************************************************************)
EXTENDS InferenceWorker, SequenceTheorems, TLAPS

USE BoundsAssumption

-----------------------------------------------------------------------------
(* Types.                                                                  *)

\* The track of a batch is known while it is processed, and nothing is due otherwise.
TrackInv ==
  /\ pc \in {"connecting", "inferring", "delivering"} => track \in Tracks
  /\ pc # "delivering" => due = {}

LEMMA WaitingType ==
  ASSUME TypeOK, waiting # <<>>
  PROVE  /\ Head(waiting) \in Tracks /\ Tail(waiting) \in Seq(Tracks)
         /\ \A i, j \in DOMAIN Tail(waiting) : Tail(waiting)[i] = Tail(waiting)[j] => i = j
<1>1. /\ waiting \in Seq(Tracks)
      /\ \A i, j \in DOMAIN waiting : waiting[i] = waiting[j] => i = j
  BY DEF TypeOK
<1>2. /\ Head(waiting) \in Tracks /\ Tail(waiting) \in Seq(Tracks)
      /\ Len(Tail(waiting)) = Len(waiting) - 1
      /\ \A i \in 1 .. Len(waiting) - 1 : Tail(waiting)[i] = waiting[i + 1]
  BY <1>1, HeadTailProperties
<1>3. DOMAIN waiting = 1 .. Len(waiting) /\ DOMAIN Tail(waiting) = 1 .. Len(waiting) - 1
      /\ Len(waiting) \in Nat
  BY <1>1, <1>2, LenProperties
<1>4. ASSUME NEW i \in DOMAIN Tail(waiting), NEW j \in DOMAIN Tail(waiting),
             Tail(waiting)[i] = Tail(waiting)[j]
      PROVE  i = j
  <2>1. i + 1 \in DOMAIN waiting /\ j + 1 \in DOMAIN waiting /\ i \in Int /\ j \in Int
    BY <1>3, <1>4
  <2>2. waiting[i + 1] = waiting[j + 1]
    BY <1>2, <1>3, <1>4
  <2>3. i + 1 = j + 1
    BY <1>1, <2>1, <2>2
  <2> QED BY <2>1, <2>3
<1> QED BY <1>2, <1>4

LEMMA EnqueueType ==
  ASSUME TypeOK, NEW t \in Tracks, \A i \in DOMAIN waiting : waiting[i] # t
  PROVE  /\ Append(waiting, t) \in Seq(Tracks)
         /\ \A i, j \in DOMAIN Append(waiting, t) :
              Append(waiting, t)[i] = Append(waiting, t)[j] => i = j
<1>1. waiting \in Seq(Tracks) /\ \A i, j \in DOMAIN waiting : waiting[i] = waiting[j] => i = j
  BY DEF TypeOK
<1> QED BY <1>1, AppendProperties, LenProperties

\* The connection: every open channel has an owner while the worker runs.
ConnectionInv ==
  /\ channels \in 0 .. 1 /\ channels >= Channel(client)
  /\ pc # "ended" => channels = Channel(client) + Channel(pc \in {"connecting", "resetting"})
  /\ pc \in {"connecting", "resetting"} => ~client
  /\ pc = "inferring" => client

LEMMA ChannelType == \A b \in BOOLEAN : Channel(b) \in {0, 1} /\ Channel(TRUE) = 1 /\ Channel(FALSE) = 0
BY DEF Channel

LEMMA ConnectionStep ==
  ASSUME ConnectionInv, client \in BOOLEAN, [Next]_vars
  PROVE  ConnectionInv'
<1> USE DEF Channel
<1>1. CASE Get
  <2>1. pc = "get" /\ client' = client
        /\ \/ client /\ channels' = channels /\ pc' \in {"get", "inferring"}
           \/ ~client /\ channels' = channels /\ pc' = "get"
           \/ ~client /\ channels' = channels + 1 /\ pc' = "connecting"
    BY <1>1 DEF Get, EnsureConnected, Build, GiveUp
  <2> QED BY <2>1 DEF ConnectionInv
<1>2. CASE Connected
  <2>1. pc = "connecting" /\ client' = TRUE /\ channels' = channels /\ pc' \in {"get", "inferring"}
    BY <1>2 DEF Connected, Build, GiveUp
  <2> QED BY <2>1 DEF ConnectionInv
<1>3. CASE ConnectFails \/ Reset
  <2>1. pc \in {"connecting", "resetting"} /\ client' = client /\ channels' = channels - 1
        /\ pc' = "get"
    BY <1>3 DEF ConnectFails, Reset, GiveUp
  <2> QED BY <2>1 DEF ConnectionInv
<1>4. CASE InferFails
  <2>1. pc = "inferring" /\ client' = FALSE /\ channels' = channels /\ pc' = "resetting"
    BY <1>4 DEF InferFails
  <2> QED BY <2>1 DEF ConnectionInv
<1>5. CASE InferErrors \/ Infer \/ Complete
  <2>1. pc \in {"inferring", "delivering"} /\ pc' \in {"get", "delivering"}
        /\ UNCHANGED <<client, channels>>
    BY <1>5 DEF InferErrors, Infer, Complete, GiveUp, triton
  <2> QED BY <2>1 DEF ConnectionInv
<1>6. CASE Cancelled
  <2>1. pc # "ended" /\ pc' = "ended" /\ UNCHANGED <<client, channels>>
    BY <1>6 DEF Cancelled, triton
  <2> QED BY <2>1 DEF ConnectionInv
<1>7. CASE CloseTriton
  <2>1. pc = "ended" /\ pc' = pc /\ client' = FALSE /\ channels' = channels - Channel(client)
    BY <1>7 DEF CloseTriton
  <2>2. channels' \in 0 .. 1
    BY <2>1 DEF ConnectionInv
  <2> QED BY <2>1, <2>2 DEF ConnectionInv
<1>8. CASE \/ ClearCamera \/ CancelTask \/ Toggle \/ Tick \/ UNCHANGED vars
           \/ \E d \in Delivery : Deliver(d) \/ DeliveryFails(d)
           \/ \E t \in Tracks : Enqueue(t)
           \/ \E visible \in SUBSET Tracks : Annotate(visible)
  <2>1. UNCHANGED <<pc, client, channels>>
    BY <1>8 DEF ClearCamera, CancelTask, Toggle, Tick, vars, Deliver, DeliveryFails, Enqueue, Annotate,
                triton
  <2> QED BY <2>1 DEF ConnectionInv
<1> QED BY <1>1, <1>2, <1>3, <1>4, <1>5, <1>6, <1>7, <1>8 DEF Next, Loop, Removal

LEMMA InitType == Init => TypeOK /\ TrackInv /\ ConnectionInv
<1> SUFFICES ASSUME Init PROVE TypeOK /\ TrackInv /\ ConnectionInv
  OBVIOUS
<1>1. /\ up \in BOOLEAN /\ client = up /\ channels = (IF up THEN 1 ELSE 0) /\ pc = "get" /\ since = 0
      /\ number = 0 /\ track = None /\ due = {} /\ reported = {} /\ cache = {} /\ camera = "active"
  BY DEF Init
<1>2. waiting \in Seq(Tracks) /\ \A i, j \in DOMAIN waiting : waiting[i] = waiting[j] => i = j
  BY DEF Init
<1>3. smoothed \in [Tracks -> Levels \cup {None}] /\ sent \in [Sinks -> Seq(Delivery)]
  BY DEF Init
<1>4. ConnectionInv
  BY <1>1 DEF ConnectionInv, Channel
<1>5. since \in 0 .. Interval /\ number \in 0 .. MaxBatches /\ channels \in 0 .. 1
  BY <1>1
<1> QED BY <1>1, <1>2, <1>3, <1>4, <1>5 DEF TypeOK, TrackInv

LEMMA InferType ==
  ASSUME TypeOK, TrackInv, ConnectionInv', Infer
  PROVE  TypeOK' /\ TrackInv'
<1>1. /\ pc = "inferring" /\ pc' = "delivering"
      /\ number' = IF number < MaxBatches THEN number + 1 ELSE number
      /\ cache' = cache \cup {track}
      /\ UNCHANGED <<up, client, channels, since, waiting, track, sent, reported, camera>>
  BY DEF Infer, triton
<1>2. PICK raw \in Answers : \E levels \in Classified(smoothed[track], raw) :
        /\ smoothed' = [smoothed EXCEPT ![track] = levels[Len(levels)]]
        /\ due' = IF number < MaxBatches THEN Due(number + 1, levels) ELSE {}
  BY DEF Infer
<1>3. PICK levels \in Classified(smoothed[track], raw) :
        /\ smoothed' = [smoothed EXCEPT ![track] = levels[Len(levels)]]
        /\ due' = IF number < MaxBatches THEN Due(number + 1, levels) ELSE {}
  BY <1>2
<1>4. PICK scores \in 1 .. MaxScores : raw \in [1 .. scores -> Levels]
  BY DEF Answers
<1>5. levels \in [1 .. scores -> Levels]
  BY <1>3, <1>4 DEF Classified
<1>6. Len(levels) = scores /\ levels[Len(levels)] \in Levels
  BY <1>4, <1>5
<1>7. track \in Tracks
  BY <1>1 DEF TrackInv
<1>8. smoothed' \in [Tracks -> Levels \cup {None}]
  BY <1>3, <1>6, <1>7 DEF TypeOK
<1>9. due' \subseteq Delivery
  BY <1>3 DEF Due
<1>10. number' \in 0 .. MaxBatches
  BY <1>1 DEF TypeOK
<1> QED BY <1>1, <1>7, <1>8, <1>9, <1>10 DEF TypeOK, TrackInv

LEMMA DeliveryType ==
  ASSUME TypeOK, TrackInv, NEW d \in Delivery, Deliver(d) \/ DeliveryFails(d)
  PROVE  TypeOK' /\ TrackInv'
<1>1. /\ pc = "delivering" /\ d \in due
      /\ UNCHANGED <<up, client, channels, since, waiting, pc, track, number, smoothed, cache, camera>>
  BY DEF Deliver, DeliveryFails, triton
<1>2. due' \subseteq Delivery
  <2>1. [d EXCEPT !.kind = "alert"] \in Delivery
    BY DEF Delivery
  <2> QED BY <2>1 DEF Deliver, DeliveryFails, TypeOK
<1>3. sent' \in [Sinks -> Seq(Delivery)] /\ reported' \subseteq Delivery
  <2>1. CASE Deliver(d)
    <3>1. d.sink \in Sinks /\ reported' = reported
      BY <2>1 DEF Deliver, Delivery
    <3>2. Append(sent[d.sink], d) \in Seq(Delivery)
      BY <3>1, AppendProperties DEF TypeOK
    <3> QED BY <2>1, <3>1, <3>2 DEF Deliver, TypeOK
  <2>2. CASE DeliveryFails(d)
    BY <2>2 DEF DeliveryFails, TypeOK
  <2> QED BY <2>1, <2>2
<1> QED BY <1>1, <1>2, <1>3 DEF TypeOK, TrackInv

LEMMA NextType ==
  ASSUME TypeOK, TrackInv, ConnectionInv, [Next]_vars
  PROVE  TypeOK' /\ TrackInv' /\ ConnectionInv'
<1>0. ConnectionInv' /\ channels' \in 0 .. 1
  BY ConnectionStep DEF TypeOK, ConnectionInv
<1>1. CASE Get
  <2>1. /\ Head(waiting) \in Tracks /\ Tail(waiting) \in Seq(Tracks)
        /\ \A i, j \in DOMAIN Tail(waiting) : Tail(waiting)[i] = Tail(waiting)[j] => i = j
    BY <1>1, WaitingType DEF Get
  <2>2. /\ waiting' = Tail(waiting) /\ pc = "get" /\ since' \in {since, 0}
        /\ \/ pc' \in {"inferring", "connecting"} /\ track' = Head(waiting)
           \/ pc' = "get" /\ track' = None
        /\ UNCHANGED <<up, client, number, smoothed, due, sent, reported, cache, camera>>
    BY <1>1 DEF Get, EnsureConnected, Build, GiveUp, results
  <2> QED BY <1>0, <2>1, <2>2 DEF TypeOK, TrackInv
<1>2. CASE Connected
  <2>1. /\ pc = "connecting" /\ client' = TRUE
        /\ \/ pc' = "inferring" /\ track' = track
           \/ pc' = "get" /\ track' = None
        /\ UNCHANGED <<up, since, waiting, number, smoothed, due, sent, reported, cache, camera>>
    BY <1>2 DEF Connected, Build, GiveUp, results
  <2> QED BY <1>0, <2>1 DEF TypeOK, TrackInv
<1>3. CASE ConnectFails \/ Reset \/ InferErrors
  <2>1. /\ pc # "delivering" /\ pc' = "get" /\ track' = None
        /\ UNCHANGED <<up, client, since, waiting, number, smoothed, due, sent, reported, cache,
                       camera>>
    BY <1>3 DEF ConnectFails, Reset, InferErrors, GiveUp, results, triton
  <2> QED BY <1>0, <2>1 DEF TypeOK, TrackInv
<1>4. CASE InferFails
  <2>1. /\ pc = "inferring" /\ pc' = "resetting" /\ client' = FALSE
        /\ UNCHANGED <<up, since, waiting, track, number, smoothed, due, sent, reported, cache,
                       camera>>
    BY <1>4 DEF InferFails, results
  <2> QED BY <1>0, <2>1 DEF TypeOK, TrackInv
<1>5. CASE Complete
  <2>1. /\ due = {} /\ pc' = "get" /\ track' = None
        /\ UNCHANGED <<up, client, since, waiting, number, smoothed, due, sent, reported, cache,
                       camera>>
    BY <1>5 DEF Complete, results, triton
  <2> QED BY <1>0, <2>1 DEF TypeOK, TrackInv
<1>6. CASE Cancelled
  <2>1. /\ due' = {} /\ pc' = "ended" /\ track' = None
        /\ UNCHANGED <<up, client, since, waiting, number, smoothed, sent, reported, cache, camera>>
    BY <1>6 DEF Cancelled, triton
  <2> QED BY <1>0, <2>1 DEF TypeOK, TrackInv
<1>7. CASE ClearCamera \/ CancelTask \/ CloseTriton
  <2>1. /\ client' \in BOOLEAN /\ cache' \subseteq Tracks
        /\ camera' \in {"active", "clearing", "cancelling", "removed"}
        /\ UNCHANGED <<up, since, waiting, pc, track, number, smoothed, due, sent, reported>>
    BY <1>7 DEF ClearCamera, CancelTask, CloseTriton, results, triton, TypeOK
  <2> QED BY <1>0, <2>1 DEF TypeOK, TrackInv
<1>8. CASE Toggle \/ Tick \/ UNCHANGED vars
  <2>1. UNCHANGED <<client, waiting, pc, track, number, smoothed, due, sent, reported, cache, camera>>
    BY <1>8 DEF Toggle, Tick, vars, results, triton
  <2>2. up' \in BOOLEAN
    <3>1. up' = ~up \/ up' = up
      BY <1>8 DEF Toggle, Tick, vars, triton
    <3> QED BY <3>1 DEF TypeOK
  <2>3. since' \in 0 .. Interval
    <3>1. since' = since \/ (since < Interval /\ since' = since + 1)
      BY <1>8 DEF Toggle, Tick, vars, triton
    <3>2. since \in 0 .. Interval
      BY DEF TypeOK
    <3> QED BY <3>1, <3>2
  <2> QED BY <1>0, <2>1, <2>2, <2>3 DEF TypeOK, TrackInv
<1>9. ASSUME NEW t \in Tracks, Enqueue(t)
      PROVE  TypeOK' /\ TrackInv'
  <2>1. /\ waiting' = Append(waiting, t) /\ \A i \in DOMAIN waiting : waiting[i] # t
        /\ UNCHANGED <<up, client, since, pc, track, number, smoothed, due, sent, reported, cache,
                       camera>>
    BY <1>9 DEF Enqueue, results, triton
  <2>2. /\ waiting' \in Seq(Tracks)
        /\ \A i, j \in DOMAIN waiting' : waiting'[i] = waiting'[j] => i = j
    BY <2>1, EnqueueType
  <2> QED BY <1>0, <2>1, <2>2 DEF TypeOK, TrackInv
<1>10. ASSUME NEW visible \in SUBSET Tracks, Annotate(visible)
       PROVE  TypeOK' /\ TrackInv'
  <2>1. /\ cache' \subseteq cache
        /\ UNCHANGED <<up, client, since, waiting, pc, track, number, smoothed, due, sent, reported,
                       camera>>
    BY <1>10 DEF Annotate, results, triton
  <2> QED BY <1>0, <2>1 DEF TypeOK, TrackInv
<1> QED
  BY <1>0, <1>1, <1>2, <1>3, <1>4, <1>5, <1>6, <1>7, <1>8, <1>9, <1>10, InferType, DeliveryType
     DEF Next, Loop, Removal

\* Every variable keeps its type, and a batch keeps its track until its results are delivered.
THEOREM TypeCorrect == Spec => [](TypeOK /\ TrackInv /\ ConnectionInv)
<1>1. TypeOK /\ TrackInv /\ ConnectionInv /\ [Next]_vars => (TypeOK /\ TrackInv /\ ConnectionInv)'
  BY NextType
<1> QED BY <1>1, InitType, PTL DEF Spec

\* While the worker runs every channel that is open has one owner that will close it: the
\* client, the attempt under way or the reset under way (triton_client.py 76-124, 236-253).
THEOREM ChannelsAlwaysOwned == Spec => []ChannelsOwned
<1>1. ConnectionInv => ChannelsOwned
  BY DEF ConnectionInv, ChannelsOwned
<1> QED BY <1>1, TypeCorrect, PTL

-----------------------------------------------------------------------------
(* Deliveries.                                                             *)

\* What is due is of the last batch, one delivery of each score to each sink at a time, and
\* nothing of it has been sent, but the result before its alert.
DueInv ==
  /\ \A s \in Sinks : \A i \in DOMAIN sent[s] : sent[s][i].batch <= number /\ sent[s][i].sink = s
  /\ \A d \in reported : d.batch <= number
  /\ \A d \in due : d.batch = number
  /\ \A d, e \in due : d.sink = e.sink /\ d.part = e.part => d = e
  /\ \A d \in due : \A i \in DOMAIN sent[d.sink] :
       \/ sent[d.sink][i].batch # number
       \/ sent[d.sink][i].part # d.part
       \/ d.kind = "alert" /\ d = [sent[d.sink][i] EXCEPT !.kind = "alert"]

\* The steps that deliver nothing; the task that has ended does not come back.
LEMMA OtherSteps ==
  ASSUME [Next]_vars, ~Infer, \A d \in Delivery : ~Deliver(d) /\ ~DeliveryFails(d)
  PROVE  /\ UNCHANGED <<number, sent, reported>>
         /\ due' \in {{}, due}
         /\ pc' # "ended" => pc # "ended" /\ due' = due
<1>1. CASE Cancelled
  BY <1>1 DEF Cancelled
<1>2. CASE ~Cancelled
  <2>1. UNCHANGED <<number, sent, reported, due>>
    BY <1>2 DEF Next, Loop, Removal, Get, Connected, ConnectFails, InferFails, Reset, InferErrors,
                Complete, ClearCamera, CancelTask, CloseTriton, Toggle, Tick, Enqueue, Annotate, vars,
                results
  <2>2. pc = "ended" => pc' = "ended"
    BY <1>2 DEF Next, Loop, Removal, Get, Connected, ConnectFails, InferFails, Reset, InferErrors,
                Complete, ClearCamera, CancelTask, CloseTriton, Toggle, Tick, Enqueue, Annotate, vars
  <2> QED BY <2>1, <2>2
<1> QED BY <1>1, <1>2

LEMMA InferDue ==
  ASSUME TypeOK, TrackInv, DueInv, Infer
  PROVE  DueInv'
<1>1. /\ number' = IF number < MaxBatches THEN number + 1 ELSE number
      /\ UNCHANGED <<sent, reported>> /\ number \in Nat
  BY DEF Infer, TypeOK
<1>2. PICK levels : due' = IF number < MaxBatches THEN Due(number + 1, levels) ELSE {}
  BY DEF Infer
<1>3. \A d \in due' : d \in Delivery /\ number < MaxBatches /\ d.kind = "result"
                     /\ d.batch = number + 1 /\ d.level = levels[d.part]
  BY <1>2 DEF Due
<1>4. \A d, e \in due' : d.sink = e.sink /\ d.part = e.part => d = e
  BY <1>3 DEF Delivery
<1>5. ASSUME NEW s \in Sinks, NEW i \in DOMAIN sent[s]
      PROVE  sent[s][i].batch \in Nat /\ sent[s][i].batch <= number /\ sent[s][i].sink = s
  <2>1. sent[s][i] \in Delivery
    BY <1>5, LenProperties DEF TypeOK
  <2> QED BY <2>1, <1>5 DEF Delivery, DueInv
<1>6. \A d \in reported : d.batch <= number /\ d.batch \in Nat
  BY DEF DueInv, TypeOK, Delivery
<1>7. \A d \in due' : d.sink \in Sinks
  BY <1>3 DEF Delivery
<1> QED BY <1>1, <1>3, <1>4, <1>5, <1>6, <1>7 DEF DueInv

LEMMA DeliverDue ==
  ASSUME TypeOK, DueInv, NEW d \in Delivery, Deliver(d)
  PROVE  DueInv'
<1>1. /\ d \in due /\ number' = number /\ reported' = reported
      /\ sent' = [sent EXCEPT ![d.sink] = Append(@, d)]
      /\ due' = (due \ {d}) \cup (IF Alerts(d) THEN {[d EXCEPT !.kind = "alert"]} ELSE {})
  BY DEF Deliver
<1>2. d.sink \in Sinks /\ sent[d.sink] \in Seq(Delivery) /\ d.batch = number /\ number \in Nat
  <2>1. d.sink \in Sinks
    BY DEF Delivery
  <2>2. sent[d.sink] \in Seq(Delivery) /\ number \in Nat
    BY <2>1 DEF TypeOK
  <2>3. d.batch = number
    BY <1>1 DEF DueInv
  <2> QED BY <2>1, <2>2, <2>3
<1>3. /\ sent'[d.sink] = Append(sent[d.sink], d)
      /\ \A s \in Sinks \ {d.sink} : sent'[s] = sent[s]
  BY <1>1, <1>2 DEF TypeOK
<1>4. /\ DOMAIN sent'[d.sink] = DOMAIN sent[d.sink] \cup {Len(sent[d.sink]) + 1}
      /\ sent'[d.sink][Len(sent[d.sink]) + 1] = d
      /\ \A i \in DOMAIN sent[d.sink] : sent'[d.sink][i] = sent[d.sink][i]
  BY <1>2, <1>3, AppendProperties, LenProperties
<1>5. ASSUME NEW s \in Sinks, NEW i \in DOMAIN sent'[s]
      PROVE  sent'[s][i].batch <= number /\ sent'[s][i].sink = s
  <2>1. CASE s # d.sink
    BY <1>3, <1>5, <2>1 DEF DueInv
  <2>2. CASE s = d.sink /\ i = Len(sent[d.sink]) + 1
    BY <1>2, <1>4, <2>2
  <2>3. CASE s = d.sink /\ i \in DOMAIN sent[d.sink]
    BY <1>2, <1>4, <2>3 DEF DueInv
  <2> QED BY <1>4, <1>5, <2>1, <2>2, <2>3
<1>6. ASSUME NEW e \in due'
      PROVE  \/ e \in due /\ e # d
             \/ Alerts(d) /\ e = [d EXCEPT !.kind = "alert"]
  <2> DEFINE alert == [d EXCEPT !.kind = "alert"]
  <2> HIDE DEF alert
  <2>1. CASE Alerts(d)
    <3>1. due' = (due \ {d}) \cup {alert}
      BY <1>1, <2>1 DEF alert
    <3> QED BY <1>6, <2>1, <3>1 DEF alert
  <2>2. CASE ~Alerts(d)
    <3>1. due' = due \ {d}
      BY <1>1, <2>2
    <3> QED BY <1>6, <3>1
  <2> QED BY <2>1, <2>2
<1>7. Alerts(d) => d.kind = "result" /\ [d EXCEPT !.kind = "alert"].sink = d.sink
                   /\ [d EXCEPT !.kind = "alert"].part = d.part
                   /\ [d EXCEPT !.kind = "alert"].batch = d.batch
                   /\ [d EXCEPT !.kind = "alert"].kind = "alert"
  BY DEF Alerts, Delivery
<1>8. \A e \in due' : e.batch = number /\ e.sink \in Sinks
  BY <1>2, <1>6, <1>7 DEF DueInv, TypeOK, Delivery
<1>9. ASSUME NEW e \in due', NEW f \in due', e.sink = f.sink, e.part = f.part
      PROVE  e = f
  <2>1. \A g, h \in due : g.sink = h.sink /\ g.part = h.part => g = h
    BY DEF DueInv
  <2> DEFINE alert == [d EXCEPT !.kind = "alert"]
  <2>2. Alerts(d) => alert.sink = d.sink /\ alert.part = d.part
    BY <1>7
  <2>3. (e \in due /\ e # d) \/ (Alerts(d) /\ e = alert)
    BY <1>6
  <2>4. (f \in due /\ f # d) \/ (Alerts(d) /\ f = alert)
    BY <1>6
  <2> HIDE DEF alert
  <2> QED BY <1>1, <1>9, <2>1, <2>2, <2>3, <2>4
<1>10. ASSUME NEW e \in due', NEW i \in DOMAIN sent'[e.sink]
       PROVE  \/ sent'[e.sink][i].batch # number
              \/ sent'[e.sink][i].part # e.part
              \/ e.kind = "alert" /\ e = [sent'[e.sink][i] EXCEPT !.kind = "alert"]
  <2>1. CASE e \in due /\ e # d
    <3>1. CASE e.sink = d.sink /\ i = Len(sent[d.sink]) + 1
      <4>1. sent'[e.sink][i] = d
        BY <1>4, <3>1
      <4>2. e.part # d.part
        BY <1>1, <2>1, <3>1 DEF DueInv
      <4> QED BY <4>1, <4>2
    <3>2. CASE ~(e.sink = d.sink /\ i = Len(sent[d.sink]) + 1)
      <4>1. i \in DOMAIN sent[e.sink] /\ sent'[e.sink][i] = sent[e.sink][i]
        BY <1>3, <1>4, <1>8, <1>10, <3>2
      <4> QED BY <2>1, <4>1 DEF DueInv
    <3> QED BY <3>1, <3>2
  <2>2. CASE Alerts(d) /\ e = [d EXCEPT !.kind = "alert"]
    <3>1. CASE i = Len(sent[d.sink]) + 1
      BY <1>4, <1>7, <2>2, <3>1
    <3>2. CASE i # Len(sent[d.sink]) + 1
      <4>1. i \in DOMAIN sent[d.sink] /\ sent'[e.sink][i] = sent[d.sink][i]
        BY <1>4, <1>7, <1>10, <2>2, <3>2
      <4>2. sent[d.sink][i].batch # number \/ sent[d.sink][i].part # d.part
        BY <1>1, <1>7, <2>2, <4>1 DEF DueInv
      <4> QED BY <1>7, <2>2, <4>1, <4>2
    <3> QED BY <3>1, <3>2
  <2> QED BY <1>6, <2>1, <2>2
<1>11. \A e \in reported' : e.batch <= number
  BY <1>1 DEF DueInv
<1>12. \A s \in Sinks : \A i \in DOMAIN sent'[s] : sent'[s][i].batch <= number' /\ sent'[s][i].sink = s
  BY <1>1, <1>5
<1>13. \A e \in due' : \A i \in DOMAIN sent'[e.sink] :
         \/ sent'[e.sink][i].batch # number'
         \/ sent'[e.sink][i].part # e.part
         \/ e.kind = "alert" /\ e = [sent'[e.sink][i] EXCEPT !.kind = "alert"]
  BY <1>1, <1>10
<1> HIDE DEF Delivery
<1> QED BY ONLY <1>1, <1>8, <1>9, <1>11, <1>12, <1>13 DEF DueInv

LEMMA NextDue ==
  ASSUME TypeOK, TrackInv, DueInv, [Next]_vars
  PROVE  DueInv'
<1>1. ASSUME NEW d \in Delivery, DeliveryFails(d)
      PROVE  DueInv'
  <2>1. d \in due /\ due' = due \ {d} /\ reported' = reported \cup {d} /\ UNCHANGED <<number, sent>>
    BY <1>1 DEF DeliveryFails
  <2>2. d.batch = number /\ number \in Nat
    BY <2>1 DEF DueInv, TypeOK
  <2> QED BY <2>1, <2>2 DEF DueInv
<1>2. ASSUME ~Infer, \A d \in Delivery : ~Deliver(d) /\ ~DeliveryFails(d)
      PROVE  DueInv'
  BY <1>2, OtherSteps DEF DueInv
<1> QED BY <1>1, <1>2, InferDue, DeliverDue

\* Delivery d may come before delivery e in a sink.
Precedes(d, e) ==
  \/ d.batch < e.batch
  \/ d.batch = e.batch /\ d.part # e.part
  \/ e = [d EXCEPT !.kind = "alert"]

LEMMA OrderOfPairs ==
  DeliveredInOrder <=>
    \A s \in Sinks : \A i, j \in DOMAIN sent[s] : i < j => Precedes(sent[s][i], sent[s][j])
BY DEF DeliveredInOrder, Precedes

LEMMA DeliverInOrder ==
  ASSUME TypeOK, DueInv, DeliveredInOrder, NEW d \in Delivery, Deliver(d)
  PROVE  DeliveredInOrder'
<1>1. /\ d \in due /\ sent' = [sent EXCEPT ![d.sink] = Append(@, d)]
  BY DEF Deliver
<1>2. d.sink \in Sinks /\ sent[d.sink] \in Seq(Delivery) /\ d.batch = number /\ number \in Nat
  <2>1. d.sink \in Sinks
    BY DEF Delivery
  <2>2. sent[d.sink] \in Seq(Delivery) /\ number \in Nat
    BY <2>1 DEF TypeOK
  <2>3. d.batch = number
    BY <1>1 DEF DueInv
  <2> QED BY <2>1, <2>2, <2>3
<1>3. /\ sent'[d.sink] = Append(sent[d.sink], d)
      /\ \A s \in Sinks \ {d.sink} : sent'[s] = sent[s]
  BY <1>1, <1>2 DEF TypeOK
<1>4. /\ DOMAIN sent'[d.sink] = DOMAIN sent[d.sink] \cup {Len(sent[d.sink]) + 1}
      /\ sent'[d.sink][Len(sent[d.sink]) + 1] = d
      /\ \A i \in DOMAIN sent[d.sink] : sent'[d.sink][i] = sent[d.sink][i]
      /\ \A i \in DOMAIN sent[d.sink] : i \in 1 .. Len(sent[d.sink])
      /\ Len(sent[d.sink]) \in Nat
  BY <1>2, <1>3, AppendProperties, LenProperties
<1>5. ASSUME NEW i \in DOMAIN sent[d.sink]
      PROVE  Precedes(sent[d.sink][i], d)
  <2>1. sent[d.sink][i] \in Delivery
    BY <1>2, <1>4
  <2>2. sent[d.sink][i].batch \in Nat /\ sent[d.sink][i].batch <= number
    BY <1>2, <2>1 DEF DueInv, Delivery
  <2>3. \/ sent[d.sink][i].batch # number
        \/ sent[d.sink][i].part # d.part
        \/ d = [sent[d.sink][i] EXCEPT !.kind = "alert"]
    BY <1>1 DEF DueInv
  <2> QED BY <1>2, <2>2, <2>3 DEF Precedes
<1>6. ASSUME NEW s \in Sinks, NEW i \in DOMAIN sent'[s], NEW j \in DOMAIN sent'[s], i < j
      PROVE  Precedes(sent'[s][i], sent'[s][j])
  <2>1. CASE s # d.sink
    BY <1>3, <1>6, <2>1, OrderOfPairs
  <2>2. CASE s = d.sink /\ j = Len(sent[d.sink]) + 1
    <3>1. i \in DOMAIN sent[d.sink]
      BY <1>4, <1>6, <2>2
    <3> QED BY <1>4, <1>5, <2>2, <3>1
  <2>3. CASE s = d.sink /\ j # Len(sent[d.sink]) + 1
    <3>1. i \in DOMAIN sent[d.sink] /\ j \in DOMAIN sent[d.sink]
      BY <1>4, <1>6, <2>3
    <3> QED BY <1>2, <1>4, <1>6, <2>3, <3>1, OrderOfPairs
  <2> QED BY <2>1, <2>2, <2>3
<1>7. DeliveredInOrder'
  BY <1>6 DEF DeliveredInOrder, Precedes
<1> QED BY <1>7

\* In every sink the results come in the order of the batches, and an alert after its
\* result (orchestrator.py 474-482, 691-714).
THEOREM DeliveriesInOrder == Spec => []DeliveredInOrder
<1>1. Init => DueInv /\ DeliveredInOrder
  BY DEF Init, DueInv, DeliveredInOrder
<1>3. TypeOK /\ TrackInv /\ DueInv /\ DeliveredInOrder /\ [Next]_vars => DueInv' /\ DeliveredInOrder'
  <2> SUFFICES ASSUME TypeOK, TrackInv, DueInv, DeliveredInOrder, [Next]_vars,
                      \A d \in Delivery : ~Deliver(d)
               PROVE  DeliveredInOrder'
    BY DeliverInOrder, NextDue
  <2>1. sent' = sent
    BY OtherSteps DEF Infer, DeliveryFails
  <2> QED BY <2>1 DEF DeliveredInOrder
<1> QED BY <1>1, <1>3, TypeCorrect, PTL DEF Spec

\* The deliveries that were made, and those that were made or reported as failed.
Received(s) == {sent[s][i] : i \in DOMAIN sent[s]}
Made == UNION {Received(s) : s \in Sinks}
Ended == Made \cup reported

\* S has the other deliveries that a result calls for.
FannedOut(d, S) ==
  /\ \A s \in {"websocket", "kafka"} : [d EXCEPT !.sink = s] \in S
  /\ d.level = "alert" => [d EXCEPT !.sink = "persistence"] \in S
  /\ d \in Made /\ Alerts(d) => [d EXCEPT !.kind = "alert"] \in S

\* Every delivery a result calls for has ended or is due, and has ended for earlier batches.
FanInv ==
  /\ pc # "ended" =>
       \A d \in Ended \cup due : d.kind = "result" => FannedOut(d, Ended \cup due)
  /\ \A d \in Ended : d.kind = "result" /\ d.batch < number => FannedOut(d, Ended)

LEMMA InferFan ==
  ASSUME TypeOK, TrackInv, DueInv, FanInv, Infer
  PROVE  FanInv'
<1>1. /\ pc = "inferring" /\ pc' = "delivering" /\ number \in Nat /\ UNCHANGED <<sent, reported>>
      /\ number' = IF number < MaxBatches THEN number + 1 ELSE number
  BY DEF Infer, TypeOK
<1>2. due = {} /\ Made' = Made /\ Ended' = Ended
  BY <1>1 DEF TrackInv, Made, Received, Ended
<1>3. \A d \in Ended : d.kind = "result" => FannedOut(d, Ended)
  BY <1>1, <1>2 DEF FanInv
<1>4. PICK levels : due' = IF number < MaxBatches THEN Due(number + 1, levels) ELSE {}
  BY DEF Infer
<1>5. ASSUME NEW d \in due'
      PROVE  FannedOut(d, due')
  <2>1. d \in Due(number + 1, levels) /\ due' = Due(number + 1, levels)
    BY <1>4, <1>5
  <2>2. d \in Delivery /\ d.batch = number + 1
    BY <2>1 DEF Due
  <2>3. \A s \in {"websocket", "kafka"} : [d EXCEPT !.sink = s] \in Due(number + 1, levels)
    BY <2>1 DEF Due, Delivery, Sinks
  <2>4. d.level = "alert" => [d EXCEPT !.sink = "persistence"] \in Due(number + 1, levels)
    BY <2>1 DEF Due, Delivery, Sinks
  <2>5. d \notin Made
    <3> SUFFICES ASSUME NEW s \in Sinks, NEW i \in DOMAIN sent[s], sent[s][i] = d
                 PROVE  FALSE
      BY DEF Made, Received
    <3>1. d.batch <= number
      BY DEF DueInv
    <3> QED BY <1>1, <2>2, <3>1
  <2> QED BY <2>1, <2>3, <2>4, <2>5 DEF FannedOut
<1>6. \A d, S, T : FannedOut(d, S) /\ S \subseteq T => FannedOut(d, T)
  BY DEF FannedOut
<1>8. \A d \in Ended' \cup due' : d.kind = "result" => FannedOut(d, Ended' \cup due')
  BY <1>2, <1>3, <1>5, <1>6
<1>9. (\A d \in Ended \cup due : d.kind = "result" => FannedOut(d, Ended \cup due))'
  BY <1>2, <1>8 DEF FannedOut
<1>10. (\A d \in Ended : d.kind = "result" /\ d.batch < number => FannedOut(d, Ended))'
  BY <1>2, <1>3 DEF FannedOut
<1> QED BY <1>9, <1>10 DEF FanInv

LEMMA DeliverFan ==
  ASSUME TypeOK, DueInv, FanInv, NEW d \in Delivery, Deliver(d)
  PROVE  FanInv'
<1> DEFINE alert == [d EXCEPT !.kind = "alert"]
<1>1. /\ pc = "delivering" /\ pc' = pc /\ d \in due /\ number' = number /\ reported' = reported
      /\ sent' = [sent EXCEPT ![d.sink] = Append(@, d)]
      /\ due' = (due \ {d}) \cup (IF Alerts(d) THEN {alert} ELSE {})
  BY DEF Deliver
<1>2. d.sink \in Sinks /\ sent[d.sink] \in Seq(Delivery) /\ d.batch = number
  <2>1. d.sink \in Sinks
    BY DEF Delivery
  <2>2. sent[d.sink] \in Seq(Delivery)
    BY <2>1 DEF TypeOK
  <2>3. d.batch = number
    BY <1>1 DEF DueInv
  <2> QED BY <2>1, <2>2, <2>3
<1>3. /\ sent'[d.sink] = Append(sent[d.sink], d)
      /\ \A s \in Sinks \ {d.sink} : sent'[s] = sent[s]
  BY <1>1, <1>2 DEF TypeOK
<1>4. /\ DOMAIN sent'[d.sink] = DOMAIN sent[d.sink] \cup {Len(sent[d.sink]) + 1}
      /\ sent'[d.sink][Len(sent[d.sink]) + 1] = d
      /\ \A i \in DOMAIN sent[d.sink] : sent'[d.sink][i] = sent[d.sink][i]
  BY <1>2, <1>3, AppendProperties, LenProperties
<1>5. Made' = Made \cup {d}
  <2>1. ASSUME NEW s \in Sinks
        PROVE  /\ s = d.sink => Received(s)' = Received(s) \cup {d}
               /\ s # d.sink => Received(s)' = Received(s)
    <3>1. CASE s = d.sink
      BY <1>4, <3>1 DEF Received
    <3>2. CASE s # d.sink
      BY <1>3, <3>2 DEF Received
    <3> QED BY <3>1, <3>2
  <2>2. ASSUME NEW x
        PROVE  x \in Made' <=> x \in Made \cup {d}
    BY <1>2, <2>1 DEF Made
  <2> QED BY <2>2
<1>6. Ended' = Ended \cup {d}
  BY <1>1, <1>5 DEF Ended
<1>7. /\ Alerts(d) => alert \in due'
      /\ Ended \cup due \subseteq Ended' \cup due'
      /\ \A e \in Ended' \cup due' : e.kind = "result" => e \in Ended \cup due
  <2>1. alert.kind = "alert"
    BY DEF Delivery
  <2> HIDE DEF alert
  <2>2. CASE Alerts(d)
    <3>1. due' = (due \ {d}) \cup {alert}
      BY <1>1, <2>2
    <3> QED BY <1>1, <1>6, <2>1, <3>1
  <2>3. CASE ~Alerts(d)
    <3>1. due' = due \ {d}
      BY <1>1, <2>3
    <3> QED BY <1>1, <1>6, <2>3, <3>1
  <2> QED BY <2>2, <2>3
<1>8. ASSUME NEW e \in Ended' \cup due', e.kind = "result"
      PROVE  FannedOut(e, Ended \cup due)'
  <2>1. FannedOut(e, Ended \cup due)
    BY <1>1, <1>7, <1>8 DEF FanInv
  <2>2. e \in Made' => e \in Made \/ e = d
    BY <1>5
  <2>3. e \in Made' /\ Alerts(e) => [e EXCEPT !.kind = "alert"] \in Ended' \cup due'
    BY <1>7, <2>1, <2>2 DEF FannedOut
  <2>4. \A s \in {"websocket", "kafka"} : [e EXCEPT !.sink = s] \in Ended' \cup due'
    BY <1>7, <2>1 DEF FannedOut
  <2>5. e.level = "alert" => [e EXCEPT !.sink = "persistence"] \in Ended' \cup due'
    BY <1>7, <2>1 DEF FannedOut
  <2> QED BY <2>3, <2>4, <2>5 DEF FannedOut
<1>9. ASSUME NEW e \in Ended', e.kind = "result", e.batch < number
      PROVE  FannedOut(e, Ended)'
  <2>1. e \in Ended /\ e # d
    BY <1>2, <1>6, <1>9 DEF TypeOK
  <2>2. FannedOut(e, Ended)
    BY <1>9, <2>1 DEF FanInv
  <2> QED BY <1>5, <1>6, <2>1, <2>2 DEF FannedOut
<1>10. (\A e \in Ended \cup due : e.kind = "result" => FannedOut(e, Ended \cup due))'
  BY <1>8
<1>11. (\A e \in Ended : e.kind = "result" /\ e.batch < number => FannedOut(e, Ended))'
  BY <1>1, <1>9
<1> QED BY <1>10, <1>11 DEF FanInv

LEMMA NextFan ==
  ASSUME TypeOK, TrackInv, DueInv, FanInv, [Next]_vars
  PROVE  FanInv'
<1>1. ASSUME NEW d \in Delivery, DeliveryFails(d)
      PROVE  FanInv'
  <2>1. /\ pc = "delivering" /\ pc' = pc /\ d \in due /\ due' = due \ {d}
        /\ reported' = reported \cup {d} /\ UNCHANGED <<number, sent>>
    BY <1>1 DEF DeliveryFails
  <2>2. Made' = Made /\ Ended' = Ended \cup {d} /\ Ended' \cup due' = Ended \cup due
    BY <2>1 DEF Made, Received, Ended
  <2>3. d.batch = number /\ number \in Nat
    BY <2>1 DEF DueInv, TypeOK
  <2>4. ASSUME NEW e \in Ended' \cup due', e.kind = "result"
        PROVE  FannedOut(e, Ended \cup due)'
    BY <2>1, <2>2, <2>4 DEF FanInv, FannedOut
  <2>5. ASSUME NEW e \in Ended', e.kind = "result", e.batch < number
        PROVE  FannedOut(e, Ended)'
    BY <2>2, <2>3, <2>5 DEF FanInv, FannedOut
  <2> QED BY <2>1, <2>4, <2>5 DEF FanInv
<1>2. ASSUME ~Infer, \A d \in Delivery : ~Deliver(d) /\ ~DeliveryFails(d)
      PROVE  FanInv'
  <2>1. UNCHANGED <<number, sent, reported>> /\ (pc' # "ended" => pc # "ended" /\ due' = due)
    BY <1>2, OtherSteps
  <2>2. Made' = Made /\ Ended' = Ended
    BY <2>1 DEF Made, Received, Ended
  <2> QED BY <2>1, <2>2 DEF FanInv, FannedOut
<1> QED BY <1>1, <1>2, InferFan, DeliverFan

\* A sink that fails keeps no other from a result: of every batch the loop is done with each
\* delivery that one of its scores calls for was made or reported (orchestrator.py 654-680).
THEOREM SinksAlwaysIndependent == Spec => []SinksIndependent
<1>1. Init => DueInv /\ FanInv
  BY DEF Init, DueInv, FanInv, Made, Received, Ended
<1>2. /\ TypeOK /\ TrackInv /\ DueInv /\ FanInv /\ [Next]_vars
      => DueInv' /\ FanInv'
  BY NextDue, NextFan
<1>3. TrackInv /\ FanInv => SinksIndependent
  <2> SUFFICES ASSUME TrackInv, FanInv PROVE SinksIndependent
    OBVIOUS
  <2> SUFFICES ASSUME NEW d \in Ended, d.kind = "result" /\ (d.batch < number \/ pc = "get")
               PROVE  FannedOut(d, Ended)
    BY DEF SinksIndependent, FannedOut, Made, Received, Ended
  <2>1. CASE d.batch < number
    BY <2>1 DEF FanInv
  <2>2. CASE pc = "get"
    <3>1. due = {}
      BY <2>2 DEF TrackInv
    <3> QED BY <2>2, <3>1 DEF FanInv
  <2> QED BY <2>1, <2>2
<1> QED BY <1>1, <1>2, <1>3, TypeCorrect, PTL DEF Spec
=============================================================================
