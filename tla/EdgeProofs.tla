----------------------------- MODULE EdgeProofs -----------------------------
(***************************************************************************)
(* Proofs about the two edges of the pipeline, where it holds what the     *)
(* outside opens and closes: the sessions of its sources (CaptureWorker)   *)
(* and the sockets and peer connections of its clients (LiveDelivery).     *)
(* They hold for any number of clients, offers, bundles, workers and       *)
(* broadcasts under way at once, and of failures and handles of a source.  *)
(***************************************************************************)
EXTENDS LiveDelivery, CaptureWorker, SequenceTheorems, FiniteSetTheorems, TLAPS

-----------------------------------------------------------------------------
(* The sockets.                                                            *)

SocketTypes ==
  /\ filter \in [Sockets -> Cameras \cup {None}]
  /\ client \in [Sockets -> {"away", "steady", "slow", "back", "gone", "closed"}]
  /\ conn \subseteq Sockets /\ sending \subseteq Paths
  /\ pend \in [Paths -> SUBSET Sockets] /\ failed \in [Paths -> SUBSET Sockets]
  /\ owed \in [Paths -> SUBSET Sockets]

\* The clients that are still owed a message are registered and read, and wait for a
\* broadcast that is about to begin or still sends to them; whoever a send has failed for
\* has not always read.
SocketsInv ==
  /\ \A b \in Paths :
       /\ \A s \in owed[b] : s \in conn /\ client[s] = "steady" /\ Matches(s, b[2])
       /\ b \in sending => owed[b] \subseteq pend[b]
       /\ b \notin parts \cup sending => owed[b] = {}
       /\ \A s \in pend[b] : client[s] # "away" /\ filter[s] \in {None, b[2]}
       /\ \A s \in failed[b] : client[s] \notin {"away", "steady"}
  /\ \A s \in Sockets : client[s] = "steady" => s \in conn
  /\ \A s \in conn : client[s] \notin {"away", "closed"}

\* The paths whose broadcast is about to begin stay the same.
SameParts == \A b \in Paths : b \in parts' <=> b \in parts

LEMMA ClientsKeep ==
  ASSUME SocketTypes, SocketsInv, SameParts,
         NEW s \in Sockets, Connect(s) \/ Clients(s) \/ Disconnect(s)
  PROVE  SocketTypes' /\ SocketsInv'
<1> USE DEF SocketTypes, SocketsInv, SameParts, Matches
<1>1. CASE Connect(s)
  <2>1. \A b \in Paths : s \notin owed[b] \cup pend[b] \cup failed[b]
    BY <1>1 DEF Connect
  <2> QED BY <1>1, <2>1 DEF Connect
<1>2. ASSUME NEW from, NEW to \in {"slow", "back", "gone"}, ClientTurns(s, from, to),
             from \subseteq {"steady", "slow", "back"}
      PROVE  SocketTypes' /\ SocketsInv'
  <2>1. /\ client[s] \notin {"away", "gone", "closed"}
        /\ client' = [client EXCEPT ![s] = to]
        /\ owed' = [b \in Paths |-> owed[b] \ {s}]
        /\ UNCHANGED <<filter, conn, pend, failed, sending>>
    BY <1>2 DEF ClientTurns
  <2> QED BY <2>1
<1>3. CASE Clients(s)
  BY <1>2, <1>3 DEF Clients, Slows, Recovers, Leaves
<1>4. CASE Disconnect(s)
  BY <1>4 DEF Disconnect
<1> QED BY <1>1, <1>3, <1>4

LEMMA SendingKeeps ==
  ASSUME SocketTypes, SocketsInv, SameParts, NEW b \in Paths, Sending(b)
  PROVE  SocketTypes' /\ SocketsInv'
<1> USE DEF SocketTypes, SocketsInv, SameParts, Matches
<1>1. CASE Evict(b)
  BY <1>1 DEF Evict
<1>2. ASSUME NEW s \in Sockets, Sent(b, s) PROVE SocketTypes' /\ SocketsInv'
  BY <1>2 DEF Sent
<1>3. ASSUME NEW s \in Sockets, SendFails(b, s) PROVE SocketTypes' /\ SocketsInv'
  BY <1>3 DEF SendFails
<1> QED BY <1>1, <1>2, <1>3 DEF Sending

\* A broadcast that begins is sent to everybody it is due to.
LEMMA BroadcastKeeps ==
  ASSUME SocketTypes, SocketsInv, NEW b \in Paths, NEW due, Broadcast(b, due),
         due \subseteq Readers(b[2]), \A d \in Paths \ {b} : d \in parts' <=> d \in parts
  PROVE  SocketTypes' /\ SocketsInv'
<1> DEFINE targets == {s \in conn : Matches(s, b[2])}
<1>1. /\ targets \in SUBSET conn /\ due \in SUBSET targets
      /\ \A s \in targets : client[s] # "away" /\ filter[s] \in {None, b[2]}
      /\ \A s \in due : s \in conn /\ client[s] = "steady" /\ Matches(s, b[2])
  BY DEF Readers, Matches, SocketsInv
<1>2. /\ pend' = [pend EXCEPT ![b] = targets] /\ owed' = [owed EXCEPT ![b] = due]
      /\ sending' = (IF targets = {} THEN sending ELSE sending \cup {b})
      /\ UNCHANGED <<filter, client, conn, failed>>
  BY DEF Broadcast
<1> HIDE DEF targets
<1> QED BY <1>1, <1>2 DEF SocketTypes, SocketsInv, Matches

\* Messages that are handed out are due to everybody who reads.
LEMMA HandOutKeeps ==
  ASSUME SocketTypes, SocketsInv, NEW P \in SUBSET Paths, P \cap sending = {},
         \A b \in Paths : b \in parts' <=> b \in parts \cup P,
         owed' = [b \in Paths |-> IF b \in P THEN Readers(b[2]) ELSE owed[b]],
         UNCHANGED <<filter, client, conn, gauge, pend, failed, sending>>
  PROVE  SocketTypes' /\ SocketsInv'
<1>1. \A b \in Paths : Readers(b[2]) \in SUBSET Sockets
  BY DEF Readers, SocketTypes
<1> QED BY <1>1 DEF SocketTypes, SocketsInv, Matches, Readers

LEMMA AbandonKeeps ==
  ASSUME SocketTypes, SocketsInv, NEW P \in SUBSET Paths, Abandon(P),
         \A b \in Paths : b \in parts' <=> b \in parts \ P
  PROVE  SocketTypes' /\ SocketsInv'
BY DEF Abandon, SocketTypes, SocketsInv, Matches

(* The gauge.                                                              *)

\* The clients that are counted though they have left: those that had not asked for a
\* camera, which no removal counts out.
Left == {s \in Sockets \ conn : filter[s] = None /\ client[s] # "away"}

GaugeDrift == gauge = Cardinality(conn) + Cardinality(Left)

LEMMA DisjointUnion ==
  ASSUME NEW S, NEW T, IsFiniteSet(S), IsFiniteSet(T), S \cap T = {}
  PROVE  /\ IsFiniteSet(S \cup T)
         /\ Cardinality(S \cup T) = Cardinality(S) + Cardinality(T)
<1>1. Cardinality(S \cup T) = Cardinality(S) + Cardinality(T) - Cardinality(S \cap T)
  BY FS_Union
<1>2. Cardinality(S) \in Nat /\ Cardinality(T) \in Nat /\ Cardinality(S \cap T) = 0
  BY FS_CardinalityType, FS_EmptySet
<1> QED BY <1>1, <1>2, FS_Union

LEMMA SetsAreFinite ==
  ASSUME SocketTypes
  PROVE  /\ IsFiniteSet(conn) /\ IsFiniteSet(Left)
         /\ Cardinality(conn) \in Nat /\ Cardinality(Left) \in Nat
         /\ Cardinality(conn) + Cardinality(Left) <= Cardinality(Sockets)
<1>1. conn \in SUBSET Sockets /\ Left \in SUBSET Sockets /\ conn \cap Left = {}
  BY DEF SocketTypes, Left
<1>2. IsFiniteSet(conn) /\ IsFiniteSet(Left)
  BY <1>1, SocketsAssumption, FS_Subset
<1>3. Cardinality(conn) \in Nat /\ Cardinality(Left) \in Nat
  BY <1>2, FS_CardinalityType
<1>4. Cardinality(conn \cup Left) = Cardinality(conn) + Cardinality(Left)
  BY <1>1, <1>2, DisjointUnion
<1>5. Cardinality(conn \cup Left) <= Cardinality(Sockets)
  BY <1>1, SocketsAssumption, FS_Subset
<1> QED BY <1>2, <1>3, <1>4, <1>5

\* Forgetting the sockets F takes those that asked for a camera out of the gauge.
LEMMA ForgetCounts ==
  ASSUME SocketTypes, SocketsInv, GaugeDrift, NEW F,
         conn' = conn \ F, gauge' = gauge - Cardinality(Counted(conn \cap F)),
         filter' = filter,
         \A s \in Sockets : client'[s] # "away" <=> client[s] # "away"
  PROVE  GaugeDrift'
<1> DEFINE gone == conn \cap F
           counted == Counted(gone)
           stays == gone \ counted
<1>1. /\ gone \in SUBSET conn /\ counted \in SUBSET gone /\ stays \in SUBSET gone
      /\ counted \cap stays = {} /\ counted \cup stays = gone /\ conn \ F = conn \ gone
  BY DEF Counted
<1>2. IsFiniteSet(gone) /\ IsFiniteSet(counted) /\ IsFiniteSet(stays)
  BY <1>1, SetsAreFinite, FS_Subset
<1>3. Left' = Left \cup stays /\ Left \cap stays = {}
  BY DEF Left, Counted, SocketTypes, SocketsInv
<1> HIDE DEF gone, counted, stays
<1>4. Cardinality(Left') = Cardinality(Left) + Cardinality(stays)
  BY <1>2, <1>3, SetsAreFinite, DisjointUnion
<1>5. Cardinality(gone) = Cardinality(counted) + Cardinality(stays)
  <2>1. Cardinality(counted \cup stays) = Cardinality(counted) + Cardinality(stays)
    BY <1>1, <1>2, DisjointUnion
  <2> QED BY <1>1, <2>1
<1>6. Cardinality(conn') = Cardinality(conn) - Cardinality(gone)
  <2>1. Cardinality(conn \ gone) = Cardinality(conn) - Cardinality(conn \cap gone)
    BY SetsAreFinite, FS_Difference
  <2>2. conn \cap gone = gone
    BY <1>1
  <2> QED BY <1>1, <2>1, <2>2
<1>7. gauge = Cardinality(conn) + Cardinality(Left)
  BY DEF GaugeDrift
<1>8. gauge' = gauge - Cardinality(counted)
  BY DEF counted, gone
<1>9. /\ Cardinality(gone) \in Nat /\ Cardinality(counted) \in Nat /\ Cardinality(stays) \in Nat
      /\ Cardinality(conn) \in Nat /\ Cardinality(Left) \in Nat
  BY <1>2, SetsAreFinite, FS_CardinalityType
<1>10. gauge' = Cardinality(conn') + Cardinality(Left')
  BY <1>4, <1>5, <1>6, <1>7, <1>8, <1>9
<1> QED BY <1>10 DEF GaugeDrift

LEMMA GaugeKept ==
  ASSUME SocketTypes, SocketsInv, GaugeDrift,
         \/ \E s \in Sockets : Connect(s) \/ Clients(s) \/ Disconnect(s)
         \/ \E b \in Paths : Sending(b)
         \/ UNCHANGED <<filter, client, conn, gauge>>
  PROVE  GaugeDrift'
<1> USE DEF SocketTypes
<1>1. ASSUME NEW s \in Sockets, Connect(s) PROVE GaugeDrift'
  <2>1. s \notin conn
    BY <1>1 DEF Connect, SocketsInv
  <2>2. conn' = conn \cup {s} /\ gauge' = gauge + 1
    BY <1>1 DEF Connect
  <2>3. Left' = Left
    BY <1>1 DEF Connect, Left
  <2>4. Cardinality(conn') = Cardinality(conn) + 1
    BY <2>1, <2>2, SetsAreFinite, FS_AddElement
  <2> QED BY <2>2, <2>3, <2>4, SetsAreFinite DEF GaugeDrift
<1>2. ASSUME UNCHANGED <<conn, gauge, filter>>,
             \A s \in Sockets : client'[s] # "away" <=> client[s] # "away"
      PROVE  GaugeDrift'
  <2>1. Left' = Left
    BY <1>2 DEF Left
  <2> QED BY <1>2, <2>1 DEF GaugeDrift
<1>3. ASSUME NEW s \in Sockets, Clients(s) PROVE GaugeDrift'
  BY <1>2, <1>3 DEF Clients, Slows, Recovers, Leaves, ClientTurns
<1>4. ASSUME NEW s \in Sockets, Disconnect(s) PROVE GaugeDrift'
  BY <1>4, ForgetCounts DEF Disconnect
<1>5. ASSUME NEW b \in Paths, Evict(b) PROVE GaugeDrift'
  BY <1>5, ForgetCounts DEF Evict
<1>6. ASSUME NEW b \in Paths, NEW s \in Sockets, Sent(b, s) \/ SendFails(b, s)
      PROVE  GaugeDrift'
  BY <1>2, <1>6 DEF Sent, SendFails
<1>7. CASE UNCHANGED <<filter, client, conn, gauge>>
  BY <1>2, <1>7
<1> QED BY <1>1, <1>3, <1>4, <1>5, <1>6, <1>7 DEF Sending

-----------------------------------------------------------------------------
(* The peer connections.                                                   *)

PeerTypes ==
  /\ watch \in [Peers -> Viewable]
  /\ offer \in [Peers -> {"none", "listing", "answering", "answered", "failed"}]
  /\ state \in [Peers -> {"none", "new", "connected"} \cup Over]
  /\ changed \subseteq Peers /\ closing \subseteq Peers
  /\ pcs \subseteq Peers /\ tracks \subseteq Peers
  /\ latest \in [Peers -> Nat] /\ cached \in [Viewable -> Nat]

PeerStep == \E p \in Peers : Offer(p) \/ Viewers(p) \/ Handling(p)

\* A connection that is being closed is not registered any more; either was made by an
\* offer that found its camera.
PeersInv ==
  /\ \A p \in Peers : state[p] \in {"none", "closed"} \/ p \in pcs \cup closing
  /\ \A p \in pcs : state[p] \in Over => p \in changed
  /\ tracks = pcs
  /\ closing \cap pcs = {}
  /\ \A p \in pcs \cup closing : offer[p] \notin {"none", "listing"}

LEMMA PeersKept ==
  ASSUME PeerTypes, PeersInv, PeerStep
  PROVE  PeerTypes' /\ PeersInv'
<1> USE DEF PeerTypes, PeersInv, Over
<1>1. ASSUME NEW p \in Peers, Offer(p) \/ Refuse(p) \/ Answer(p) PROVE PeerTypes' /\ PeersInv'
  BY <1>1 DEF Offer, Refuse, Answer
<1>2. ASSUME NEW p \in Peers, Create(p) PROVE PeerTypes' /\ PeersInv'
  BY <1>2 DEF Create
<1>3. ASSUME NEW p \in Peers, AnswerFails(p) PROVE PeerTypes' /\ PeersInv'
  BY <1>3 DEF AnswerFails, Cleanup
<1>4. ASSUME NEW p \in Peers, StateChanges(p) PROVE PeerTypes' /\ PeersInv'
  BY <1>4 DEF StateChanges
<1>5. ASSUME NEW p \in Peers, Callback(p) PROVE PeerTypes' /\ PeersInv'
  BY <1>5 DEF Callback, Cleanup
<1>6. ASSUME NEW p \in Peers, Close(p) PROVE PeerTypes' /\ PeersInv'
  BY <1>6 DEF Close
<1> QED BY <1>1, <1>2, <1>3, <1>4, <1>5, <1>6 DEF PeerStep, Viewers, Handling

-----------------------------------------------------------------------------
(* The bundles and their frames.                                           *)

BundleTypes ==
  /\ bundles \in Seq(SUBSET Viewable) /\ Number <= MaxBundles
  /\ parts \subseteq OfBundle(Viewable) \cup UNION {OfWorker(c) : c \in Workers}

\* Bundle n is the last with a frame of camera c, or n is 0 and there is none.
LastOf(n, c) ==
  /\ \A m \in 1 .. Number : c \in bundles[m] => m <= n
  /\ n # 0 => n <= Number /\ c \in bundles[n]

\* The registry caches the last frame of each camera, and every viewer has it.
FramesInv ==
  /\ \A c \in Viewable : LastOf(cached[c], c)
  /\ \A p \in tracks : latest[p] = cached[watch[p]]

LEMMA FramesKept ==
  ASSUME PeerTypes, PeersInv, FramesInv, UNCHANGED bundles, PeerStep \/ UNCHANGED pcvars
  PROVE  FramesInv'
<1> USE DEF PeerTypes, FramesInv
<1>1. UNCHANGED cached => \A c \in Viewable : LastOf(cached[c], c)'
  BY DEF LastOf, Number
<1>2. CASE UNCHANGED pcvars
  BY <1>1, <1>2 DEF pcvars
<1>3. ASSUME NEW p \in Peers,
             \/ Offer(p) \/ Refuse(p) \/ Answer(p) \/ AnswerFails(p)
             \/ StateChanges(p) \/ Callback(p) \/ Close(p)
      PROVE  FramesInv'
  <2>1. UNCHANGED <<cached, latest, watch>> /\ tracks' \subseteq tracks
    BY <1>3 DEF Offer, Refuse, Answer, AnswerFails, StateChanges, Callback, Close, Cleanup
  <2> QED BY <1>1, <2>1
<1>4. ASSUME NEW p \in Peers, Create(p) PROVE FramesInv'
  <2>1. UNCHANGED <<cached, watch>> /\ tracks' = tracks \cup {p}
    BY <1>4 DEF Create
  <2>2. latest' = [latest EXCEPT ![p] = cached[watch[p]]]
    BY <1>4 DEF Create
  <2> QED BY <1>1, <2>1, <2>2
<1> QED BY <1>2, <1>3, <1>4 DEF PeerStep, Viewers, Handling

LEMMA DispatchKeeps ==
  ASSUME PeerTypes, BundleTypes, PeersInv, FramesInv, NEW C \in SUBSET Viewable, Dispatch(C)
  PROVE  PeerTypes' /\ BundleTypes' /\ PeersInv' /\ FramesInv'
<1>1. Number \in Nat /\ MaxBundles \in Nat
  BY LenProperties, DeliveryAssumption DEF BundleTypes, Number
<1>2. /\ bundles' \in Seq(SUBSET Viewable) /\ Number' = Number + 1
      /\ \A m \in 1 .. Number : bundles'[m] = bundles[m]
      /\ bundles'[Number + 1] = C
  BY AppendProperties DEF BundleTypes, Dispatch, Number
<1>3. /\ cached' = [c \in Viewable |-> IF c \in C THEN Number + 1 ELSE cached[c]]
      /\ latest' = [p \in Peers |->
                      IF p \in tracks /\ watch[p] \in C THEN Number + 1 ELSE latest[p]]
      /\ UNCHANGED <<watch, offer, state, changed, closing, pcs, tracks>>
  BY DEF Dispatch, Push
<1>4. BundleTypes'
  <2>1. OfBundle(C) \subseteq OfBundle(Viewable)
    BY DEF OfBundle
  <2>2. Number < MaxBundles /\ parts' = parts \cup OfBundle(C)
    BY DEF Dispatch
  <2> QED BY <1>1, <1>2, <2>1, <2>2 DEF BundleTypes
<1>5. PeerTypes' /\ PeersInv'
  BY <1>1, <1>3 DEF PeerTypes, PeersInv
<1>6. FramesInv'
  <2>1. \A m \in 1 .. Number' : m = Number + 1 \/ m \in 1 .. Number
    BY <1>1, <1>2
  <2>2. ASSUME NEW c \in C PROVE LastOf(cached[c], c)'
    <3>1. cached'[c] = Number + 1 /\ c \in bundles'[Number + 1]
      BY <1>2, <1>3
    <3> QED BY <1>1, <1>2, <3>1 DEF LastOf
  <2>3. ASSUME NEW c \in Viewable \ C PROVE LastOf(cached[c], c)'
    <3>1. c \in Viewable /\ c \notin C
      OBVIOUS
    <3>2. cached'[c] = cached[c]
      BY <1>3, <3>1
    <3>3. cached[c] \in Nat /\ LastOf(cached[c], c)
      BY <3>1 DEF PeerTypes, FramesInv
    <3> QED BY <1>1, <1>2, <2>1, <3>1, <3>2, <3>3 DEF LastOf
  <2>4. \A p \in tracks' : latest'[p] = cached'[watch'[p]]
    BY <1>3 DEF PeerTypes, FramesInv
  <2> QED BY <2>2, <2>3, <2>4 DEF FramesInv
<1> QED BY <1>4, <1>5, <1>6

-----------------------------------------------------------------------------
(* The steps of LiveDelivery.                                              *)

SocketsAll == SocketTypes /\ SocketsInv /\ GaugeDrift
ViewersAll == PeerTypes /\ BundleTypes /\ PeersInv /\ FramesInv

\* The names of the paths.
LEMMA PathFacts ==
  /\ \A C \in SUBSET Viewable : OfBundle(C) \subseteq Paths
  /\ \A c \in Workers, K \in SUBSET Payloads :
       /\ Results(c, K) \subseteq Paths
       /\ Alerts(c, K) \cap Paths = {}
       /\ Results(c, K) \cup Alerts(c, K) \subseteq OfWorker(c)
  /\ \A c \in Workers : \A b \in OfWorker(c) \cap Paths : b \in Results(c, Payloads)
  /\ \A c \in Cameras, b \in Paths : b \in Results(c, Payloads) => b[2] = c
  /\ \A c \in Cameras :
       /\ <<"consumer", c, None>> \in Paths
       /\ <<"consumer", c, None>> \notin OfBundle(Viewable)
       /\ \A d \in Workers : <<"consumer", c, None>> \notin OfWorker(d)
  /\ \A c \in Workers, k \in Payloads :
       <<"inference", c, k>> \in Paths /\ <<"alert", c, k>> \notin Paths
BY DeliveryAssumption DEF Paths, OfBundle, OfWorker, Results, Alerts

LEMMA SocketsKept ==
  ASSUME SocketsAll, BundleTypes, [Next]_vars
  PROVE  SocketsAll'
<1> USE DEF SocketsAll
<1>1. CASE UNCHANGED <<wsvars, parts>>
  BY <1>1 DEF wsvars, SocketTypes, SocketsInv, GaugeDrift, Left, Matches
<1>2. ASSUME NEW C \in SUBSET Viewable, Dispatch(C) PROVE SocketsAll'
  <2>1. OfBundle(C) \in SUBSET Paths /\ OfBundle(C) \cap sending = {}
    BY <1>2, PathFacts DEF Dispatch, Dispatched, OfBundle
  <2> QED BY <1>2, <2>1, HandOutKeeps, GaugeKept DEF Dispatch
<1>3. ASSUME NEW c \in Workers, Infer(c) PROVE SocketsAll'
  <2>1. PICK K \in SUBSET Payloads, A \in SUBSET Payloads :
          /\ A \subseteq K
          /\ parts' = parts \cup Results(c, K) \cup Alerts(c, A)
          /\ owed' = [b \in Paths |-> IF b \in Results(c, K) THEN Readers(c) ELSE owed[b]]
    BY <1>3 DEF Infer
  <2>2. /\ Results(c, K) \in SUBSET Paths /\ Results(c, K) \cap sending = {}
        /\ Alerts(c, A) \cap Paths = {}
    BY <1>3, PathFacts DEF Infer
  <2>3. \A b \in Results(c, K) : b[2] = c
    BY DEF Results
  <2>4. owed' = [b \in Paths |-> IF b \in Results(c, K) THEN Readers(b[2]) ELSE owed[b]]
    BY <2>1, <2>3
  <2>5. \A b \in Paths : b \in parts' <=> b \in parts \cup Results(c, K)
    BY <2>1, <2>2
  <2>6. UNCHANGED <<filter, client, conn, gauge, pend, failed, sending>>
    BY <1>3 DEF Infer
  <2> QED BY <2>2, <2>4, <2>5, <2>6, HandOutKeeps, GaugeKept
<1>4. ASSUME NEW c \in Workers, NEW k \in Payloads, Alert(c, k) PROVE SocketsAll'
  <2> DEFINE b == <<"inference", c, k>>
  <2>1. b \in Paths /\ b[2] = c /\ <<"alert", c, k>> \notin Paths
    BY PathFacts
  <2>2. Broadcast(b, Readers(c)) /\ parts' = parts \ {<<"alert", c, k>>}
    BY <1>4 DEF Alert
  <2>3. UNCHANGED <<filter, client, conn, gauge>>
    BY <2>2 DEF Broadcast
  <2> HIDE DEF b
  <2> QED BY <2>1, <2>2, <2>3, BroadcastKeeps, GaugeKept
<1>5. ASSUME NEW c \in Workers, CloseWorker(c) PROVE SocketsAll'
  <2>1. Results(c, Payloads) \in SUBSET Paths /\ Abandon(Results(c, Payloads))
    BY <1>5, PathFacts DEF CloseWorker
  <2>2. \A b \in Paths : b \in parts' <=> b \in parts \ Results(c, Payloads)
    BY <1>5, PathFacts DEF CloseWorker
  <2>3. UNCHANGED <<filter, client, conn, gauge>>
    BY <2>1 DEF Abandon
  <2> QED BY <2>1, <2>2, <2>3, AbandonKeeps, GaugeKept
<1>6. ASSUME NEW b \in Paths, Begin(b) PROVE SocketsAll'
  <2>1. owed[b] \subseteq Readers(b[2])
    BY DEF SocketsInv, Readers
  <2>2. Broadcast(b, owed[b]) /\ \A d \in Paths \ {b} : d \in parts' <=> d \in parts
    BY <1>6 DEF Begin
  <2>3. UNCHANGED <<filter, client, conn, gauge>>
    BY <2>2 DEF Broadcast
  <2> QED BY <2>1, <2>2, <2>3, BroadcastKeeps, GaugeKept
<1>7. ASSUME NEW c \in Cameras, Consume(c) PROVE SocketsAll'
  <2> DEFINE b == <<"consumer", c, None>>
  <2>1. b \in Paths /\ b[2] = c
    BY PathFacts
  <2>2. Broadcast(b, Readers(c)) /\ UNCHANGED parts
    BY <1>7 DEF Consume, rest
  <2>3. UNCHANGED <<filter, client, conn, gauge>>
    BY <2>2 DEF Broadcast
  <2> HIDE DEF b
  <2> QED BY <2>1, <2>2, <2>3, BroadcastKeeps, GaugeKept
<1>8. ASSUME NEW b \in Paths, Sending(b), UNCHANGED rest PROVE SocketsAll'
  BY <1>8, SendingKeeps, GaugeKept DEF rest, SameParts
<1>9. ASSUME NEW s \in Sockets, Connect(s) \/ Clients(s) \/ Disconnect(s), UNCHANGED rest
      PROVE  SocketsAll'
  BY <1>9, ClientsKeep, GaugeKept DEF rest, SameParts
<1> QED BY <1>1, <1>2, <1>3, <1>4, <1>5, <1>6, <1>7, <1>8, <1>9
        DEF Next, Delivery, vars, rest

LEMMA ViewersKept ==
  ASSUME ViewersAll, [Next]_vars
  PROVE  ViewersAll'
<1> USE DEF ViewersAll
<1>1. CASE \E C \in SUBSET Viewable : Dispatch(C)
  BY <1>1, DispatchKeeps
<1>2. ASSUME PeerStep \/ UNCHANGED pcvars, UNCHANGED bundles, BundleTypes' PROVE ViewersAll'
  <2>1. PeerTypes' /\ PeersInv'
    BY <1>2, PeersKept DEF pcvars, PeerTypes, PeersInv
  <2> QED BY <1>2, <2>1, FramesKept
<1>3. ASSUME UNCHANGED <<pcvars, bundles>>, BundleTypes' PROVE ViewersAll'
  BY <1>2, <1>3
<1>4. ASSUME UNCHANGED bundles, parts' \subseteq parts PROVE BundleTypes'
  BY <1>4 DEF BundleTypes, Number
<1>5. ASSUME NEW c \in Workers, Infer(c) PROVE ViewersAll'
  <2>1. UNCHANGED <<pcvars, bundles>>
    BY <1>5 DEF Infer
  <2>2. parts' \subseteq parts \cup OfWorker(c)
    BY <1>5, PathFacts DEF Infer
  <2>3. BundleTypes'
    BY <2>1, <2>2 DEF BundleTypes, Number
  <2> QED BY <1>3, <2>1, <2>3
<1>6. CASE \E c \in Workers : CloseWorker(c) \/ \E k \in Payloads : Alert(c, k)
  BY <1>3, <1>4, <1>6 DEF CloseWorker, Alert
<1>7. CASE \E b \in Paths : Begin(b) \/ (Sending(b) /\ UNCHANGED <<pcvars, rest>>)
  BY <1>3, <1>4, <1>7 DEF Begin, rest
<1>8. CASE \E c \in Cameras : Consume(c)
  BY <1>3, <1>4, <1>8 DEF Consume, rest
<1>9. CASE \E s \in Sockets :
             (Connect(s) \/ Clients(s) \/ Disconnect(s)) /\ UNCHANGED <<pcvars, rest>>
  BY <1>3, <1>4, <1>9 DEF rest
<1>10. CASE PeerStep /\ UNCHANGED rest
  BY <1>2, <1>4, <1>10 DEF rest
<1>11. CASE UNCHANGED vars
  BY <1>3, <1>4, <1>11 DEF vars, rest
<1> QED BY <1>1, <1>5, <1>6, <1>7, <1>8, <1>9, <1>10, <1>11 DEF Next, Delivery, PeerStep

-----------------------------------------------------------------------------
(* Theorems about LiveDelivery.                                            *)

DeliveryInv == SocketsAll /\ ViewersAll

\* The inductive invariant of the delivery (websocket_manager.py, webrtc_routes.py,
\* registry.py, publisher.py 284-362, orchestrator.py 654-715).
THEOREM DeliveryInvariant == Spec => []DeliveryInv
<1>1. Init => DeliveryInv
  <2> SUFFICES ASSUME Init PROVE DeliveryInv
    OBVIOUS
  <2> USE DEF Init, WebSocketsInit, PeersInit
  <2>1. SocketTypes /\ SocketsInv
    BY DEF SocketTypes, SocketsInv
  <2>2. PeerTypes /\ PeersInv
    BY DEF PeerTypes, PeersInv, Over
  <2>3. Number = 0 /\ bundles \in Seq(SUBSET Viewable)
    BY EmptySeq DEF Number
  <2>4. BundleTypes
    BY <2>3, DeliveryAssumption DEF BundleTypes
  <2>5. FramesInv
    BY <2>3 DEF FramesInv, LastOf
  <2>6. Left = {} /\ Cardinality({}) = 0
    BY FS_EmptySet DEF Left
  <2>7. gauge = 0 /\ conn = {}
    OBVIOUS
  <2>8. GaugeDrift
    BY <2>6, <2>7 DEF GaugeDrift
  <2> QED BY <2>1, <2>2, <2>4, <2>5, <2>8 DEF DeliveryInv, SocketsAll, ViewersAll
<1>2. DeliveryInv /\ [Next]_vars => DeliveryInv'
  BY SocketsKept, ViewersKept DEF DeliveryInv, ViewersAll
<1> QED BY <1>1, <1>2, PTL DEF Spec

\* Every variable of the delivery keeps its type.
THEOREM DeliveryTypes == Spec => []TypeOK
<1>1. DeliveryInv => TypeOK
  <2> SUFFICES ASSUME DeliveryInv PROVE TypeOK
    OBVIOUS
  <2> USE DEF DeliveryInv, SocketsAll, ViewersAll
  <2>1. Cardinality(Sockets) \in Nat
    BY SocketsAssumption, FS_CardinalityType
  <2>2. gauge \in 0 .. Cardinality(Sockets)
    BY <2>1, SetsAreFinite DEF GaugeDrift
  <2> QED BY <2>2 DEF TypeOK, SocketTypes, PeerTypes, BundleTypes
<1> QED BY <1>1, DeliveryInvariant, PTL

\* A client that has always read stays registered until it leaves, and by the time a task
\* is done with a message for its camera it has got it, unless the worker that sends it is
\* closed; no client gets a message of another camera (websocket_manager.py:63, 85,
\* publisher.py:355, orchestrator.py:692).
THEOREM NothingEverMissed == Spec => []NothingMissed
<1>1. DeliveryInv => NothingMissed
  BY DEF DeliveryInv, SocketsAll, SocketsInv, NothingMissed
<1> QED BY <1>1, DeliveryInvariant, PTL

\* A viewer is shown the last frame of its camera, however late it joins (registry.py:51,
\* 86).
THEOREM LastFrameAlwaysShown == Spec => []LastFrameShown
<1>1. DeliveryInv => LastFrameShown
  <2> SUFFICES ASSUME DeliveryInv, NEW p \in tracks
               PROVE  Shown(p) = MaxOf({n \in 1 .. Number : watch[p] \in bundles[n]})
    BY DEF LastFrameShown
  <2> USE DEF DeliveryInv, ViewersAll
  <2> DEFINE c == watch[p]
             S == {n \in 1 .. Number : c \in bundles[n]}
  <2>1. Number \in Nat
    BY LenProperties DEF BundleTypes, Number
  <2>2. latest[p] \in Nat /\ LastOf(latest[p], c)
    BY DEF FramesInv, PeerTypes
  <2>3. CASE S = {}
    <3>1. latest[p] = 0
      BY <2>1, <2>2, <2>3 DEF LastOf
    <3> QED BY <2>3, <3>1 DEF Shown, MaxOf
  <2>4. CASE S # {}
    <3>1. latest[p] \in S /\ \A m \in S : m <= latest[p]
      BY <2>1, <2>2, <2>4 DEF LastOf
    <3>2. \A n \in S : (\A m \in S : m <= n) => n = latest[p]
      BY <2>1, <3>1
    <3> HIDE DEF S
    <3>3. (CHOOSE n \in S : \A m \in S : m <= n) = latest[p]
      BY <3>1, <3>2
    <3> QED BY <2>4, <3>3 DEF Shown, MaxOf, S
  <2> QED BY <2>3, <2>4
<1> QED BY <1>1, DeliveryInvariant, PTL

\* The gauge never falls below the registered clients, whoever removes a socket and however
\* often.  (It exceeds them by the clients that have left without having asked for a
\* camera, which is GaugeDrift: websocket_manager.py:38, 87.)
THEOREM GaugeNeverTooLow == Spec => []GaugeNeverUndercounts
<1>1. DeliveryInv => GaugeNeverUndercounts
  BY SetsAreFinite DEF DeliveryInv, SocketsAll, GaugeDrift, GaugeNeverUndercounts
<1> QED BY <1>1, DeliveryInvariant, PTL

\* No connection, track or socket is left behind by the offer, the callback, the cleanup
\* and the route that share the work of forgetting it (webrtc_routes.py:52, 120, 153,
\* stream_routes.py:97).
THEOREM NothingEverLeaked == Spec => []NothingLeaked
<1>1. DeliveryInv => NothingLeaked
  BY DEF DeliveryInv, SocketsAll, ViewersAll, PeersInv, SocketsInv, NothingLeaked
<1> QED BY <1>1, DeliveryInvariant, PTL

-----------------------------------------------------------------------------
(* The capture worker: its types.                                          *)

USE ParametersAssumption DEF Handles

\* Every variable of a capture worker keeps its type.
THEOREM CaptureTypes == CaptureSpec => []CaptureTypeOK
<1>1. CaptureInit => CaptureTypeOK
  <2> SUFFICES ASSUME CaptureInit PROVE CaptureTypeOK
    OBVIOUS
  <2>1. up \in BOOLEAN /\ running \in BOOLEAN /\ joined \in BOOLEAN
    BY DEF CaptureInit
  <2>2. failures \in 0 .. MaxFailures /\ capture \in Handles \cup {NoHandle} /\ late \in 0 .. 2
    BY DEF CaptureInit
  <2> QED BY <2>1, <2>2 DEF CaptureInit, CaptureTypeOK
<1>2. CaptureTypeOK /\ [CaptureNext]_capvars => CaptureTypeOK'
  <2> SUFFICES ASSUME CaptureTypeOK, [CaptureNext]_capvars
               PROVE  CaptureTypeOK'
    OBVIOUS
  <2> USE DEF CaptureTypeOK, source, handles
  <2>1. CASE Thread
    <3>1. CASE LoopTop \/ Check
      BY <3>1 DEF LoopTop, Check, At
    <3>4. CASE OpenFails \/ Read
      BY <3>4 DEF OpenFails, Read, At
    <3>5. CASE ReadFails
      BY <3>5 DEF ReadFails, At
    <3>6. CASE Publish
      <4>1. late' \in 0 .. 2
        BY <3>6 DEF Publish
      <4> QED BY <3>6, <4>1 DEF Publish, At
    <3>2. CASE Open
      BY <3>2 DEF Open, At
    <3>3. CASE Failed \/ Release \/ Forget \/ Sleep
      BY <3>3 DEF Failed, Release, Forget, Sleep, At
    <3> QED BY <2>1, <3>1, <3>2, <3>3, <3>4, <3>5, <3>6 DEF Thread
  <2>2. CASE Stop \/ Stopping
    BY <2>2 DEF Stop, Stopping, StopAt, Join, StopCheck, StopRelease, StopForget
  <2>3. CASE SourceFails
    <3>1. up' \in BOOLEAN /\ UNCHANGED <<running, joined>>
      BY <2>3 DEF SourceFails
    <3>2. failures' \in 0 .. MaxFailures
      BY <2>3 DEF SourceFails
    <3> QED BY <2>3, <3>1, <3>2 DEF SourceFails
  <2>5. CASE SourceRecovers
    BY <2>5 DEF SourceRecovers
  <2>4. CASE UNCHANGED capvars
    BY <2>4 DEF capvars
  <2> QED BY <2>1, <2>2, <2>3, <2>4, <2>5 DEF CaptureNext
<1> QED BY <1>1, <1>2, PTL DEF CaptureSpec

-----------------------------------------------------------------------------
(* The inductive invariant of the capture worker.                          *)

\* As long as stop does not touch the handle the thread is alone with it: it opens
\* one only if it has none, and forgets only what it has released.
ThreadAlone ==
  spc \in {"none", "joining"} =>
    /\ open \subseteq {capture}
    /\ tpc \in {"opening", "forget"} => capture \notin open

Flagged == running <=> spc = "none"

\* After a join that saw the thread end stop is alone with the handle.
StopAlone ==
  joined =>
    /\ tpc = "ended"
    /\ spc \in {"checking", "releasing", "forgetting", "returned"}
    /\ open \subseteq {capture}
    /\ spc = "releasing" => capture # NoHandle
    /\ spc \in {"forgetting", "returned"} => open = {}

\* The thread that has published after stop looks at the flag next.
LastFrame == late # 0 => late = 1 /\ spc = "returned" /\ tpc \in {"loop", "ended"}

CaptureInv == ThreadAlone /\ Flagged /\ StopAlone /\ LastFrame

LEMMA ThreadKeepsInv ==
  ASSUME CaptureTypeOK, CaptureInv, Thread
  PROVE  CaptureInv'
<1> USE DEF CaptureTypeOK, CaptureInv, ThreadAlone, Flagged, StopAlone, LastFrame, At, source, handles
<1>1. CASE LoopTop
  BY <1>1 DEF LoopTop
<1>2. CASE Check
  BY <1>2 DEF Check
<1>3. CASE Open
  BY <1>3 DEF Open
<1>4. CASE OpenFails
  BY <1>4 DEF OpenFails
<1>9. CASE Read
  BY <1>9 DEF Read
<1>10. CASE ReadFails
  BY <1>10 DEF ReadFails
<1>5. CASE Publish
  BY <1>5 DEF Publish
<1>6. CASE Failed
  BY <1>6 DEF Failed
<1>11. CASE Sleep
  BY <1>11 DEF Sleep
<1>7. CASE Release
  BY <1>7 DEF Release
<1>8. CASE Forget
  BY <1>8 DEF Forget
<1> QED BY <1>1, <1>2, <1>3, <1>4, <1>5, <1>6, <1>7, <1>8, <1>9, <1>10, <1>11 DEF Thread

LEMMA StopKeepsInv ==
  ASSUME CaptureTypeOK, CaptureInv, Stop \/ Stopping
  PROVE  CaptureInv'
<1> USE DEF CaptureTypeOK, CaptureInv, ThreadAlone, Flagged, StopAlone, LastFrame, StopAt, source, handles
<1>1. CASE Stop
  BY <1>1 DEF Stop
<1>2. CASE Join
  BY <1>2 DEF Join
<1>3. CASE StopCheck
  BY <1>3 DEF StopCheck
<1>4. CASE StopRelease
  BY <1>4 DEF StopRelease
<1>5. CASE StopForget
  BY <1>5 DEF StopForget
<1> QED BY <1>1, <1>2, <1>3, <1>4, <1>5 DEF Stopping

\* The inductive invariant of the worker: what the thread and a stop under way may rely on
\* at each of their steps (capture.py 73-168).
THEOREM CaptureInvariant == CaptureSpec => []CaptureInv
<1>1. CaptureInit => CaptureInv
  BY DEF CaptureInit, CaptureInv, ThreadAlone, Flagged, StopAlone, LastFrame
<1>2. CaptureTypeOK /\ CaptureInv /\ [CaptureNext]_capvars => CaptureInv'
  <2> SUFFICES ASSUME CaptureTypeOK, CaptureInv, [CaptureNext]_capvars
               PROVE  CaptureInv'
    OBVIOUS
  <2>1. CASE Thread
    BY <2>1, ThreadKeepsInv
  <2>2. CASE Stop \/ Stopping
    BY <2>2, StopKeepsInv
  <2>3. CASE SourceFails \/ SourceRecovers
    BY <2>3 DEF SourceFails, SourceRecovers, CaptureInv, ThreadAlone, Flagged, StopAlone,
                LastFrame, handles
  <2>4. CASE UNCHANGED capvars
    BY <2>4 DEF capvars, handles, CaptureInv, ThreadAlone, Flagged, StopAlone, LastFrame
  <2> QED BY <2>1, <2>2, <2>3, <2>4 DEF CaptureNext
<1> QED BY <1>1, <1>2, CaptureTypes, PTL DEF CaptureSpec

-----------------------------------------------------------------------------
(* Theorems about the capture worker.                                      *)

\* Until it is stopped the worker holds at most the session it knows of, however often
\* its source fails (capture.py 106-168).
THEOREM SessionsNeverPileUp == CaptureSpec => []OneSession
<1>1. CaptureInv => OneSession
  BY DEF CaptureInv, ThreadAlone, OneSession
<1> QED BY <1>1, CaptureInvariant, PTL

\* stop returns with the handle released if the thread ended during the join, and a thread
\* that outlives it publishes one more frame at most (capture.py 81-90).
THEOREM StopAlwaysTakesEffect == CaptureSpec => []StopTakesEffect
<1>1. CaptureTypeOK /\ CaptureInv => StopTakesEffect
  BY DEF CaptureTypeOK, CaptureInv, StopAlone, LastFrame, StopTakesEffect
<1> QED BY <1>1, CaptureTypes, CaptureInvariant, PTL
=============================================================================
