--------------------------- MODULE PeerConnections --------------------------
(***************************************************************************)
(* The WebRTC viewers: the offer that creates a peer connection with its   *)
(* track, the callback that cleans up after it, and the frames pushed to   *)
(* the tracks (backend/src/routes/webrtc_routes.py, services/webrtc/).     *)
(*                                                                         *)
(* The registry's lock is never waited for: nothing is awaited under it.   *)
(***************************************************************************)
EXTENDS Naturals, FiniteSets

CONSTANTS
  Peers,    (* One for every offer.                                        *)
  Viewable  (* The cameras with frames.                                    *)

VARIABLES
  watch,    (* The camera of an offer.                                     *)
  offer,    (* "none", "listing", "answering", "answered" or "failed".     *)
  state,    (* connectionState: "none", "new", "connected", "failed",
               "disconnected", "closed".                                   *)
  changed,  (* The connections whose state-change callback is due.         *)
  closing,  (* The connections that a cleanup closes.                      *)
  pcs,      (* _active_pcs                                                 *)
  tracks,   (* _tracks of the registry, by their connection.               *)
  latest,   (* _latest_frame of a track, 0 for none.                       *)
  cached    (* _last_frames of the registry.                               *)

pcvars == <<watch, offer, state, changed, closing, pcs, tracks, latest, cached>>

Over == {"failed", "disconnected", "closed"}

PeersInit ==
  /\ watch \in [Peers -> Viewable]
  /\ offer = [p \in Peers |-> "none"]
  /\ state = [p \in Peers |-> "none"]
  /\ changed = {} /\ closing = {} /\ pcs = {} /\ tracks = {}
  /\ latest = [p \in Peers |-> 0]
  /\ cached = [c \in Viewable |-> 0]

Offer(p) ==
  /\ offer[p] = "none"
  /\ offer' = [offer EXCEPT ![p] = "listing"]
  /\ UNCHANGED <<watch, state, changed, closing, pcs, tracks, latest, cached>>

\* The camera is not active, or the listing fails.
Refuse(p) ==
  /\ offer[p] = "listing"
  /\ offer' = [offer EXCEPT ![p] = "failed"]
  /\ UNCHANGED <<watch, state, changed, closing, pcs, tracks, latest, cached>>

\* The track, seeded with the cached frame, and the connection.
Create(p) ==
  /\ offer[p] = "listing"
  /\ offer' = [offer EXCEPT ![p] = "answering"]
  /\ state' = [state EXCEPT ![p] = "new"]
  /\ tracks' = tracks \cup {p} /\ pcs' = pcs \cup {p}
  /\ latest' = [latest EXCEPT ![p] = cached[watch[p]]]
  /\ UNCHANGED <<watch, changed, closing, cached>>

\* _cleanup up to its await; called a second time it does nothing more.
Cleanup(p) ==
  /\ pcs' = pcs \ {p}
  /\ tracks' = tracks \ {p}
  /\ closing' = IF state[p] = "closed" THEN closing ELSE closing \cup {p}
  /\ UNCHANGED <<watch, state, latest, cached>>

\* The answer is returned, complete or after ten seconds of gathering.
Answer(p) ==
  /\ offer[p] = "answering"
  /\ offer' = [offer EXCEPT ![p] = "answered"]
  /\ UNCHANGED <<watch, state, changed, closing, pcs, tracks, latest, cached>>

AnswerFails(p) ==
  /\ offer[p] = "answering"
  /\ offer' = [offer EXCEPT ![p] = "failed"]
  /\ Cleanup(p)
  /\ UNCHANGED changed

\* The connection is made, and lost; each time the callback is called.
StateChanges(p) ==
  /\ \/ state[p] = "new" /\ offer[p] # "failed" /\ state' = [state EXCEPT ![p] = "connected"]
     \/ state[p] \in {"new", "connected"}
        /\ \E to \in Over : state' = [state EXCEPT ![p] = to]
  /\ changed' = changed \cup {p}
  /\ UNCHANGED <<watch, offer, closing, pcs, tracks, latest, cached>>

\* Fault: only a connection that is closed is cleaned up.
CallbackClosedOnly(p) ==
  /\ p \in changed
  /\ changed' = changed \ {p}
  /\ IF state[p] = "closed" THEN Cleanup(p)
     ELSE UNCHANGED <<watch, state, closing, pcs, tracks, latest, cached>>
  /\ UNCHANGED offer

Callback(p) ==
  /\ p \in changed
  /\ changed' = changed \ {p}
  /\ IF state[p] \in Over THEN Cleanup(p)
     ELSE UNCHANGED <<watch, state, closing, pcs, tracks, latest, cached>>
  /\ UNCHANGED offer

\* pc.close changes the state, for which the callback is called again.
Close(p) ==
  /\ p \in closing
  /\ closing' = closing \ {p}
  /\ state' = [state EXCEPT ![p] = "closed"]
  /\ changed' = IF state[p] = "closed" THEN changed ELSE changed \cup {p}
  /\ UNCHANGED <<watch, offer, pcs, tracks, latest, cached>>

\* push_frame caches the frame of bundle n of each of the cameras and hands it to the
\* tracks; nothing is awaited between two of them.
Push(cameras, n) ==
  /\ cached' = [c \in Viewable |-> IF c \in cameras THEN n ELSE cached[c]]
  /\ latest' = [p \in Peers |-> IF p \in tracks /\ watch[p] \in cameras THEN n ELSE latest[p]]
  /\ UNCHANGED <<watch, offer, state, changed, closing, pcs, tracks>>

\* What recv hands to the sender: the latest frame; black, which is 0, before the first.
Shown(p) == latest[p]

Viewers(p) == Refuse(p) \/ Create(p) \/ AnswerFails(p) \/ StateChanges(p)
Handling(p) == Answer(p) \/ Callback(p) \/ Close(p)
=============================================================================
