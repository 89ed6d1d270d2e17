---------------------------- MODULE TrackEvents ----------------------------
(***************************************************************************)
(* What the subscribers of identity.events may rely on.  Of every local    *)
(* track the service emits an identity, perhaps another one later, and     *)
(* finally that it has expired; a merge names the identity emitted before. *)
(* Every event is a message of its own, which may be lost, and messages    *)
(* that are under way together may arrive in any order.  What a subscriber *)
(* is told of a track makes sense as long as neither has happened, and     *)
(* again from the first event on that is emitted with no other under way.  *)
(* IdentityLifecycle implements this specification.                        *)
(***************************************************************************)
CONSTANTS Tracks, Ids, None, Senders

VARIABLES
  known,  (* The identity of each track by the events emitted so far.      *)
  flight, (* The messages under way: events with their sender.             *)
  told,   (* The identity of each track by the events that have arrived.   *)
  trust   (* Whether the subscribers know of each track what was emitted.  *)

vars == <<known, flight, told, trust>>

Event == [kind : {"created", "updated", "merged", "expired"}, track : Tracks, id : Ids,
          previous : Ids \cup {None}]

Message == [by : Senders, event : Event]

\* "sure": every event has arrived, in its order, or is under way alone.  "lost": one has
\* not, and the next one will do.  "crossed": two have been under way together.
Trust == {"sure", "lost", "crossed"}

Init ==
  /\ known = [t \in Tracks |-> None]
  /\ flight = {}
  /\ told = [t \in Tracks |-> None]
  /\ trust = [t \in Tracks |-> "sure"]

\* Does e make sense to somebody who knows `view` of the tracks?
Legal(view, e) ==
  CASE e.kind = "created" -> view[e.track] = None
    [] e.kind = "updated" -> view[e.track] \in {None, e.id}
    [] e.kind = "merged"  -> view[e.track] = e.previous /\ e.previous # e.id
    [] e.kind = "expired" -> view[e.track] = e.id

Says(e) == IF e.kind = "expired" THEN None ELSE e.id

Of(messages, t) == {m \in messages : m.event.track = t}

\* What somebody knows who has been given the messages.
After(view, messages) ==
  [t \in Tracks |-> IF Of(messages, t) = {} THEN view[t]
                    ELSE Says((CHOOSE m \in Of(messages, t) : TRUE).event)]

Sent(messages) ==
  /\ flight' = flight \cup messages
  /\ trust' = [t \in Tracks |->
                 IF Of(messages, t) = {} THEN trust[t]
                 ELSE IF Of(flight, t) # {} THEN "crossed"
                 ELSE IF trust[t] = "sure" THEN "sure" ELSE "lost"]

Received(m) ==
  /\ flight' = flight \ {m}
  /\ told' = After(told, {m})
  /\ trust' = [trust EXCEPT ![m.event.track] = IF @ = "lost" THEN "sure" ELSE @]

Lost(messages) ==
  /\ flight' = flight \ messages
  /\ trust' = [t \in Tracks |->
                 IF Of(messages, t) # {} /\ trust[t] = "sure" THEN "lost" ELSE trust[t]]

\* Events of these tracks are lost before they become messages.
Dropped(tracks) ==
  /\ trust' = [t \in Tracks |-> IF t \notin tracks THEN trust[t]
                                ELSE IF Of(flight, t) # {} THEN "crossed" ELSE "lost"]
  /\ UNCHANGED flight

-----------------------------------------------------------------------------

Emit(messages) ==
  /\ messages \subseteq Message
  /\ \A m \in messages : Legal(known, m.event)
  /\ \A m, n \in messages : m.event.track = n.event.track => m = n
  /\ known' = After(known, messages)
  /\ Sent(messages)
  /\ UNCHANGED told

Deliver(m) ==
  /\ trust[m.event.track] = "sure" => Legal(told, m.event)
  /\ Received(m)
  /\ UNCHANGED known

Lose(messages) ==
  /\ Lost(messages)
  /\ UNCHANGED <<known, told>>

Drop(tracks) ==
  /\ \A t \in Tracks \ tracks : known'[t] = known[t]
  /\ Dropped(tracks)
  /\ UNCHANGED told

Next ==
  \/ Emit(flight' \ flight)
  \/ \E m \in flight : Deliver(m)
  \/ \E messages \in SUBSET flight : Lose(messages)
  \/ \E tracks \in SUBSET Tracks : Drop(tracks)

Spec == Init /\ [][Next]_vars
=============================================================================
