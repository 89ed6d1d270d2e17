---------------------------- MODULE FrameQueue -----------------------------
(***************************************************************************)
(* What FrameBuffer promises to the pipeline, without its threads, slots   *)
(* and wake-ups: a bounded, lossy queue.  A camera offers its frames one   *)
(* at a time, numbered in capture order.  An offer is accepted at the tail *)
(* while there is room, or it is lost; a queued frame leaves at the head,  *)
(* delivered or evicted, or with all the frames of its camera.  Nothing is *)
(* invented, duplicated or reordered.                                      *)
(***************************************************************************)
EXTENDS Integers, Sequences

CONSTANTS
  Cameras,
  QueueSize   (* How many frames may wait.                                 *)

VARIABLES
  pending,    (* The waiting frames, oldest first.                         *)
  captured,   (* Per camera, the number of its newest frame.               *)
  offering    (* The cameras whose newest frame is being offered.          *)

vars == <<pending, captured, offering>>

Init ==
  /\ pending = <<>>
  /\ captured = [c \in Cameras |-> 0]
  /\ offering = {}

Offer(c) ==
  /\ c \notin offering
  /\ captured' = [captured EXCEPT ![c] = @ + 1]
  /\ offering' = offering \cup {c}
  /\ UNCHANGED pending

Accept(c) ==
  /\ c \in offering
  /\ Len(pending) < QueueSize
  /\ pending' = Append(pending, [cam |-> c, seq |-> captured[c]])
  /\ offering' = offering \ {c}
  /\ UNCHANGED captured

Lose(c) ==
  /\ c \in offering
  /\ offering' = offering \ {c}
  /\ UNCHANGED <<pending, captured>>

TakeHead ==
  /\ pending # <<>>
  /\ pending' = Tail(pending)
  /\ UNCHANGED <<captured, offering>>

\* The first n numbers enumerate the positions S in their order.
Enumerates(f, n, S) ==
  /\ f \in [1 .. n -> S]
  /\ \A i, j \in 1 .. n : i < j => f[i] < f[j]
  /\ \A s \in S : \E i \in 1 .. n : f[i] = s

\* The frames of the other cameras stay, in their order.
DropCamera(c) ==
  /\ \E n \in 0 .. Len(pending) : \E kept \in [1 .. n -> DOMAIN pending] :
       /\ Enumerates(kept, n, {i \in DOMAIN pending : pending[i].cam # c})
       /\ pending' = [i \in 1 .. n |-> pending[kept[i]]]
  /\ UNCHANGED <<captured, offering>>

DropAll ==
  /\ pending' = <<>>
  /\ UNCHANGED <<captured, offering>>

Next ==
  \/ \E c \in Cameras : Offer(c) \/ Accept(c) \/ Lose(c) \/ DropCamera(c)
  \/ TakeHead
  \/ DropAll

Spec == Init /\ [][Next]_vars
=============================================================================
