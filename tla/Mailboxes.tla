----------------------------- MODULE Mailboxes ------------------------------
(***************************************************************************)
(* What the latest-only queue of the inference ingress promises: a bounded *)
(* FIFO queue with one mailbox per waiting person.  A batch for a person   *)
(* who waits replaces the one in the mailbox and keeps its place; a batch  *)
(* for another person goes to the end, or is lost if the queue is full.    *)
(* The batch that is served is the content of the first mailbox.           *)
(***************************************************************************)
EXTENDS Integers, Sequences

CONSTANTS
  Persons,
  Batches,   (* What a mailbox may hold.                                   *)
  QueueMax   (* How many persons may wait; 0 means any number.             *)

VARIABLES
  waiting,   (* The mailboxes, in the order in which they are served.      *)
  serving    (* The batch being served, or <<>>.                           *)

Init == waiting = <<>> /\ serving = <<>>

\* Some batch replaces the content of one mailbox.
Replace ==
  /\ Len(waiting') = Len(waiting)
  /\ \E i \in DOMAIN waiting :
       /\ waiting' = [waiting EXCEPT ![i].batch = waiting'[i].batch]
       /\ waiting'[i].batch \in Batches
  /\ UNCHANGED serving

\* Some batch opens a mailbox for a person who has none, at the end.
Register(p) ==
  /\ \A i \in DOMAIN waiting : waiting[i].person # p
  /\ QueueMax > 0 => Len(waiting) < QueueMax
  /\ Len(waiting') = Len(waiting) + 1
  /\ waiting' = Append(waiting, [person |-> p, batch |-> waiting'[Len(waiting')].batch])
  /\ waiting'[Len(waiting')].batch \in Batches
  /\ UNCHANGED serving

Deliver ==
  /\ serving = <<>>
  /\ waiting # <<>>
  /\ serving' = Head(waiting).batch
  /\ serving' # <<>>
  /\ waiting' = Tail(waiting)

Done == serving' = <<>> /\ UNCHANGED waiting

Next == Replace \/ (\E p \in Persons : Register(p)) \/ Deliver \/ Done

Spec == Init /\ [][Next]_<<waiting, serving>>
=============================================================================
