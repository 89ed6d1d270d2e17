---------------------------- MODULE FrameBuffer ----------------------------
(***************************************************************************)
(* The buffer between the capture threads and the asyncio pipeline loop    *)
(* (backend/src/opencv_pipeline/buffering/frame_buffer.py).                *)
(*                                                                         *)
(* One capture thread per camera publishes frames; the event loop takes    *)
(* them.  Frame pixels live in a bounded pool of shared-memory slots, so a *)
(* publication is not atomic: it acquires a slot, copies the pixels, puts  *)
(* the packet into a queue.Queue and schedules asyncio.Event.set on the    *)
(* loop, and any other thread may run between two of these steps.          *)
(*                                                                         *)
(* Every action is one critical section of the code (a block under the     *)
(* queue's mutex or the store's condition) or one lock-free read or copy.  *)
(* The order of the deque of available slots is abstracted: acquire takes  *)
(* any of them.                                                            *)
(***************************************************************************)
EXTENDS Integers, Sequences, FiniteSets

CONSTANTS
  Cameras,          (* The cameras, each with one capture thread.          *)
  Policies,         (* The drop policies a buffer may be configured with.  *)
  QueueSize,        (* Capacity of the queue: max(maxsize, 1).             *)
  MaxSlots,         (* Shared-memory slots the store may create.           *)
  UseSharedMemory,  (* Whether the buffer has a shared-memory store.       *)
  MaxFrames         (* Bound of the model: frames each thread captures.    *)

ASSUME CamerasAssumption == Cameras # {} /\ IsFiniteSet(Cameras)
ASSUME PoliciesAssumption == Policies \subseteq {"drop_oldest", "drop_newest", "block"}
ASSUME QueueSizeAssumption == QueueSize \in Nat \ {0}
ASSUME MaxSlotsAssumption == MaxSlots \in Nat \ {0}
ASSUME SharedMemoryAssumption == UseSharedMemory \in BOOLEAN
ASSUME MaxFramesAssumption == MaxFrames \in Nat

VARIABLES
  policy,     (* _drop_policy, fixed when the buffer is built.             *)
  queue,      (* _queue: the packets waiting for the loop.                 *)
  slots,      (* _slots: slot id -> the frame last copied into it.         *)
  available,  (* _available: ids of the slots ready to be reused.          *)
  inUse,      (* _in_use: ids of the slots some packet owns.               *)
  nextSlot,   (* _next_slot_id.                                            *)
  attached,   (* TRUE iff _shared_store is not None.                       *)
  leaked,     (* Segments the store has forgotten without unlinking them.  *)
  pc,         (* Where each capture thread is inside publish.              *)
  pkt,        (* The packet each thread is publishing.                     *)
  victim,     (* The packet each thread has evicted and must release.      *)
  armed,      (* TRUE iff get has created _event and cached _loop.         *)
  event,      (* The state of the asyncio.Event.                           *)
  setCalls,   (* event.set calls scheduled on the loop and not yet run.    *)
  cpc,        (* Where the event loop is: in get, discarding, closing...   *)
  held,       (* Packets get returned whose release is still to come.      *)
  doomed,     (* Packets a discard or a close took out, yet to be released.*)
  drained     (* close's local list of every packet it took out.           *)

store == <<slots, available, inUse, nextSlot>>
signal == <<armed, event, setCalls>>
loop == <<cpc, held, doomed, drained>>
vars == <<policy, queue, store, attached, leaked, pc, pkt, victim, signal, loop>>

NoSlot == -1

Packet == [cam : Cameras, seq : Nat, slot : Nat \cup {NoSlot}]

Frame(p) == [cam |-> p.cam, seq |-> p.seq]

NoPacket(c) == [cam |-> c, seq |-> 0, slot |-> NoSlot]

PublisherStates ==
  {"idle", "acquire", "awaitSlot", "evictForSlot", "releaseForSlot", "reacquire",
   "write", "put", "awaitSpace", "blockingPut", "evictForSpace", "releaseForSpace",
   "retryPut", "releaseOwn", "wakeup"}

\* Inside publish with a packet whose pixels are in its slot.
Holding ==
  {"put", "awaitSpace", "blockingPut", "evictForSpace", "releaseForSpace", "retryPut",
   "releaseOwn", "wakeup"}

LoopStates ==
  {"out", "try", "clear", "recheck", "wait", "discarding", "draining", "unlinking", "closed"}

Init ==
  /\ policy \in Policies
  /\ queue = <<>>
  /\ slots = <<>>
  /\ available = {}
  /\ inUse = {}
  /\ nextSlot = 0
  /\ attached = UseSharedMemory
  /\ leaked = {}
  /\ pc = [c \in Cameras |-> "idle"]
  /\ pkt = [c \in Cameras |-> NoPacket(c)]
  /\ victim = [c \in Cameras |-> NoPacket(c)]
  /\ armed = FALSE
  /\ event = FALSE
  /\ setCalls = 0
  /\ cpc = "out"
  /\ held = {}
  /\ doomed = {}
  /\ drained = {}

-----------------------------------------------------------------------------
(* The shared-memory store and the two condition variables.                *)

\* Condition.notify: one of the threads parked in `parked` runs on in `resumed`.
NotifyOne(parked, resumed, threads) ==
  LET waiting == {w \in Cameras : threads[w] = parked}
  IN  IF waiting = {}
      THEN pc' = threads
      ELSE \E w \in waiting : pc' = [threads EXCEPT ![w] = resumed]

\* Condition.notify_all on the queue's not_full.
NotifyAllFull(threads) ==
  pc' = [w \in Cameras |-> IF threads[w] = "awaitSpace" THEN "blockingPut" ELSE threads[w]]

\* Fault: the id is read from the pool but left in it.
TakeAvailablePeeked(c) ==
  \E s \in available :
    /\ inUse' = inUse \cup {s}
    /\ pkt' = [pkt EXCEPT ![c].slot = s]
    /\ UNCHANGED <<available, slots, nextSlot>>

\* acquire(): reuse an available slot, else create one while there are fewer
\* than MaxSlots.
TakeAvailable(c) ==
  \E s \in available :
    /\ available' = available \ {s}
    /\ inUse' = inUse \cup {s}
    /\ pkt' = [pkt EXCEPT ![c].slot = s]
    /\ UNCHANGED <<slots, nextSlot>>

CreateSlot(c) ==
  /\ available = {}
  /\ Cardinality(DOMAIN slots) < MaxSlots
  /\ nextSlot' = nextSlot + 1
  /\ slots' = [s \in DOMAIN slots \cup {nextSlot} |-> IF s = nextSlot
                                                     THEN Frame(NoPacket(c)) ELSE slots[s]]
  /\ inUse' = inUse \cup {nextSlot}
  /\ pkt' = [pkt EXCEPT ![c].slot = nextSlot]
  /\ UNCHANGED available

AcquireSlot(c) == TakeAvailable(c) \/ CreateSlot(c)

SlotsExhausted == available = {} /\ Cardinality(DOMAIN slots) >= MaxSlots

\* Fault: the slot goes back to the pool but nobody is notified.
ReleaseUnnotified(p, threads) ==
  /\ inUse' = inUse \ {p.slot}
  /\ available' = IF p.slot \in inUse THEN available \cup {p.slot} ELSE available
  /\ UNCHANGED <<slots, nextSlot>>
  /\ pc' = threads

\* FramePacket.release of packet p by a thread that leaves the program counters
\* in `threads`: the store ignores a slot that is not in use, else it returns
\* the slot to the pool and notifies one thread waiting for a slot.
Release(p, threads) ==
  IF p.slot \in inUse
  THEN /\ inUse' = inUse \ {p.slot}
       /\ available' = available \cup {p.slot}
       /\ UNCHANGED <<slots, nextSlot>>
       /\ NotifyOne("awaitSlot", "acquire", threads)
  ELSE /\ UNCHANGED store
       /\ pc' = threads

\* Fault: the newest packet is taken instead of the oldest.
DequeueNewest(threads) ==
  /\ queue # <<>>
  /\ queue' = SubSeq(queue, 1, Len(queue) - 1)
  /\ NotifyOne("awaitSpace", "blockingPut", threads)

\* get_nowait by a thread that leaves the program counters in `threads`.
Dequeue(threads) ==
  /\ queue # <<>>
  /\ queue' = Tail(queue)
  /\ NotifyOne("awaitSpace", "blockingPut", threads)

Goto(c, label) == [pc EXCEPT ![c] = label]

\* publish returns or raises: its local variables are gone.
ForgetLocals(c) ==
  /\ pkt' = [pkt EXCEPT ![c].slot = NoSlot]
  /\ victim' = [victim EXCEPT ![c] = NoPacket(c)]

-----------------------------------------------------------------------------
(* publish(), run by the capture thread of camera c.                       *)

\* publish is called with the next frame and reads self._shared_store: without
\* a store the packet is queued as it is.
Capture(c) ==
  /\ pc[c] = "idle"
  /\ pkt[c].seq < MaxFrames
  /\ pkt' = [pkt EXCEPT ![c].seq = @ + 1]
  /\ pc' = Goto(c, IF attached THEN "acquire" ELSE "put")
  /\ UNCHANGED <<policy, queue, store, attached, leaked, victim, signal, loop>>

\* The first acquire: it waits for a slot only under the blocking policy.
Acquire(c) ==
  /\ pc[c] = "acquire"
  /\ \/ /\ AcquireSlot(c)
        /\ pc' = Goto(c, "write")
     \/ /\ SlotsExhausted
        /\ pc' = Goto(c, CASE policy = "block" -> "awaitSlot"
                           [] policy = "drop_oldest" -> "evictForSlot"
                           [] policy = "drop_newest" -> "idle")
        /\ UNCHANGED <<store, pkt>>
  /\ UNCHANGED <<policy, queue, attached, leaked, victim, signal, loop>>

\* No slot left: take the oldest queued packet, or give the new frame up.
EvictForSlot(c) ==
  /\ pc[c] = "evictForSlot"
  /\ \/ /\ Dequeue(Goto(c, "releaseForSlot"))
        /\ victim' = [victim EXCEPT ![c] = Head(queue)]
     \/ /\ queue = <<>>
        /\ pc' = Goto(c, "idle")
        /\ UNCHANGED <<queue, victim>>
  /\ UNCHANGED <<policy, store, attached, leaked, pkt, signal, loop>>

ReleaseForSlot(c) ==
  /\ pc[c] = "releaseForSlot"
  /\ Release(victim[c], Goto(c, "reacquire"))
  /\ UNCHANGED <<policy, queue, attached, leaked, pkt, victim, signal, loop>>

\* The second acquire never waits: another thread may have taken the slot.
Reacquire(c) ==
  /\ pc[c] = "reacquire"
  /\ \/ /\ AcquireSlot(c)
        /\ pc' = Goto(c, "write")
        /\ UNCHANGED victim
     \/ /\ SlotsExhausted
        /\ pc' = Goto(c, "idle")
        /\ ForgetLocals(c)
        /\ UNCHANGED store
  /\ UNCHANGED <<policy, queue, attached, leaked, signal, loop>>

\* The pixels are copied outside any lock.  A slot that close() dropped in the
\* meantime is a KeyError, which the capture worker catches.  Either way
\* _prepare_packet ends here and its local evicted packet with it.
Write(c) ==
  /\ pc[c] = "write"
  /\ \/ /\ pkt[c].slot \in DOMAIN slots
        /\ slots' = [slots EXCEPT ![pkt[c].slot] = Frame(pkt[c])]
        /\ pc' = Goto(c, "put")
        /\ victim' = [victim EXCEPT ![c] = NoPacket(c)]
        /\ UNCHANGED pkt
     \/ /\ pkt[c].slot \notin DOMAIN slots
        /\ pc' = Goto(c, "idle")
        /\ ForgetLocals(c)
        /\ UNCHANGED slots
  /\ UNCHANGED <<policy, queue, available, inUse, nextSlot, attached, leaked, signal, loop>>

Enqueue(c) ==
  /\ Len(queue) < QueueSize
  /\ queue' = Append(queue, pkt[c])
  /\ pc' = Goto(c, "wakeup")

\* put_nowait, and what each policy does when the queue is full.
Put(c) ==
  /\ pc[c] = "put"
  /\ \/ Enqueue(c)
     \/ /\ Len(queue) >= QueueSize
        /\ pc' = Goto(c, CASE policy = "block" -> "blockingPut"
                           [] policy = "drop_oldest" -> "evictForSpace"
                           [] policy = "drop_newest" -> "releaseOwn")
        /\ UNCHANGED queue
  /\ UNCHANGED <<policy, store, attached, leaked, pkt, victim, signal, loop>>

\* The blocking put of the queue: wait on not_full while the queue is full.
BlockingPut(c) ==
  /\ pc[c] = "blockingPut"
  /\ \/ Enqueue(c)
     \/ /\ Len(queue) >= QueueSize
        /\ pc' = Goto(c, "awaitSpace")
        /\ UNCHANGED queue
  /\ UNCHANGED <<policy, store, attached, leaked, pkt, victim, signal, loop>>

\* drop_oldest: take one packet out; the queue may be empty by now.
EvictForSpace(c) ==
  /\ pc[c] = "evictForSpace"
  /\ \/ /\ Dequeue(Goto(c, "releaseForSpace"))
        /\ victim' = [victim EXCEPT ![c] = Head(queue)]
     \/ /\ queue = <<>>
        /\ pc' = Goto(c, "retryPut")
        /\ victim' = [victim EXCEPT ![c] = NoPacket(c)]
        /\ UNCHANGED queue
  /\ UNCHANGED <<policy, store, attached, leaked, pkt, signal, loop>>

\* Fault: the new packet is released in place of the evicted one.
ReleaseForSpaceWrongPacket(c) ==
  /\ pc[c] = "releaseForSpace"
  /\ Release(pkt[c], Goto(c, "retryPut"))
  /\ UNCHANGED <<policy, queue, attached, leaked, pkt, victim, signal, loop>>

ReleaseForSpace(c) ==
  /\ pc[c] = "releaseForSpace"
  /\ Release(victim[c], Goto(c, "retryPut"))
  /\ UNCHANGED <<policy, queue, attached, leaked, pkt, victim, signal, loop>>

\* The second put_nowait: another thread may have filled the queue again.
RetryPut(c) ==
  /\ pc[c] = "retryPut"
  /\ \/ Enqueue(c)
     \/ /\ Len(queue) >= QueueSize
        /\ pc' = Goto(c, "releaseOwn")
        /\ UNCHANGED queue
  /\ UNCHANGED <<policy, store, attached, leaked, pkt, victim, signal, loop>>

\* Fault: a rejected packet keeps its slot.
ReleaseOwnForgotten(c) ==
  /\ pc[c] = "releaseOwn"
  /\ pc' = Goto(c, "idle")
  /\ ForgetLocals(c)
  /\ UNCHANGED <<policy, queue, store, attached, leaked, signal, loop>>

ReleaseOwn(c) ==
  /\ pc[c] = "releaseOwn"
  /\ Release(pkt[c], Goto(c, "idle"))
  /\ ForgetLocals(c)
  /\ UNCHANGED <<policy, queue, attached, leaked, signal, loop>>

\* _wakeup: schedule event.set on the loop, if the loop has called get.
Wakeup(c) ==
  /\ pc[c] = "wakeup"
  /\ setCalls' = IF armed THEN setCalls + 1 ELSE setCalls
  /\ pc' = Goto(c, "idle")
  /\ ForgetLocals(c)
  /\ UNCHANGED <<policy, queue, store, attached, leaked, armed, event, loop>>

Publish(c) ==
  \/ Capture(c) \/ Acquire(c) \/ EvictForSlot(c) \/ ReleaseForSlot(c) \/ Reacquire(c)
  \/ Write(c) \/ Put(c) \/ BlockingPut(c) \/ EvictForSpace(c) \/ ReleaseForSpace(c)
  \/ RetryPut(c) \/ ReleaseOwn(c) \/ Wakeup(c)

-----------------------------------------------------------------------------
(* The event loop: get, the release of delivered packets, discard_camera   *)
(* and close.  Only the loop's thread takes these steps.                   *)

OnePerCamera(packets) == \A p, q \in packets : p.cam = q.cam => p = q

\* Fault: get creates the event but does not cache the loop for the threads.
StartGetLoopless ==
  /\ cpc = "out"
  /\ OnePerCamera(held)
  /\ cpc' = "try"
  /\ UNCHANGED <<policy, queue, store, attached, leaked, pc, pkt, victim, signal,
                 held, doomed, drained>>

\* get() is entered: it creates the event and caches the loop.  The loop hands a packet
\* to the synchronizer before it does anything else with the buffer, and there it
\* replaces and releases the packet retained for its camera.
StartGet ==
  /\ cpc = "out"
  /\ OnePerCamera(held)
  /\ cpc' = "try"
  /\ armed' = TRUE
  /\ UNCHANGED <<policy, queue, store, attached, leaked, pc, pkt, victim, event, setCalls,
                 held, doomed, drained>>

\* get_nowait: return the head of the queue, or go on to wait.
TryGet ==
  /\ cpc = "try"
  /\ \/ /\ Dequeue(pc)
        /\ held' = held \cup {Head(queue)}
        /\ cpc' = "out"
     \/ /\ queue = <<>>
        /\ cpc' = "clear"
        /\ UNCHANGED <<queue, pc, held>>
  /\ UNCHANGED <<policy, store, attached, leaked, pkt, victim, signal, doomed, drained>>

ClearEvent ==
  /\ cpc = "clear"
  /\ event' = FALSE
  /\ cpc' = "recheck"
  /\ UNCHANGED <<policy, queue, store, attached, leaked, pc, pkt, victim, armed, setCalls,
                 held, doomed, drained>>

\* The queue is looked at once more between event.clear and event.wait.
Recheck ==
  /\ cpc = "recheck"
  /\ cpc' = IF queue # <<>> THEN "try" ELSE "wait"
  /\ UNCHANGED <<policy, queue, store, attached, leaked, pc, pkt, victim, signal,
                 held, doomed, drained>>

\* A scheduled event.set runs whenever the loop is not inside synchronous code.
RunSetCall ==
  /\ cpc \in {"out", "wait"}
  /\ setCalls > 0
  /\ setCalls' = setCalls - 1
  /\ event' = TRUE
  /\ UNCHANGED <<policy, queue, store, attached, leaked, pc, pkt, victim, armed, loop>>

ResumeGet ==
  /\ cpc = "wait"
  /\ event
  /\ cpc' = "try"
  /\ UNCHANGED <<policy, queue, store, attached, leaked, pc, pkt, victim, signal,
                 held, doomed, drained>>

\* The user of the buffer releases a packet it was given.  It may retain the newest
\* packet of a camera for ever (synchronizer.py 32-37).
ReleaseHeld(p) ==
  /\ cpc \in {"out", "wait"}
  /\ p \in held
  /\ held' = held \ {p}
  /\ Release(p, pc)
  /\ UNCHANGED <<policy, queue, attached, leaked, pkt, victim, signal, cpc, doomed, drained>>

\* The positions S in their order, one by one (there is one enumeration).
Enumerations(S) ==
  {f \in [1 .. Cardinality(S) -> S] :
     /\ \A i, j \in DOMAIN f : i < j => f[i] < f[j]
     /\ \A s \in S : \E i \in DOMAIN f : f[i] = s}

\* discard_camera: one pass under the queue's mutex takes out the camera's
\* packets, and wakes the publishers waiting for space if there were any.
Discard(c) ==
  /\ cpc = "out"
  /\ OnePerCamera(held)
  /\ \E kept \in Enumerations({i \in DOMAIN queue : queue[i].cam # c}) :
       queue' = [i \in DOMAIN kept |-> queue[kept[i]]]
  /\ doomed' = {queue[i] : i \in {j \in DOMAIN queue : queue[j].cam = c}}
  /\ IF doomed' # {} THEN NotifyAllFull(pc) ELSE pc' = pc
  /\ cpc' = "discarding"
  /\ UNCHANGED <<policy, store, attached, leaked, pkt, victim, signal, held, drained>>

\* close: drain the queue and wake every publisher waiting for space.
Close ==
  /\ cpc = "out"
  /\ OnePerCamera(held)
  /\ drained' = {queue[i] : i \in DOMAIN queue}
  /\ doomed' = drained'
  /\ queue' = <<>>
  /\ NotifyAllFull(pc)
  /\ cpc' = "draining"
  /\ UNCHANGED <<policy, store, attached, leaked, pkt, victim, signal, held>>

ReleaseDoomed(p) ==
  /\ cpc \in {"discarding", "draining"}
  /\ p \in doomed
  /\ doomed' = doomed \ {p}
  /\ Release(p, pc)
  /\ UNCHANGED <<policy, queue, attached, leaked, pkt, victim, signal, cpc, held, drained>>

EndDiscard ==
  /\ cpc = "discarding"
  /\ doomed = {}
  /\ cpc' = "out"
  /\ UNCHANGED <<policy, queue, store, attached, leaked, pc, pkt, victim, signal,
                 held, doomed, drained>>

\* The store's close forgets every slot under its lock ...
ClearStore ==
  /\ cpc = "draining"
  /\ doomed = {}
  /\ leaked' = leaked \cup DOMAIN slots
  /\ slots' = <<>>
  /\ available' = {}
  /\ inUse' = {}
  /\ cpc' = "unlinking"
  /\ UNCHANGED <<policy, queue, nextSlot, attached, pc, pkt, victim, signal,
                 held, doomed, drained>>

\* ... and unlinks their segments in the order they were created.  Closing a
\* segment some packet still has a view of raises BufferError: that segment is
\* unlinked, but the loop ends there and the buffer keeps its store.
Viewed ==
  LET published == {pkt[c] : c \in {d \in Cameras : pc[d] \in Holding}}
      evicted == {victim[c] : c \in {d \in Cameras : pc[d] # "idle"}}
  IN  {p.slot : p \in drained \cup held \cup published \cup evicted} \cap leaked

Unlink ==
  /\ cpc = "unlinking"
  /\ leaked' = {s \in leaked : \E v \in Viewed : v < s}
  /\ attached' = (Viewed # {} /\ attached)
  /\ drained' = {}
  /\ cpc' = "closed"
  /\ UNCHANGED <<policy, queue, store, pc, pkt, victim, signal, held, doomed>>

Consume ==
  \/ StartGet \/ TryGet \/ ClearEvent \/ Recheck \/ RunSetCall \/ ResumeGet
  \/ \E p \in held : ReleaseHeld(p)

Tidy ==
  \/ \E c \in Cameras : Discard(c)
  \/ \E p \in doomed : ReleaseDoomed(p)
  \/ EndDiscard \/ Close \/ ClearStore \/ Unlink

Next == (\E c \in Cameras : Publish(c)) \/ Consume \/ Tidy

Spec == Init /\ [][Next]_vars

Superseded(p) == \E q \in held : q.cam = p.cam /\ q.seq > p.seq

\* Threads and the loop keep running; the loop calls get again and again, and a packet
\* is released once a newer one of its camera is delivered, not before.
FairSpec ==
  /\ Spec
  /\ \A c \in Cameras : WF_vars(Publish(c))
  /\ SF_vars(StartGet)
  /\ WF_vars(TryGet) /\ WF_vars(ClearEvent) /\ WF_vars(Recheck) /\ WF_vars(ResumeGet)
  /\ WF_vars(RunSetCall)
  /\ WF_vars(\E p \in held : Superseded(p) /\ ReleaseHeld(p))
  /\ WF_vars(\E p \in doomed : ReleaseDoomed(p))
  /\ WF_vars(EndDiscard) /\ WF_vars(ClearStore) /\ WF_vars(Unlink)

-----------------------------------------------------------------------------
(* Properties.                                                             *)

\* Every variable has its type, and the queue respects its bound.
TypeOK ==
  /\ policy \in Policies
  /\ queue \in Seq(Packet)
  /\ Len(queue) <= QueueSize
  /\ DOMAIN slots \subseteq Nat
  /\ slots \in [DOMAIN slots -> [cam : Cameras, seq : Nat]]
  /\ available \subseteq Nat
  /\ inUse \subseteq Nat
  /\ nextSlot \in Nat
  /\ attached \in BOOLEAN
  /\ leaked \subseteq Nat
  /\ pc \in [Cameras -> PublisherStates]
  /\ pkt \in [Cameras -> Packet]
  /\ victim \in [Cameras -> Packet]
  /\ armed \in BOOLEAN
  /\ event \in BOOLEAN
  /\ setCalls \in Nat
  /\ cpc \in LoopStates
  /\ held \subseteq Packet
  /\ doomed \subseteq Packet
  /\ drained \subseteq Packet

\* Who may read or write a slot: the thread publishing into it, the thread that
\* evicted its packet, the queue, and the event loop.
Publishing(c) == pc[c] \in (Holding \cup {"write"}) \ {"wakeup"}

Evicting(c) == pc[c] \in {"releaseForSlot", "releaseForSpace"}

OnLoop == held \cup doomed

Owners(s) ==
  {<<"queue", i>> : i \in {j \in DOMAIN queue : queue[j].slot = s}}
    \cup {<<"publisher", c>> : c \in {d \in Cameras : Publishing(d) /\ pkt[d].slot = s}}
    \cup {<<"evictor", c>> : c \in {d \in Cameras : Evicting(d) /\ victim[d].slot = s}}
    \cup {<<"loop", p>> : p \in {q \in OnLoop : q.slot = s}}

\* No slot is ever owned twice: whatever the threads do between two lock
\* acquisitions, a slot handed out by acquire has no other owner, and a slot in
\* the pool has none (frame_buffer.py 44-59, 78-86).
NoSlotShared ==
  /\ \A s \in 0 .. nextSlot - 1 : \A o1, o2 \in Owners(s) : o1 = o2
  /\ \A s \in available : Owners(s) = {}

\* No slot is ever lost: a slot the store counts as in use has an owner that
\* will release it, on every early return of publish (158-222).
NoSlotLost == \A s \in inUse : Owners(s) # {}

\* A queued or delivered packet shows the frame it was captured with, never a
\* frame another thread has copied over it meanwhile.
FrameIntegrity ==
  \A p \in {queue[i] : i \in DOMAIN queue} \cup held :
    p.slot \in DOMAIN slots => slots[p.slot] = Frame(p)

Parked == {"awaitSlot", "awaitSpace"}

\* No wake-up is lost on any of the three conditions.  The loop is never parked in
\* event.wait over a queued frame (235-250 against 224-233): the event is set, or a
\* scheduled call will set it, or the thread that queued the frame has yet to schedule it.
\* A publisher is never parked by a free slot (54-86) or by free space in the queue,
\* whoever made it free, unless some thread is on its way to take it.
NoLostWakeup ==
  /\ cpc = "wait" /\ queue # <<>> =>
       event \/ setCalls > 0 \/ \E c \in Cameras : pc[c] = "wakeup"
  /\ \A c \in Cameras :
       /\ pc[c] = "awaitSlot" /\ available # {} => \E d \in Cameras : pc[d] = "acquire"
       /\ pc[c] = "awaitSpace" /\ Len(queue) < QueueSize =>
            \E d \in Cameras : pc[d] = "blockingPut"

\* The loop and the publishers never all wait for each other: while the loop waits for a
\* frame and a publisher for a slot or for space, a wake-up of the loop is on its way or
\* a thread is inside publish.  The loop may retain a packet of every camera for ever,
\* so the store must have more slots than there are cameras.
NeverAllWaiting ==
  MaxSlots > Cardinality(Cameras) /\ cpc = "wait" /\ (\E c \in Cameras : pc[c] \in Parked) =>
    \/ event \/ setCalls > 0
    \/ \E c \in Cameras : pc[c] \notin Parked \cup {"idle"}

\* A publisher that asks for a slot while nothing is queued that it could evict finds one,
\* and so does not lose its frame, whatever the others own at that moment: the loop a
\* packet of every camera and the one it has just taken out, every other thread its packet
\* and one it has evicted.  Three slots per camera are enough; two are not
\* (frame_buffer.py 204-216).  A discard under way may own more.
PublisherNeverStarved ==
  MaxSlots >= 3 * Cardinality(Cameras) /\ queue = <<>> /\ doomed = {} =>
    \A c \in Cameras : pc[c] \in {"acquire", "reacquire"} => ~SlotsExhausted

\* A publisher blocked on a full queue or an exhausted store (policy block) is resumed,
\* as long as the loop keeps calling get and the buffer is not closed, although the loop
\* retains the newest packet of a camera until it gets another.  With no more slots than
\* cameras it is not: every slot may be retained.
BlockedPublisherResumes ==
  \A c \in Cameras :
    pc[c] \in {"awaitSlot", "awaitSpace"}
      ~> (pc[c] \notin {"awaitSlot", "awaitSpace"} \/ cpc = "closed")

\* The buffer is a bounded lossy queue that delivers each camera's frames in
\* capture order and at most once: it implements FrameQueue.
Frames == INSTANCE FrameQueue WITH
  pending <- [i \in DOMAIN queue |-> Frame(queue[i])],
  captured <- [c \in Cameras |-> pkt[c].seq],
  offering <- {c \in Cameras : pc[c] \notin {"idle", "wakeup"}}

ImplementsFrameQueue == Frames!Spec

\* close() reclaims every shared-memory segment: "Release queued packets and
\* clean up shared-memory resources." (frame_buffer.py 283).
CloseReclaimsSegments == cpc = "closed" => leaked = {} /\ DOMAIN slots = {}
=============================================================================
