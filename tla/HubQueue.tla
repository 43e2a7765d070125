------------------------------ MODULE HubQueue ------------------------------
(***************************************************************************)
(* hub_queue.c: the ring buffer behind every in-process packet queue of    *)
(* the hub (door manager: doors_to_clients_queue; intercom server:         *)
(* clients_to_doors_queue and one outbox per connection).                  *)
(*                                                                         *)
(* Threads call hub_queue_enqueue and hub_queue_dequeue concurrently.      *)
(* Each call is split into the steps between which the scheduler may       *)
(* preempt its thread; only the queue's mutex keeps callers apart.         *)
(***************************************************************************)
EXTENDS Naturals, Sequences

CONSTANTS
  Threads,    \* the threads that share the queue
  Packets,    \* the packets they may enqueue
  NoPacket,   \* a slot or a buffer nothing was stored in yet
  NoThread,   \* the owner of a free mutex
  Capacity    \* the capacity given to hub_queue_create

ASSUME HubQueueAssumption ==
  /\ Capacity \in Nat \ {0}
  /\ NoPacket \notin Packets
  /\ NoThread \notin Threads

VARIABLES
  mutex,      \* the thread inside queue->mutex, or NoThread
  length,     \* queue->length
  head_idx,   \* queue->head_idx
  tail_idx,   \* queue->tail_idx
  contents,   \* queue->contents
  pc,         \* pc[t]: the next step of t's call
  src,        \* src[t]: the packet t passes to its enqueue
  dst,        \* dst[t]: the buffer t's dequeue copies into
  ret         \* ret[t]: how t's last call ended (the sign of its result)

vars == <<mutex, length, head_idx, tail_idx, contents, pc, src, dst, ret>>

Slots == 0 .. Capacity - 1

\* The index after i in the ring.
Following(i) == IF i + 1 >= Capacity THEN 0 ELSE i + 1

\* hub_queue_create: an empty queue over memory malloc did not initialise.
Init ==
  /\ mutex = NoThread
  /\ length = 0
  /\ head_idx = 0
  /\ tail_idx = 0
  /\ contents = [i \in Slots |-> NoPacket]
  /\ pc = [t \in Threads |-> "idle"]
  /\ src = [t \in Threads |-> NoPacket]
  /\ dst = [t \in Threads |-> NoPacket]
  /\ ret = [t \in Threads |-> "none"]

GoTo(t, from, to) ==
  /\ pc[t] = from
  /\ pc' = [pc EXCEPT ![t] = to]

Ring == <<length, head_idx, tail_idx, contents>>

-----------------------------------------------------------------------------
(* hub_queue_enqueue                                                       *)

\* pthread_mutex_lock at the top of an enqueue of packet p.
EnqueueLock(t, p) ==
  /\ GoTo(t, "idle", "enqueue")
  /\ mutex = NoThread
  /\ mutex' = t
  /\ src' = [src EXCEPT ![t] = p]
  /\ UNCHANGED <<Ring, dst, ret>>

\* Mutant: the tail always moves on, even into an empty ring.
EnqueueTailNoRestart(t) ==
  /\ GoTo(t, "enqueue", "store")
  /\ length < Capacity
  /\ tail_idx' = Following(tail_idx)
  /\ UNCHANGED <<mutex, length, head_idx, contents, src, dst, ret>>

\* Mutant: the full queue is reported without unlocking the mutex.
EnqueueFullNoUnlock(t) ==
  /\ GoTo(t, "enqueue", "idle")
  /\ length >= Capacity
  /\ ret' = [ret EXCEPT ![t] = "refused"]
  /\ UNCHANGED <<mutex, Ring, src, dst>>

\* The queue is full: unlock and return -1.
EnqueueFull(t) ==
  /\ GoTo(t, "enqueue", "idle")
  /\ length >= Capacity
  /\ mutex' = NoThread
  /\ ret' = [ret EXCEPT ![t] = "refused"]
  /\ UNCHANGED <<Ring, src, dst>>

\* increment_tail: an empty ring restarts at slot 0.
EnqueueTail(t) ==
  /\ GoTo(t, "enqueue", "store")
  /\ length < Capacity
  /\ tail_idx' = IF length = 0 THEN 0 ELSE Following(tail_idx)
  /\ head_idx' = IF length = 0 THEN 0 ELSE head_idx
  /\ UNCHANGED <<mutex, length, contents, src, dst, ret>>

\* The packet is copied into the tail slot.
EnqueueStore(t) ==
  /\ GoTo(t, "store", "count")
  /\ contents' = [contents EXCEPT ![tail_idx] = src[t]]
  /\ UNCHANGED <<mutex, length, head_idx, tail_idx, src, dst, ret>>

\* The packet is counted; the result is the new length.
EnqueueCount(t) ==
  /\ GoTo(t, "count", "unlock")
  /\ length' = length + 1
  /\ ret' = [ret EXCEPT ![t] = "accepted"]
  /\ UNCHANGED <<mutex, head_idx, tail_idx, contents, src, dst>>

-----------------------------------------------------------------------------
(* hub_queue_dequeue                                                       *)

\* pthread_mutex_lock at the top of a dequeue.
DequeueLock(t) ==
  /\ GoTo(t, "idle", "dequeue")
  /\ mutex = NoThread
  /\ mutex' = t
  /\ UNCHANGED <<Ring, src, dst, ret>>

\* The queue is empty: unlock and return -1.
DequeueEmpty(t) ==
  /\ GoTo(t, "dequeue", "idle")
  /\ length <= 0
  /\ mutex' = NoThread
  /\ ret' = [ret EXCEPT ![t] = "empty"]
  /\ UNCHANGED <<Ring, src, dst>>

\* The head packet is copied out.
DequeueCopy(t) ==
  /\ GoTo(t, "dequeue", "shrink")
  /\ length > 0
  /\ dst' = [dst EXCEPT ![t] = contents[head_idx]]
  /\ ret' = [ret EXCEPT ![t] = "taken"]
  /\ UNCHANGED <<mutex, Ring, src>>

DequeueShrink(t) ==
  /\ GoTo(t, "shrink", "advance")
  /\ length' = length - 1
  /\ UNCHANGED <<mutex, head_idx, tail_idx, contents, src, dst, ret>>

\* increment_head, after the decrement: a ring emptied by this call restarts
\* at slot 0.
DequeueAdvance(t) ==
  /\ GoTo(t, "advance", "unlock")
  /\ head_idx' = IF length = 0 THEN 0 ELSE Following(head_idx)
  /\ tail_idx' = IF length = 0 THEN 0 ELSE tail_idx
  /\ UNCHANGED <<mutex, length, contents, src, dst, ret>>

\* pthread_mutex_unlock at the end of a successful call.
Unlock(t) ==
  /\ GoTo(t, "unlock", "idle")
  /\ mutex' = NoThread
  /\ UNCHANGED <<Ring, src, dst, ret>>

-----------------------------------------------------------------------------

\* The steps of a call that is already inside the mutex.
Inside(t) ==
  \/ EnqueueFull(t) \/ EnqueueTail(t) \/ EnqueueStore(t) \/ EnqueueCount(t)
  \/ DequeueEmpty(t) \/ DequeueCopy(t) \/ DequeueShrink(t) \/ DequeueAdvance(t)
  \/ Unlock(t)

Next ==
  \E t \in Threads :
    \/ \E p \in Packets : EnqueueLock(t, p)
    \/ DequeueLock(t)
    \/ Inside(t)

Spec == Init /\ [][Next]_vars

\* A thread that holds the mutex is scheduled again: it waits for nothing
\* inside the critical section.  Nothing is assumed of threads outside it.
FairSpec == Spec /\ \A t \in Threads : WF_vars(Inside(t))

-----------------------------------------------------------------------------
(* Properties                                                              *)

Steps == {"idle", "enqueue", "store", "count",
          "dequeue", "shrink", "advance", "unlock"}

\* Every variable of the queue and of its callers keeps its type; in
\* particular both indices stay inside contents.
TypeOK ==
  /\ mutex \in Threads \cup {NoThread}
  /\ length \in 0 .. Capacity
  /\ head_idx \in Slots
  /\ tail_idx \in Slots
  /\ contents \in [Slots -> Packets \cup {NoPacket}]
  /\ pc \in [Threads -> Steps]
  /\ src \in [Threads -> Packets \cup {NoPacket}]
  /\ dst \in [Threads -> Packets \cup {NoPacket}]
  /\ ret \in [Threads -> {"none", "accepted", "refused", "taken", "empty"}]

\* At most one thread is inside a call, and it is the one that owns the
\* mutex (the lock and unlock pairs of both functions, the early returns
\* included).
OneInside == \A t \in Threads : pc[t] # "idle" <=> mutex = t

\* The slot reached from the head after n steps (n at most Capacity).
SlotAt(h, n) == IF h + n >= Capacity THEN h + n - Capacity ELSE h + n

At(step) == \E t \in Threads : pc[t] = step

\* The number of packets the ring's indices span.  Mid-call it differs from
\* length: tail_idx moves before an enqueue counts its packet, head_idx moves
\* after a dequeue has uncounted it.
Span ==
  IF At("store") \/ At("count") \/ At("advance") THEN length + 1 ELSE length

\* The indices and the length agree at every step of every call: the tail
\* is the slot of the last packet of the span, and the slots of the counted
\* packets were all written.
RingAgrees ==
  /\ Span <= Capacity
  /\ Span > 0 => tail_idx = SlotAt(head_idx, Span - 1)
  /\ At("store") \/ At("count") \/ At("shrink") => Span > 0
  /\ \A n \in 0 .. Capacity - 1 :
       n < Span /\ ~(At("store") /\ n = Span - 1)
         => contents[SlotAt(head_idx, n)] \in Packets
  /\ \A t \in Threads : pc[t] = "count" => contents[tail_idx] = src[t]
  /\ \A t \in Threads : pc[t] \in {"enqueue", "store", "count"} => src[t] \in Packets

\* The abstract queue: a packet is in it from the moment it is counted until
\* the moment it is copied out, whatever the indices say in between.
Leaving == At("shrink") \/ At("advance")
FirstSlot == IF Leaving THEN SlotAt(head_idx, 1) ELSE head_idx
Stored == IF At("shrink") THEN length - 1 ELSE length

Queued == [n \in 1 .. Stored |-> contents[SlotAt(FirstSlot, n - 1)]]

Fifo == INSTANCE BoundedFifo
          WITH fifo    <- Queued,
               got     <- dst,
               outcome <- ret

\* Seen from its callers the ring is a bounded first-in first-out queue: it
\* loses, repeats and reorders nothing, refuses only when full and comes up
\* empty only when empty, whatever the interleaving of the calls.
ImplementsFifo == Fifo!Spec

\* No call keeps the mutex: each of the four ways out unlocks it, so the
\* threads waiting for the queue are never all blocked for good.
MutexReleased == \A t \in Threads : (mutex = t) ~> (mutex # t)
=============================================================================
