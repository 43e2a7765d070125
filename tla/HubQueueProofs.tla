--------------------------- MODULE HubQueueProofs ---------------------------
(***************************************************************************)
(* For any threads, any packets and any capacity: the queue of             *)
(* hub_queue.c keeps its types, admits one caller at a time, keeps its     *)
(* indices and its length in agreement at every step of every call.        *)
(***************************************************************************)
EXTENDS HubQueue, TLAPS

\* The inductive invariant.  RingAgrees is not inductive alone: that a step
\* of one caller leaves the others' view of the ring intact needs that the
\* others are idle (OneInside), and the arithmetic needs the types.
IInv == TypeOK /\ OneInside /\ RingAgrees

-----------------------------------------------------------------------------

\* While t is inside, only t's program counter says what is in progress.
LEMMA OnlyInside ==
  ASSUME TypeOK, OneInside, NEW t \in Threads, pc[t] # "idle",
         NEW step \in Steps \ {"idle"}
  PROVE  At(step) <=> pc[t] = step
  BY HubQueueAssumption DEF At, OneInside, TypeOK

\* While nobody is inside, nothing is in progress.
LEMMA NobodyInside ==
  ASSUME OneInside, mutex = NoThread, NEW step \in Steps \ {"idle"}
  PROVE  ~At(step)
  BY HubQueueAssumption DEF At, OneInside

\* The ring's slots: n steps from a slot is a slot, n distinct steps give n
\* distinct slots, and stepping on from the next slot is one step more.
LEMMA SlotArithmetic ==
  ASSUME NEW h \in Slots
  PROVE  /\ \A n \in 0 .. Capacity : SlotAt(h, n) \in Slots
         /\ \A m, n \in 0 .. Capacity - 1 : SlotAt(h, m) = SlotAt(h, n) => m = n
         /\ SlotAt(h, 0) = h
         /\ Following(h) \in Slots
         /\ SlotAt(h, 1) = Following(h)
         /\ \A n \in 0 .. Capacity - 1 : SlotAt(Following(h), n) = SlotAt(h, n + 1)
         /\ \A n \in 0 .. Capacity - 1 : Following(SlotAt(h, n)) = SlotAt(h, n + 1)
  BY HubQueueAssumption DEF Slots, SlotAt, Following

-----------------------------------------------------------------------------

LEMMA InitIInv == Init => IInv
  BY HubQueueAssumption DEF Init, IInv, TypeOK, OneInside, RingAgrees, Slots, Steps, Span, At

\* Taking and returning the mutex disturbs neither the types nor OneInside,
\* and no other step moves the mutex.
LEMMA TypeOKStep == IInv /\ [Next]_vars => TypeOK' /\ OneInside'
<1> SUFFICES ASSUME IInv, [Next]_vars
             PROVE  TypeOK' /\ OneInside'
  OBVIOUS
<1> USE HubQueueAssumption DEF IInv, GoTo, Ring, Steps
<1>1. ASSUME NEW t \in Threads, NEW p \in Packets, EnqueueLock(t, p)
      PROVE  TypeOK' /\ OneInside'
  BY <1>1 DEF EnqueueLock, TypeOK, OneInside
<1>2. ASSUME NEW t \in Threads, DequeueLock(t)
      PROVE  TypeOK' /\ OneInside'
  BY <1>2 DEF DequeueLock, TypeOK, OneInside
<1>3. ASSUME NEW t \in Threads, EnqueueFull(t)
      PROVE  TypeOK' /\ OneInside'
  BY <1>3 DEF EnqueueFull, TypeOK, OneInside
<1>4. ASSUME NEW t \in Threads, EnqueueTail(t)
      PROVE  TypeOK' /\ OneInside'
  BY <1>4 DEF EnqueueTail, TypeOK, OneInside, Slots, Following
<1>5. ASSUME NEW t \in Threads, EnqueueStore(t)
      PROVE  TypeOK' /\ OneInside'
  BY <1>5 DEF EnqueueStore, TypeOK, OneInside
<1>6. ASSUME NEW t \in Threads, EnqueueCount(t)
      PROVE  TypeOK' /\ OneInside'
  <2>1. length + 1 <= Capacity
    BY <1>6, OnlyInside DEF EnqueueCount, RingAgrees, Span, At
  <2> QED
    BY <1>6, <2>1 DEF EnqueueCount, TypeOK, OneInside
<1>7. ASSUME NEW t \in Threads, DequeueEmpty(t)
      PROVE  TypeOK' /\ OneInside'
  BY <1>7 DEF DequeueEmpty, TypeOK, OneInside
<1>8. ASSUME NEW t \in Threads, DequeueCopy(t)
      PROVE  TypeOK' /\ OneInside'
  BY <1>8 DEF DequeueCopy, TypeOK, OneInside
<1>9. ASSUME NEW t \in Threads, DequeueShrink(t)
      PROVE  TypeOK' /\ OneInside'
  <2>1. length > 0
    BY <1>9, OnlyInside DEF DequeueShrink, RingAgrees, Span
  <2> QED
    BY <1>9, <2>1 DEF DequeueShrink, TypeOK, OneInside
<1>10. ASSUME NEW t \in Threads, DequeueAdvance(t)
       PROVE  TypeOK' /\ OneInside'
  BY <1>10 DEF DequeueAdvance, TypeOK, OneInside, Slots, Following
<1>11. ASSUME NEW t \in Threads, Unlock(t)
       PROVE  TypeOK' /\ OneInside'
  BY <1>11 DEF Unlock, TypeOK, OneInside
<1>12. CASE UNCHANGED vars
  BY <1>12 DEF vars, TypeOK, OneInside
<1> QED
  BY <1>1, <1>2, <1>3, <1>4, <1>5, <1>6, <1>7, <1>8, <1>9, <1>10, <1>11, <1>12
  DEF Next, Inside

-----------------------------------------------------------------------------

\* What RingAgrees says when nothing is in progress, in progress of t, and
\* after a step of t: stated on the program counter of the one caller inside.
LEMMA RingStep == IInv /\ [Next]_vars => RingAgrees'
<1> SUFFICES ASSUME IInv, [Next]_vars
             PROVE  RingAgrees'
  OBVIOUS
<1> USE HubQueueAssumption DEF IInv, GoTo, Ring
<1>1. TypeOK' /\ OneInside'
  BY TypeOKStep
<1>2. \A t \in Threads : pc'[t] # "idle" =>
        \A step \in Steps \ {"idle"} : At(step)' <=> pc'[t] = step
  BY <1>1 DEF At, OneInside, TypeOK
<1>3. mutex' = NoThread => \A step \in Steps \ {"idle"} : ~At(step)'
  BY <1>1 DEF At, OneInside
<1>4. ASSUME NEW t \in Threads, NEW p \in Packets, EnqueueLock(t, p)
      PROVE  RingAgrees'
  <2>1. pc'[t] = "enqueue" /\ mutex = NoThread
    BY <1>4 DEF EnqueueLock, TypeOK
  <2>2. Span' = Span
    BY <1>2, <1>4, <2>1, NobodyInside DEF EnqueueLock, Span, Steps
  <2> QED
    BY <1>2, <1>4, <2>1, <2>2, NobodyInside
    DEF EnqueueLock, RingAgrees, Steps, SlotAt, TypeOK
<1>5. ASSUME NEW t \in Threads, DequeueLock(t)
      PROVE  RingAgrees'
  <2>1. pc'[t] = "dequeue" /\ mutex = NoThread
    BY <1>5 DEF DequeueLock, TypeOK
  <2>2. Span' = Span
    BY <1>2, <1>5, <2>1, NobodyInside DEF DequeueLock, Span, Steps
  <2> QED
    BY <1>2, <1>5, <2>1, <2>2, NobodyInside
    DEF DequeueLock, RingAgrees, Steps, SlotAt, TypeOK
<1>6. ASSUME NEW t \in Threads, EnqueueFull(t) \/ DequeueEmpty(t) \/ Unlock(t)
      PROVE  RingAgrees'
  <2>1. pc[t] \in {"enqueue", "dequeue", "unlock"} /\ mutex' = NoThread
    BY <1>6 DEF EnqueueFull, DequeueEmpty, Unlock
  <2>2. \A u \in Threads : pc'[u] = "idle"
    BY <1>1, <2>1 DEF OneInside
  <2>3. Span' = Span /\ Span = length
    BY <1>3, <1>6, <2>1, OnlyInside
    DEF EnqueueFull, DequeueEmpty, Unlock, Span, Steps
  <2> QED
    BY <1>3, <1>6, <2>1, <2>2, <2>3, OnlyInside
    DEF EnqueueFull, DequeueEmpty, Unlock, RingAgrees, Steps, SlotAt, TypeOK
<1>7. ASSUME NEW t \in Threads, EnqueueTail(t)
      PROVE  RingAgrees'
  <2>1. pc[t] = "enqueue" /\ pc'[t] = "store"
    BY <1>7 DEF EnqueueTail, TypeOK
  <2>2. Span = length /\ Span' = length + 1
    BY <1>2, <1>7, <2>1, OnlyInside DEF EnqueueTail, Span, Steps
  <2>3. \A u \in Threads : pc'[u] \in {"store", "count"} => u = t
    BY <1>1, <2>1 DEF OneInside
  <2>4. tail_idx' = SlotAt(head_idx', length)
    BY <1>7, <2>2, SlotArithmetic
    DEF EnqueueTail, RingAgrees, TypeOK, SlotAt, Slots, Following
  <2>5. length > 0 => head_idx' = head_idx
    BY <1>7 DEF EnqueueTail, TypeOK
  <2>6. src[t] \in Packets
    BY <2>1 DEF RingAgrees
  <2>7. \A n \in 0 .. Capacity - 1 : n < length =>
          contents'[SlotAt(head_idx', n)] \in Packets
    <3> SUFFICES ASSUME NEW n \in 0 .. Capacity - 1, n < length
                 PROVE  contents'[SlotAt(head_idx', n)] \in Packets
      OBVIOUS
    <3>1. contents' = contents /\ head_idx' = head_idx /\ ~At("store")
      BY <1>7, <2>1, <2>5, OnlyInside DEF EnqueueTail, Steps, TypeOK
    <3> QED
      BY <2>2, <3>1 DEF RingAgrees
  <2> QED
    BY <1>2, <1>7, <2>1, <2>2, <2>3, <2>4, <2>6, <2>7
    DEF EnqueueTail, RingAgrees, Steps, TypeOK
<1>8. ASSUME NEW t \in Threads, EnqueueStore(t)
      PROVE  RingAgrees'
  <2>1. pc[t] = "store" /\ pc'[t] = "count"
    BY <1>8 DEF EnqueueStore, TypeOK
  <2>2. Span = length + 1 /\ Span' = Span
    BY <1>2, <1>8, <2>1, OnlyInside DEF EnqueueStore, Span, Steps
  <2>3. \A u \in Threads : pc'[u] \in {"store", "count"} => u = t
    BY <1>1, <2>1 DEF OneInside
  <2>4. tail_idx = SlotAt(head_idx, length) /\ length < Capacity
    BY <2>2 DEF RingAgrees, TypeOK
  <2>5. contents'[tail_idx] = src[t] /\ src[t] \in Packets
    BY <1>8, <2>1 DEF EnqueueStore, RingAgrees, TypeOK
  <2>6. \A n \in 0 .. Capacity - 1 : n < length =>
          contents'[SlotAt(head_idx, n)] = contents[SlotAt(head_idx, n)]
    <3> SUFFICES ASSUME NEW n \in 0 .. Capacity - 1, n < length
                 PROVE  contents'[SlotAt(head_idx, n)] = contents[SlotAt(head_idx, n)]
      OBVIOUS
    <3>1. length \in 0 .. Capacity - 1 /\ n # length
      BY <2>4 DEF TypeOK
    <3>2. SlotAt(head_idx, n) \in Slots /\ SlotAt(head_idx, n) # SlotAt(head_idx, length)
      BY <3>1 DEF TypeOK, Slots, SlotAt
    <3> QED
      BY <1>8, <2>4, <3>2 DEF EnqueueStore, TypeOK
  <2>7. \A n \in 0 .. Capacity - 1 : n < Span =>
          contents'[SlotAt(head_idx, n)] \in Packets
    <3> SUFFICES ASSUME NEW n \in 0 .. Capacity - 1, n < Span
                 PROVE  contents'[SlotAt(head_idx, n)] \in Packets
      OBVIOUS
    <3>1. CASE n = length
      BY <2>4, <2>5, <3>1
    <3>2. CASE n < length
      BY <2>2, <2>6, <3>2 DEF RingAgrees, TypeOK
    <3> QED
      BY <2>2, <3>1, <3>2 DEF TypeOK
  <2> QED
    BY <1>2, <1>8, <2>1, <2>2, <2>3, <2>4, <2>5, <2>7
    DEF EnqueueStore, RingAgrees, Steps, SlotAt, TypeOK
<1>9. ASSUME NEW t \in Threads, EnqueueCount(t)
      PROVE  RingAgrees'
  <2>1. pc[t] = "count" /\ pc'[t] = "unlock"
    BY <1>9 DEF EnqueueCount, TypeOK
  <2>2. Span = length + 1 /\ Span' = Span
    BY <1>2, <1>9, <2>1, OnlyInside DEF EnqueueCount, Span, Steps
  <2>3. \A u \in Threads : pc'[u] \notin {"store", "count"}
    BY <1>1, <2>1 DEF OneInside
  <2>4. ~At("store")
    BY <2>1, OnlyInside DEF Steps
  <2> QED
    BY <1>2, <1>9, <2>1, <2>2, <2>3, <2>4
    DEF EnqueueCount, RingAgrees, Steps, SlotAt, TypeOK
<1>10. ASSUME NEW t \in Threads, DequeueCopy(t)
       PROVE  RingAgrees'
  <2>1. pc[t] = "dequeue" /\ pc'[t] = "shrink"
    BY <1>10 DEF DequeueCopy, TypeOK
  <2>2. Span = length /\ Span' = Span
    BY <1>2, <1>10, <2>1, OnlyInside DEF DequeueCopy, Span, Steps
  <2>3. \A u \in Threads : pc'[u] \notin {"store", "count"}
    BY <1>1, <2>1 DEF OneInside
  <2>4. ~At("store")
    BY <2>1, OnlyInside DEF Steps
  <2> QED
    BY <1>2, <1>10, <2>1, <2>2, <2>3, <2>4
    DEF DequeueCopy, RingAgrees, Steps, SlotAt, TypeOK
<1>11. ASSUME NEW t \in Threads, DequeueShrink(t)
       PROVE  RingAgrees'
  <2>1. pc[t] = "shrink" /\ pc'[t] = "advance"
    BY <1>11 DEF DequeueShrink, TypeOK
  <2>2. Span = length /\ Span' = Span
    BY <1>2, <1>11, <2>1, OnlyInside DEF DequeueShrink, Span, Steps, TypeOK
  <2>3. \A u \in Threads : pc'[u] \notin {"store", "count"}
    BY <1>1, <2>1 DEF OneInside
  <2>4. ~At("store")
    BY <2>1, OnlyInside DEF Steps
  <2> QED
    BY <1>2, <1>11, <2>1, <2>2, <2>3, <2>4
    DEF DequeueShrink, RingAgrees, Steps, SlotAt, TypeOK
<1>12. ASSUME NEW t \in Threads, DequeueAdvance(t)
       PROVE  RingAgrees'
  <2>1. pc[t] = "advance" /\ pc'[t] = "unlock"
    BY <1>12 DEF DequeueAdvance, TypeOK
  <2>2. Span = length + 1 /\ Span' = length
    BY <1>2, <1>12, <2>1, OnlyInside DEF DequeueAdvance, Span, Steps
  <2>3. \A u \in Threads : pc'[u] \notin {"store", "count"}
    BY <1>1, <2>1 DEF OneInside
  <2>4. ~At("store")
    BY <2>1, OnlyInside DEF Steps
  <2>5. tail_idx = SlotAt(head_idx, length) /\ length < Capacity
    BY <2>2 DEF RingAgrees, TypeOK
  <2>6. CASE length = 0
    BY <1>2, <1>12, <2>1, <2>2, <2>3, <2>6 DEF DequeueAdvance, RingAgrees, Steps
  <2>7. CASE length > 0
    <3>1. head_idx' = Following(head_idx) /\ tail_idx' = tail_idx
      BY <1>12, <2>7 DEF DequeueAdvance, TypeOK
    <3>2. \A n \in 0 .. Capacity - 2 : SlotAt(head_idx', n) = SlotAt(head_idx, n + 1)
      BY <3>1, SlotArithmetic DEF TypeOK
    <3>3. \A n \in 0 .. Capacity - 1 :
            n < length => contents[SlotAt(head_idx', n)] \in Packets
      BY <2>2, <2>4, <2>5, <3>2 DEF RingAgrees, TypeOK
    <3>4. tail_idx' = SlotAt(head_idx', length - 1)
      BY <2>5, <2>7, <3>1, <3>2 DEF TypeOK
    <3> QED
      BY <1>2, <1>12, <2>1, <2>2, <2>3, <2>5, <3>3, <3>4
      DEF DequeueAdvance, RingAgrees, Steps, SlotAt, TypeOK
  <2> QED
    BY <2>6, <2>7 DEF TypeOK
<1>13. CASE UNCHANGED vars
  BY <1>13 DEF vars, RingAgrees, Span, At, SlotAt
<1> QED
  BY <1>4, <1>5, <1>6, <1>7, <1>8, <1>9, <1>10, <1>11, <1>12, <1>13
  DEF Next, Inside
-----------------------------------------------------------------------------

\* The types, the mutual exclusion and the agreement of the ring hold in
\* every reachable state, for every capacity and any number of threads.
THEOREM Invariance == Spec => []IInv
<1>1. Init => IInv
  BY InitIInv
<1>2. IInv /\ [Next]_vars => IInv'
  BY TypeOKStep, RingStep DEF IInv
<1> QED
  BY <1>1, <1>2, PTL DEF Spec

\* hub_queue.c never indexes contents out of bounds and never counts more
\* packets than it has slots.
THEOREM TypeCorrect == Spec => []TypeOK
  BY Invariance, PTL DEF IInv

\* At every step of every interleaving of enqueues and dequeues the head, the
\* tail and the length of the ring describe the same packets.
THEOREM RingCorrect == Spec => [](OneInside /\ RingAgrees)
  BY Invariance, PTL DEF IInv

-----------------------------------------------------------------------------
(* The ring implements the bounded first-in first-out queue                *)

\* Sequences given by their elements: what Len, Append, Head and Tail are of
\* a function on 1 .. k.
LEMMA SeqByElements ==
  ASSUME NEW S, NEW k \in Nat, NEW g \in [1 .. k -> S]
  PROVE  g \in Seq(S) /\ Len(g) = k
  OBVIOUS

LEMMA AppendByElements ==
  ASSUME NEW S, NEW k \in Nat, NEW g \in [1 .. k -> S],
         NEW h \in [1 .. k + 1 -> S], NEW e \in S,
         \A n \in 1 .. k : h[n] = g[n], h[k + 1] = e
  PROVE  h = Append(g, e)
  BY SeqByElements

LEMMA TailByElements ==
  ASSUME NEW S, NEW k \in Nat \ {0}, NEW g \in [1 .. k -> S],
         NEW h \in [1 .. k - 1 -> S],
         \A n \in 1 .. k - 1 : h[n] = g[n + 1]
  PROVE  g # <<>> /\ Head(g) = g[1] /\ h = Tail(g)
  BY SeqByElements

LEMMA EmptyByElements ==
  ASSUME NEW S, NEW g \in [1 .. 0 -> S]
  PROVE  g = <<>>
  BY SeqByElements


\* The abstract queue holds at most Capacity packets, all of them written.
LEMMA QueuedType ==
  ASSUME IInv
  PROVE  /\ Stored \in 0 .. Capacity
         /\ Queued \in [1 .. Stored -> Packets]
<1> USE HubQueueAssumption DEF IInv
<1>1. Stored \in 0 .. Capacity /\ Stored <= Span
  <2>1. length \in 0 .. Capacity /\ (At("shrink") => Span > 0)
    BY DEF RingAgrees, TypeOK
  <2>2. At("shrink") => Span = length
    BY OnlyInside DEF At, Span, Steps
  <2> QED
    BY <2>1, <2>2 DEF Stored, Span
<1>2. FirstSlot \in Slots
  BY SlotArithmetic DEF FirstSlot, TypeOK
<1>3. ASSUME NEW n \in 1 .. Stored
      PROVE  contents[SlotAt(FirstSlot, n - 1)] \in Packets
  <2>1. CASE Leaving
    <3>1. PICK t \in Threads : pc[t] \in {"shrink", "advance"}
      BY <2>1 DEF Leaving, At
    <3>2. ~At("store") /\ Span = Stored + 1 /\ FirstSlot = SlotAt(head_idx, 1)
      BY <2>1, <3>1, OnlyInside DEF Span, Stored, FirstSlot, Steps, Leaving, TypeOK
    <3>3. n \in 0 .. Capacity - 1 /\ n - 1 \in 0 .. Capacity - 1 /\ n < Span
      BY <1>1, <3>2 DEF RingAgrees
    <3>4. SlotAt(FirstSlot, n - 1) = SlotAt(head_idx, n)
      BY <3>2, <3>3 DEF SlotAt, TypeOK, Slots
    <3> QED
      BY <3>2, <3>3, <3>4 DEF RingAgrees
  <2>2. CASE ~Leaving
    <3>1. Stored = length /\ FirstSlot = head_idx
      BY <2>2 DEF Leaving, Stored, FirstSlot
    <3>2. n - 1 < Span /\ ~(At("store") /\ n - 1 = Span - 1) /\ n - 1 \in 0 .. Capacity - 1
      BY <1>1, <3>1 DEF Span, TypeOK
    <3> QED
      BY <3>1, <3>2 DEF RingAgrees
  <2> QED
    BY <2>1, <2>2
<1> QED
  BY <1>1, <1>3 DEF Queued

LEMMA RefinesInit == Init => Fifo!Init
<1> SUFFICES ASSUME Init
             PROVE  Fifo!Init
  OBVIOUS
<1>1. Stored = 0
  BY DEF Init, Stored, At
<1>2. Queued \in [1 .. 0 -> Packets]
  BY QueuedType, InitIInv, <1>1
<1> QED
  BY <1>2, EmptyByElements DEF Fifo!Init, Init

\* Each step of the ring is a step of the abstract queue or invisible to its
\* callers: a packet enters when it is counted and leaves when it is copied.
LEMMA RefinesStep == IInv /\ IInv' /\ [Next]_vars => [Fifo!Next]_(Fifo!vars)
<1> SUFFICES ASSUME IInv, IInv', [Next]_vars
             PROVE  [Fifo!Next]_(Fifo!vars)
  OBVIOUS
<1> USE HubQueueAssumption DEF IInv, GoTo, Ring
<1>1. \A t \in Threads : pc[t] # "idle" =>
        \A step \in Steps \ {"idle"} : At(step) <=> pc[t] = step
  BY OnlyInside
<1>2. \A t \in Threads : pc'[t] # "idle" =>
        \A step \in Steps \ {"idle"} : At(step)' <=> pc'[t] = step
  BY DEF At, OneInside, TypeOK
<1>3. mutex = NoThread => \A step \in Steps \ {"idle"} : ~At(step)
  BY NobodyInside
<1>4. mutex' = NoThread => \A step \in Steps \ {"idle"} : ~At(step)'
  BY DEF At, OneInside
<1>5. /\ Stored \in 0 .. Capacity
      /\ Queued \in [1 .. Stored -> Packets]
      /\ Stored' \in 0 .. Capacity
      /\ Queued' \in [1 .. Stored' -> Packets]
  <2>1. (Stored \in 0 .. Capacity /\ Queued \in [1 .. Stored -> Packets])'
    BY QueuedType, PTL
  <2> QED
    BY <2>1, QueuedType
<1>6. ASSUME NEW t \in Threads,
             \/ \E p \in Packets : EnqueueLock(t, p)
             \/ DequeueLock(t) \/ EnqueueTail(t) \/ Unlock(t)
      PROVE  UNCHANGED Fifo!vars
  <2>1. contents' = contents /\ dst' = dst /\ ret' = ret /\ length' = length
    BY <1>6 DEF EnqueueLock, DequeueLock, EnqueueTail, Unlock
  <2>2. ~Leaving /\ ~Leaving'
    BY <1>1, <1>2, <1>3, <1>4, <1>6
    DEF EnqueueLock, DequeueLock, EnqueueTail, Unlock, Leaving, Steps, TypeOK
  <2>3. Stored = length /\ Stored' = length /\ FirstSlot = head_idx /\ FirstSlot' = head_idx'
    BY <2>1, <2>2 DEF Leaving, Stored, FirstSlot
  <2>4. length # 0 => head_idx' = head_idx
    BY <1>6 DEF EnqueueLock, DequeueLock, EnqueueTail, Unlock
  <2>5. Queued' = Queued
    BY <1>5, <2>1, <2>3, <2>4 DEF Queued, SlotAt
  <2> QED
    BY <2>1, <2>5 DEF Fifo!vars
<1>7. ASSUME NEW t \in Threads, EnqueueStore(t)
      PROVE  UNCHANGED Fifo!vars
  <2>1. pc[t] = "store" /\ pc'[t] = "count"
    BY <1>7 DEF EnqueueStore, TypeOK
  <2>2. ~Leaving /\ ~Leaving' /\ Span = length + 1
    BY <1>1, <1>2, <2>1 DEF Leaving, Steps, Span
  <2>3. tail_idx = SlotAt(head_idx, length) /\ length \in 0 .. Capacity - 1
    BY <2>2 DEF RingAgrees, TypeOK
  <2>4. /\ Stored = length /\ Stored' = length
        /\ FirstSlot = head_idx /\ FirstSlot' = head_idx
    BY <1>7, <2>2 DEF EnqueueStore, Leaving, Stored, FirstSlot
  <2>5. ASSUME NEW n \in 1 .. length
        PROVE  contents'[SlotAt(head_idx, n - 1)] = contents[SlotAt(head_idx, n - 1)]
    <3>1. SlotAt(head_idx, n - 1) \in Slots /\ SlotAt(head_idx, n - 1) # tail_idx
      BY <2>3 DEF TypeOK, Slots, SlotAt
    <3> QED
      BY <1>7, <3>1 DEF EnqueueStore, TypeOK
  <2>6. Queued' = Queued
    BY <2>4, <2>5 DEF Queued, SlotAt
  <2> QED
    BY <1>7, <2>6 DEF EnqueueStore, Fifo!vars
<1>8. ASSUME NEW t \in Threads, EnqueueFull(t)
      PROVE  Fifo!Refuse(t)
  <2>1. pc[t] = "enqueue" /\ mutex' = NoThread /\ length = Capacity
    BY <1>8 DEF EnqueueFull, TypeOK
  <2>2. ~Leaving /\ ~Leaving'
    BY <1>1, <1>4, <2>1 DEF Leaving, Steps
  <2>3. Stored = length /\ FirstSlot = head_idx
    BY <2>2 DEF Leaving, Stored, FirstSlot
  <2>4. Queued' = Queued
    BY <1>8, <2>2 DEF EnqueueFull, Queued, Stored, FirstSlot, Leaving, SlotAt
  <2>5. Len(Queued) = Capacity
    BY <1>5, <2>1, <2>3, SeqByElements
  <2> QED
    BY <1>8, <2>4, <2>5 DEF EnqueueFull, Fifo!Refuse
<1>9. ASSUME NEW t \in Threads, EnqueueCount(t)
      PROVE  Fifo!Put(t, src[t]) /\ src[t] \in Packets
  <2>1. pc[t] = "count" /\ pc'[t] = "unlock"
    BY <1>9 DEF EnqueueCount, TypeOK
  <2>2. ~Leaving /\ ~Leaving' /\ Span = length + 1
    BY <1>1, <1>2, <2>1 DEF Leaving, Steps, Span
  <2>3. /\ Stored = length /\ Stored' = length + 1
        /\ FirstSlot = head_idx /\ FirstSlot' = head_idx
    BY <1>9, <2>2 DEF EnqueueCount, Leaving, Stored, FirstSlot
  <2>4. /\ tail_idx = SlotAt(head_idx, length) /\ length \in 0 .. Capacity - 1
        /\ contents[tail_idx] = src[t] /\ src[t] \in Packets
    BY <2>1, <2>2 DEF RingAgrees, TypeOK
  <2>5. \A n \in 1 .. length : Queued'[n] = Queued[n]
    BY <1>9, <2>3, <2>4 DEF EnqueueCount, Queued, SlotAt
  <2>6. Queued'[length + 1] = src[t]
    BY <1>9, <2>3, <2>4 DEF EnqueueCount, Queued, SlotAt
  <2>7. Queued' = Append(Queued, src[t])
    BY <1>5, <2>3, <2>4, <2>5, <2>6, AppendByElements
  <2>8. Len(Queued) < Capacity
    BY <1>5, <2>3, <2>4, SeqByElements
  <2> QED
    BY <1>9, <2>4, <2>7, <2>8 DEF EnqueueCount, Fifo!Put
<1>10. ASSUME NEW t \in Threads, DequeueEmpty(t)
       PROVE  Fifo!FindEmpty(t)
  <2>1. pc[t] = "dequeue" /\ mutex' = NoThread /\ length = 0
    BY <1>10 DEF DequeueEmpty, TypeOK
  <2>2. ~Leaving /\ ~Leaving'
    BY <1>1, <1>4, <2>1 DEF Leaving, Steps
  <2>3. Stored = 0 /\ Stored' = 0
    BY <1>10, <2>1, <2>2 DEF DequeueEmpty, Leaving, Stored
  <2>4. Queued = <<>> /\ Queued' = <<>>
    BY <1>5, <2>3, EmptyByElements
  <2> QED
    BY <1>10, <2>4 DEF DequeueEmpty, Fifo!FindEmpty
<1>11. ASSUME NEW t \in Threads, DequeueCopy(t)
       PROVE  Fifo!Take(t)
  <2>1. pc[t] = "dequeue" /\ pc'[t] = "shrink" /\ length \in 1 .. Capacity
    BY <1>11 DEF DequeueCopy, TypeOK
  <2>2. ~Leaving /\ Leaving' /\ At("shrink")'
    BY <1>1, <1>2, <2>1 DEF Leaving, Steps
  <2>3. /\ Stored = length /\ Stored' = length - 1
        /\ FirstSlot = head_idx /\ FirstSlot' = SlotAt(head_idx, 1)
    BY <1>11, <2>2 DEF DequeueCopy, Leaving, Stored, FirstSlot, SlotAt
  <2>4. \A n \in 1 .. length - 1 : Queued'[n] = Queued[n + 1]
    BY <1>11, <2>1, <2>3 DEF DequeueCopy, Queued, SlotAt, TypeOK, Slots
  <2>5. Queued[1] = contents[head_idx]
    BY <2>1, <2>3 DEF Queued, SlotAt, TypeOK, Slots
  <2>6. Queued # <<>> /\ Head(Queued) = Queued[1] /\ Queued' = Tail(Queued)
    BY <1>5, <2>1, <2>3, <2>4, TailByElements
  <2> QED
    BY <1>11, <2>5, <2>6 DEF DequeueCopy, Fifo!Take
<1>12. ASSUME NEW t \in Threads, DequeueShrink(t)
       PROVE  UNCHANGED Fifo!vars
  <2>1. pc[t] = "shrink" /\ pc'[t] = "advance"
    BY <1>12 DEF DequeueShrink, TypeOK
  <2>2. Leaving /\ Leaving' /\ At("shrink") /\ ~At("shrink")'
    BY <1>1, <1>2, <2>1 DEF Leaving, Steps
  <2>3. /\ Stored = length - 1 /\ Stored' = length - 1
        /\ FirstSlot = SlotAt(head_idx, 1) /\ FirstSlot' = SlotAt(head_idx, 1)
    BY <1>12, <2>2 DEF DequeueShrink, Stored, FirstSlot, SlotAt
  <2>4. Queued' = Queued
    BY <1>12, <2>3 DEF DequeueShrink, Queued, SlotAt
  <2> QED
    BY <1>12, <2>4 DEF DequeueShrink, Fifo!vars
<1>13. ASSUME NEW t \in Threads, DequeueAdvance(t)
       PROVE  UNCHANGED Fifo!vars
  <2>1. pc[t] = "advance" /\ pc'[t] = "unlock"
    BY <1>13 DEF DequeueAdvance, TypeOK
  <2>2. Leaving /\ ~Leaving' /\ ~At("shrink") /\ ~At("shrink")'
    BY <1>1, <1>2, <2>1 DEF Leaving, Steps
  <2>3. /\ Stored = length /\ Stored' = length
        /\ FirstSlot = SlotAt(head_idx, 1) /\ FirstSlot' = head_idx'
    BY <1>13, <2>2 DEF DequeueAdvance, Stored, FirstSlot
  <2>4. length # 0 => head_idx' = SlotAt(head_idx, 1)
    BY <1>13, SlotArithmetic DEF DequeueAdvance, TypeOK
  <2>5. Queued' = Queued
    BY <1>5, <1>13, <2>3, <2>4 DEF DequeueAdvance, Queued, SlotAt
  <2> QED
    BY <1>13, <2>5 DEF DequeueAdvance, Fifo!vars
<1>14. CASE UNCHANGED vars
  BY <1>14 DEF vars, Fifo!vars, Queued, Stored, FirstSlot, Leaving, At, SlotAt
<1> QED
  BY <1>6, <1>7, <1>8, <1>9, <1>10, <1>11, <1>12, <1>13, <1>14
  DEF Next, Inside, Fifo!Next

\* hub_queue.c implements a bounded first-in first-out queue: what enqueues
\* and dequeues return and hand out, in any interleaving, is what a queue
\* with atomic operations could have returned.
THEOREM Refinement == Spec => ImplementsFifo
<1>1. Init => Fifo!Init
  BY RefinesInit
<1>2. IInv /\ IInv' /\ [Next]_vars => [Fifo!Next]_(Fifo!vars)
  BY RefinesStep
<1> QED
  BY <1>1, <1>2, Invariance, PTL DEF Spec, ImplementsFifo, Fifo!Spec
=============================================================================
