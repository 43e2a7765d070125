------------------------- MODULE CommandQueueProofs -------------------------
(***************************************************************************)
(* The safety properties of the door's command queues, for rings of every  *)
(* size and any number of commands.                                        *)
(*                                                                         *)
(* Head and read index are wrapped by one rule and the tail by another.    *)
(* What the two have in common, and every step keeps, is that the command  *)
(* accepted last lies at the sum of head and length, less one, reduced to  *)
(* the ring (NewestStored).                                                *)
(***************************************************************************)
EXTENDS CommandQueue, TLAPS

\* An index below twice the capacity, reduced to the ring.
Low(q, i) == IF i >= Capacity(q) THEN i - Capacity(q) ELSE i

NewestStored ==
  \A q \in Queues : len[q] > 0 => slot[q][Low(q, head[q] + (len[q] - 1))] = newest[q]

\* The comms task is the holder of the mutex exactly while it is inside the
\* rings.
HolderInside == mutex.holder = IF pc = "idle" THEN NoTask ELSE Comms

\* Once the task has found the priority ring empty it stays so.
PrioritySeenEmpty ==
  pc \in {"check_general", "pop_general"} /\ ~halted => len["priority"] = 0

\* What some ring may contain.
Contents == UNION {[Slots(q) -> Commands \cup {Blank}] : q \in Queues}

\* The types that the other parts of the invariant need.
Typed ==
  /\ mutex \in [avail : BOOLEAN, holder : {Comms, NoTask}]
  /\ head \in [Queues -> Nat] /\ len \in [Queues -> Nat]
  /\ \A q \in Queues : head[q] <= Capacity(q) /\ len[q] <= Capacity(q)
  /\ slot \in [Queues -> Contents]
  /\ \A q \in Queues : slot[q] \in [Slots(q) -> Commands \cup {Blank}]
  /\ newest \in [Queues -> Commands \cup {Blank}]
  /\ accepted \in [Queues -> SUBSET Commands]
  /\ pc \in Steps
  /\ current \in Commands \cup {Blank}
  /\ halted \in BOOLEAN
  /\ written \in 0 .. MaxCommands
  /\ runs \in [Commands -> 0 .. 2]

IInv ==
  /\ Typed
  /\ NewestStored
  /\ HolderInside
  /\ PrioritySeenEmpty
  /\ LeakedOnlyWhenFull

(* Each ring has at least one slot.                                         *)
LEMMA CapacityPositive == \A q \in Queues : Capacity(q) \in Nat \ {0}
  BY CommandQueueAssumption DEF Queues, Capacity

(* An index below twice the capacity is reduced to a slot.                  *)
LEMMA LowInRing ==
  ASSUME NEW q \in Queues, NEW i \in Nat, i < 2 * Capacity(q)
  PROVE  Low(q, i) \in Slots(q)
  BY CapacityPositive DEF Low, Slots

(* The tail is reduced in that way.                                         *)
LEMMA TailIsLow ==
  ASSUME NEW q \in Queues
  PROVE  TailOf(q) = Low(q, head[q] + len[q])
  BY DEF TailOf, Low

(* The unit starts in a state that satisfies the invariant.                 *)
LEMMA InitIInv == Init => IInv
  <1> SUFFICES ASSUME Init PROVE IInv
    OBVIOUS
  <1> USE CommandQueueAssumption, CapacityPositive DEF Init
  <1>1. Typed
    <2>1. \A q \in Queues : slot[q] \in [Slots(q) -> Commands \cup {Blank}]
      OBVIOUS
    <2>2. slot \in [Queues -> Contents]
      BY <2>1 DEF Contents
    <2>3. /\ head \in [Queues -> Nat] /\ len \in [Queues -> Nat]
          /\ \A q \in Queues : head[q] <= Capacity(q) /\ len[q] <= Capacity(q)
      OBVIOUS
    <2>4. runs \in [Commands -> 0 .. 2] /\ written \in 0 .. MaxCommands
      OBVIOUS
    <2> QED
      BY <2>1, <2>2, <2>3, <2>4 DEF Typed, Mutex!Free, Steps
  <1>2. NewestStored
    BY DEF NewestStored
  <1>3. HolderInside /\ PrioritySeenEmpty /\ LeakedOnlyWhenFull
    BY DEF HolderInside, PrioritySeenEmpty, LeakedOnlyWhenFull, Mutex!Free, Mutex!Leaked
  <1> QED
    BY <1>1, <1>2, <1>3 DEF IInv

(* The interrupt's store of a command keeps the invariant.                  *)
LEMMA EnqueueIInv ==
  ASSUME IInv, NEW q \in Queues, Enqueue(q)
  PROVE  IInv'
  <1> USE CommandQueueAssumption, CapacityPositive
  <1>1. Typed /\ HolderInside
    BY DEF IInv
  <1>2. head[q] + len[q] \in Nat /\ head[q] + len[q] < 2 * Capacity(q)
    BY <1>1 DEF Typed, Enqueue
  <1>3. TailOf(q) \in Slots(q)
    BY <1>2, LowInRing, TailIsLow
  <1>4. written' \in Commands /\ written' \in 0 .. MaxCommands
    <2>1. written < MaxCommands /\ written' = written + 1
      BY DEF Enqueue
    <2>2. written \in 0 .. MaxCommands
      BY <1>1 DEF Typed
    <2> QED
      BY <2>1, <2>2 DEF Commands
  <1>5. /\ mutex' \in [avail : BOOLEAN, holder : {Comms, NoTask}]
        /\ mutex'.holder = mutex.holder
        /\ ~Mutex!Leaked(mutex')
        /\ halted' \in BOOLEAN
        /\ ~halted' => mutex.holder = NoTask
    <2>1. CASE mutex.holder = NoTask
      BY <1>1, <2>1 DEF Typed, Enqueue, GiveAtEnd, Mutex!MayGiveFromISR, Mutex!GivenFromISR, Mutex!Leaked
    <2>2. CASE mutex.holder # NoTask
      BY <1>1, <2>2 DEF Typed, Enqueue, GiveAtEnd, Mutex!MayGiveFromISR, Mutex!GivenFromISR, Mutex!Leaked
    <2> QED
      BY <2>1, <2>2
  <1>6. Typed'
    <2>1. \A p \in Queues : slot'[p] \in [Slots(p) -> Commands \cup {Blank}]
      BY <1>1, <1>3, <1>4 DEF Typed, Enqueue
    <2>2. slot' \in [Queues -> Contents]
      <3>1. \A p \in Queues : slot'[p] \in Contents
        BY <2>1 DEF Contents
      <3> QED
        BY <1>1, <3>1 DEF Typed, Enqueue
    <2>3. /\ len' \in [Queues -> Nat]
          /\ \A p \in Queues : head'[p] <= Capacity(p) /\ len'[p] <= Capacity(p)
      BY <1>1 DEF Typed, Enqueue
    <2>4. newest' \in [Queues -> Commands \cup {Blank}] /\ accepted' \in [Queues -> SUBSET Commands]
      BY <1>1, <1>4 DEF Typed, Enqueue
    <2> QED
      BY <1>1, <1>4, <1>5, <2>1, <2>2, <2>3, <2>4 DEF Typed, Enqueue
  <1>7. NewestStored'
    <2> SUFFICES ASSUME NEW p \in Queues, len'[p] > 0
                 PROVE  slot'[p][Low(p, head'[p] + (len'[p] - 1))] = newest'[p]
      BY DEF NewestStored, Low, Capacity
    <2>1. CASE p = q
      <3>1. head'[q] + (len'[q] - 1) = head[q] + len[q]
        BY <1>1 DEF Typed, Enqueue
      <3>2. slot'[q][TailOf(q)] = written' /\ newest'[q] = written'
        BY <1>1, <1>3 DEF Typed, Enqueue
      <3> QED
        BY <2>1, <3>1, <3>2, TailIsLow
    <2>2. CASE p # q
      BY <1>1, <2>2 DEF Typed, Enqueue, IInv, NewestStored
    <2> QED
      BY <2>1, <2>2
  <1>8. HolderInside'
    BY <1>1, <1>5 DEF HolderInside, Enqueue
  <1>9. PrioritySeenEmpty'
    BY <1>1, <1>5 DEF HolderInside, PrioritySeenEmpty, Enqueue
  <1>10. LeakedOnlyWhenFull'
    BY <1>5 DEF LeakedOnlyWhenFull
  <1> QED
    BY <1>6, <1>7, <1>8, <1>9, <1>10 DEF IInv

(* So does its refusal of one.                                              *)
LEMMA RefuseIInv ==
  ASSUME IInv, NEW q \in Queues, Refuse(q)
  PROVE  IInv'
  <1> USE CommandQueueAssumption, CapacityPositive
  <1>1. Typed'
    <2>1. written' \in 0 .. MaxCommands
      <3>1. written < MaxCommands /\ written' = written + 1
        BY DEF Refuse
      <3>2. written \in 0 .. MaxCommands
        BY DEF IInv, Typed
      <3> QED
        BY <3>1, <3>2
    <2>2. mutex' \in [avail : BOOLEAN, holder : {Comms, NoTask}]
      BY DEF IInv, Typed, Refuse, Mutex!TakenFromISR
    <2> QED
      BY <2>1, <2>2 DEF IInv, Typed, Refuse, ringVars, history, Slots, Capacity, Contents
  <1>2. NewestStored'
    BY DEF IInv, NewestStored, Refuse, ringVars, history, Low, Capacity
  <1>3. HolderInside'
    BY DEF IInv, Typed, HolderInside, Refuse, Mutex!TakenFromISR
  <1>4. PrioritySeenEmpty'
    BY DEF IInv, PrioritySeenEmpty, Refuse, ringVars
  <1>5. LeakedOnlyWhenFull'
    <2>1. len[q] \in Nat /\ len[q] <= Capacity(q)
      BY DEF IInv, Typed
    <2>2. len' = len /\ len[q] >= Capacity(q)
      BY DEF Refuse, ringVars
    <2>3. len'[q] = Capacity(q)
      BY <2>1, <2>2
    <2> QED
      BY <2>3 DEF LeakedOnlyWhenFull, Capacity
  <1> QED
    BY <1>1, <1>2, <1>3, <1>4, <1>5 DEF IInv

(* A command that leaves a ring keeps the command accepted last where it    *)
(* is: head and length change together.                                     *)
LEMMA PopIInv ==
  ASSUME IInv, NEW q \in Queues, NEW to \in {"run_priority", "run_general"},
         NEW from \in Steps \ {"idle"}, GoTo(from, to), Pop(q)
  PROVE  IInv'
  <1> USE CommandQueueAssumption, CapacityPositive
  <1>1. Typed /\ HolderInside
    BY DEF IInv
  <1>2. /\ head'[q] \in Nat /\ head'[q] <= Capacity(q)
        /\ len'[q] \in Nat /\ len'[q] = len[q] - 1
        /\ head'[q] = IF head[q] = Capacity(q) THEN 1 ELSE head[q] + 1
    <2>1. head[q] \in Nat /\ head[q] <= Capacity(q) /\ len[q] \in Nat
      BY <1>1 DEF Typed
    <2>2. head'[q] = Wrap(q, head[q] + 1) /\ len'[q] = len[q] - 1 /\ len[q] > 0
      BY <1>1 DEF Typed, Pop
    <2> QED
      BY <2>1, <2>2 DEF Wrap
  <1>3. \A p \in Queues : p # q => head'[p] = head[p] /\ len'[p] = len[p]
    BY <1>1 DEF Typed, Pop
  <1>4. current' \in Commands \cup {Blank}
    <2>1. 1 .. written \subseteq Commands
      BY <1>1 DEF Typed, Commands
    <2>2. ASSUME ReadIndex(q) \in Slots(q) PROVE slot[q][ReadIndex(q)] \in Commands \cup {Blank}
      BY <1>1, <2>2 DEF Typed
    <2> QED
      BY <2>1, <2>2 DEF Pop, Read
  <1>5. Typed'
    <2>1. head' \in [Queues -> Nat] /\ len' \in [Queues -> Nat]
      BY <1>1, <1>2, <1>3 DEF Typed, Pop
    <2>2. \A p \in Queues : head'[p] <= Capacity(p) /\ len'[p] <= Capacity(p)
      <3> SUFFICES ASSUME NEW p \in Queues
                   PROVE  head'[p] <= Capacity(p) /\ len'[p] <= Capacity(p)
        OBVIOUS
      <3>1. head[p] <= Capacity(p) /\ len[p] <= Capacity(p) /\ len[p] \in Nat
        BY <1>1 DEF Typed
      <3>2. CASE p = q
        BY <1>2, <3>1, <3>2
      <3>3. CASE p # q
        BY <1>3, <3>1, <3>3
      <3> QED
        BY <3>2, <3>3
    <2> QED
      BY <1>1, <1>4, <2>1, <2>2 DEF Typed, Pop, GoTo, history, Steps
  <1>6. NewestStored'
    <2> SUFFICES ASSUME NEW p \in Queues, len'[p] > 0
                 PROVE  slot'[p][Low(p, head'[p] + (len'[p] - 1))] = newest'[p]
      BY DEF NewestStored, Low, Capacity
    <2>1. CASE p = q
      <3>1. Low(q, head'[q] + (len'[q] - 1)) = Low(q, head[q] + (len[q] - 1))
        <4>1. CASE head[q] = Capacity(q)
          BY <1>1, <1>2, <2>1, <4>1 DEF Typed, Low
        <4>2. CASE head[q] # Capacity(q)
          <5>1. head'[q] + (len'[q] - 1) = head[q] + (len[q] - 1)
            BY <1>1, <1>2, <4>2 DEF Typed
          <5> QED
            BY <5>1
        <4> QED
          BY <4>1, <4>2
      <3> QED
        BY <2>1, <3>1, <1>1 DEF IInv, NewestStored, Pop, history, Typed
    <2>2. CASE p # q
      BY <1>3, <2>2 DEF Pop, history, IInv, NewestStored
    <2> QED
      BY <2>1, <2>2
  <1>7. mutex' = mutex /\ mutex.holder = Comms
    BY <1>1 DEF Pop, GoTo, HolderInside
  <1>8. HolderInside'
    BY <1>7 DEF HolderInside, GoTo
  <1>9. PrioritySeenEmpty'
    BY DEF PrioritySeenEmpty, GoTo
  <1>10. LeakedOnlyWhenFull'
    BY <1>7 DEF LeakedOnlyWhenFull, Mutex!Leaked
  <1> QED
    BY <1>5, <1>6, <1>8, <1>9, <1>10 DEF IInv

(* The steps of the comms task that leave the rings alone keep the          *)
(* invariant.                                                               *)
LEMMA TaskIInv ==
  ASSUME IInv, Take \/ PriorityDone \/ GeneralDelay \/ GeneralEmpty \/ Processed \/ Give
  PROVE  IInv'
  <1> USE CommandQueueAssumption
  <1>1. Typed'
    <2>1. CASE Take
      BY <2>1 DEF IInv, Typed, Take, GoTo, ringVars, history, Mutex!TakenBy, Steps
    <2>2. CASE PriorityDone \/ GeneralDelay \/ GeneralEmpty
      BY <2>2 DEF IInv, Typed, PriorityDone, GeneralDelay, GeneralEmpty, GoTo, ringVars, history, Steps
    <2>3. CASE Processed
      <3>1. runs' \in [Commands -> 0 .. 2]
        BY <2>3 DEF IInv, Typed, Processed
      <3> QED
        BY <2>3, <3>1 DEF IInv, Typed, Processed, GoTo, ringVars, Steps
    <2>4. CASE Give
      BY <2>4 DEF IInv, Typed, Give, GoTo, ringVars, history, Mutex!Free, Steps
    <2> QED
      BY <2>1, <2>2, <2>3, <2>4
  <1>2. NewestStored'
    <2>1. UNCHANGED <<head, len, slot, newest>>
      BY DEF Take, PriorityDone, GeneralDelay, GeneralEmpty, Processed, Give, ringVars, history
    <2> QED
      BY <2>1 DEF IInv, NewestStored, Low, Capacity
  <1>3. HolderInside' /\ LeakedOnlyWhenFull'
    <2>1. CASE Take
      BY <2>1 DEF HolderInside, LeakedOnlyWhenFull, Take, GoTo, Mutex!TakenBy, Mutex!Leaked
    <2>2. CASE PriorityDone \/ GeneralDelay \/ GeneralEmpty \/ Processed
      BY <2>2 DEF IInv, HolderInside, LeakedOnlyWhenFull, PriorityDone, GeneralDelay, GeneralEmpty,
                  Processed, GoTo, ringVars, Capacity
    <2>3. CASE Give
      BY <2>3 DEF HolderInside, LeakedOnlyWhenFull, Give, GoTo, Mutex!Free, Mutex!Leaked
    <2> QED
      BY <2>1, <2>2, <2>3
  <1>4. PrioritySeenEmpty'
    BY DEF IInv, PrioritySeenEmpty, Take, PriorityDone, GeneralDelay, GeneralEmpty, Processed, Give,
           GoTo, ringVars
  <1> QED
    BY <1>1, <1>2, <1>3, <1>4 DEF IInv

(* The invariant of the command queues: every step keeps it.                *)
THEOREM Invariance == Spec => []IInv
  <1>1. IInv /\ [Next]_vars => IInv'
    <2> SUFFICES ASSUME IInv, [Next]_vars PROVE IInv'
      OBVIOUS
    <2>1. ASSUME NEW q \in Queues, Enqueue(q) PROVE IInv'
      BY <2>1, EnqueueIInv
    <2>2. ASSUME NEW q \in Queues, Refuse(q) PROVE IInv'
      BY <2>2, RefuseIInv
    <2>3. CASE PopPriority
      BY <2>3, PopIInv DEF PopPriority, Queues, Steps
    <2>4. CASE PopGeneral
      BY <2>4, PopIInv DEF PopGeneral, Queues, Steps
    <2>5. CASE Take \/ PriorityDone \/ GeneralDelay \/ GeneralEmpty \/ Processed \/ Give
      BY <2>5, TaskIInv
    <2>6. CASE UNCHANGED vars
      BY <2>6 DEF vars, ringVars, history, IInv, Typed, NewestStored, Low, Capacity, Slots,
                  HolderInside, PrioritySeenEmpty, LeakedOnlyWhenFull, Mutex!Leaked
    <2> QED
      BY <2>1, <2>2, <2>3, <2>4, <2>5, <2>6 DEF Next, Command, CommsTask
  <1> QED
    BY InitIInv, <1>1, PTL DEF Spec

(* Every variable keeps its type; in particular a head never stands more    *)
(* than one slot past its ring, however the two rules of wrapping mix.      *)
THEOREM TypeCorrect == Spec => []TypeOK
  <1>1. IInv => TypeOK
    BY DEF IInv, Typed, TypeOK
  <1> QED
    BY <1>1, Invariance, PTL

(* The interrupt stores every command inside its ring.                      *)
THEOREM TailStaysInRange == Spec => []TailInRange
  <1>1. IInv => TailInRange
    <2> SUFFICES ASSUME IInv, NEW q \in Queues, len[q] < Capacity(q)
                 PROVE  TailOf(q) \in Slots(q)
      BY DEF TailInRange
    <2>1. head[q] + len[q] \in Nat /\ head[q] + len[q] < 2 * Capacity(q)
      BY CapacityPositive DEF IInv, Typed
    <2> QED
      BY <2>1, LowInRing, TailIsLow
  <1> QED
    BY <1>1, Invariance, PTL

(* What the task carries out is the command accepted last, unless it reads  *)
(* the slot after the ring.                                                 *)
THEOREM ReadsNewest == Spec => []NewestIsRead
  <1>1. IInv => NewestIsRead
    <2> SUFFICES ASSUME IInv, NEW q \in Queues, len[q] > 0, ReadIndex(q) \in Slots(q)
                 PROVE  slot[q][ReadIndex(q)] = newest[q]
      BY DEF NewestIsRead
    <2>1. head[q] \in Nat /\ len[q] \in Nat /\ Capacity(q) \in Nat \ {0}
      BY CapacityPositive DEF IInv, Typed
    <2>2. head[q] + (len[q] - 1) # Capacity(q)
      BY <2>1 DEF ReadIndex, Wrap, Slots
    <2>3. ReadIndex(q) = Low(q, head[q] + (len[q] - 1))
      BY <2>1, <2>2 DEF ReadIndex, Wrap, Low
    <2> QED
      BY <2>3 DEF IInv, NewestStored
  <1> QED
    BY <1>1, Invariance, PTL

(* A general command is never taken while a priority command waits.         *)
THEOREM PriorityGoesFirst == Spec => []PriorityFirst
  <1>1. IInv => PriorityFirst
    BY DEF IInv, PrioritySeenEmpty, PriorityFirst
  <1> QED
    BY <1>1, Invariance, PTL

(* The mutex is lost to the task only while a ring is full.                 *)
THEOREM LeakNeedsFullRing == Spec => []LeakedOnlyWhenFull
  <1>1. IInv => LeakedOnlyWhenFull
    BY DEF IInv
  <1> QED
    BY <1>1, Invariance, PTL
=============================================================================
