------------------------ MODULE IntercomServerProofs ------------------------
(***************************************************************************)
(* Proofs about IntercomServer, for every number of slots, outbox capacity *)
(* and number of door requests.                                            *)
(*                                                                         *)
(* The argument: client_count is never given back, so the slots that were  *)
(* ever used are exactly those below client_count (UsedSlots), and the     *)
(* listener's next slot is client_count itself (NextSlotTracks).  Hence    *)
(* the next slot is fresh, and once no next slot is known client_count has *)
(* reached MaxClients, so that the clean-up never looks for one and never  *)
(* locks slots_mutex twice (ThreadSteps).                                  *)
(*                                                                         *)
(* The shared count wraps at the width of its type, so what is kept of it  *)
(* is kept up to a multiple of CountModulus (Shifted).                     *)
(***************************************************************************)
EXTENDS IntercomServer, FiniteSetTheorems, TLAPS

\* The types the argument needs.
SlotTypes ==
  /\ slot_state \in [Slots -> {"VACANT", "TAKEN", "ACTIVE", "GARBAGE"}]
  /\ index \in [Slots -> Slots \cup {-1}]
  /\ outbox \in [Slots -> {"none", "live", "destroyed"}]
  /\ client_count \in 0 .. MaxClients
  /\ next_slot_idx \in -1 .. MaxClients - 1
  /\ slots_mutex \in Threads \cup {Nobody}
  /\ pc \in [Threads -> Steps]

ConnectionSteps == {"none", "start", "collect", "collected", "next_check", "unlock",
                    "serve", "receive", "leave", "end", "done"}
ListenerSteps == {"listening", "accepted", "set_timeout", "next_check", "next_lock"}

\* Each thread is at a step of its own function; no connection thread is
\* about to lock slots_mutex for a next slot.
ThreadSteps ==
  /\ pc[Listener] \in ListenerSteps
  /\ pc[Forwarder] \in {"waiting", "forward"}
  /\ \A i \in Slots : pc[i] \in ConnectionSteps

\* The slots used so far are the first client_count ones.
UsedSlots == \A i \in Slots : pc[i] = "none" <=> i >= client_count

\* A slot nobody used yet is vacant.
FreshSlots ==
  \A i \in Slots : pc[i] = "none" => slot_state[i] = "VACANT" /\ outbox[i] = "none"

\* The next slot follows client_count: it is one behind from the moment a
\* client is counted until the listener moves it on, and -1 when all are used.
NextSlotTracks ==
  /\ pc[Listener] \in {"listening", "accepted"} =>
       next_slot_idx = IF client_count = MaxClients THEN -1 ELSE client_count
  /\ pc[Listener] = "accepted" => client_count < MaxClients
  /\ pc[Listener] \in {"set_timeout", "next_check"} =>
       next_slot_idx \in {client_count - 1, -1}
  /\ pc[Listener] = "next_lock" => next_slot_idx = client_count
  /\ next_slot_idx = -1 => client_count = MaxClients
  /\ \A i \in Slots : pc[i] = "next_check" => client_count = MaxClients

\* Only a connection in the middle of update_client_slots holds the mutex.
Holding == {"collect", "collected", "next_check", "unlock"}
MutexHeld ==
  /\ slots_mutex \in Slots \cup {Nobody}
  /\ \A i \in Slots : pc[i] \in Holding <=> slots_mutex = i

\* The slot of a connection at each step.
SlotOfConnection ==
  \A i \in Slots :
    /\ pc[i] = "start" => slot_state[i] = "TAKEN" /\ index[i] = i /\ outbox[i] = "none"
    /\ pc[i] \in {"serve", "receive", "leave", "end"} =>
         slot_state[i] = "ACTIVE" /\ index[i] = i /\ outbox[i] = "live"
    /\ pc[i] = "done" => slot_state[i] = "VACANT" /\ outbox[i] = "destroyed"
    /\ pc[i] = "collect" =>
         \/ slot_state[i] = "ACTIVE" /\ index[i] = i /\ outbox[i] = "live"
         \/ slot_state[i] = "GARBAGE" /\ outbox[i] = "destroyed"
    /\ pc[i] \in {"collected", "next_check", "unlock"} =>
         \/ slot_state[i] = "ACTIVE" /\ index[i] = i /\ outbox[i] = "live"
         \/ slot_state[i] = "VACANT" /\ outbox[i] = "destroyed"

IInv ==
  /\ SlotTypes /\ ThreadSteps /\ UsedSlots /\ FreshSlots
  /\ NextSlotTracks /\ MutexHeld /\ SlotOfConnection

-----------------------------------------------------------------------------

\* The invariant holds of the vacant slots of init_client_slots.
LEMMA InitIInv == Init => IInv
<1> SUFFICES ASSUME Init PROVE IInv
  OBVIOUS
<1> QED
  BY IntercomServerAssumption, ThreadsAssumption
     DEF Init, IInv, SlotTypes, ThreadSteps, UsedSlots, FreshSlots, NextSlotTracks, MutexHeld,
         SlotOfConnection, Threads, Slots, Steps, Holding, ConnectionSteps, ListenerSteps

\* Every step of every thread preserves the invariant: one step of the proof
\* per action.
LEMMA NextIInv == IInv /\ [Next]_vars => IInv'
<1> SUFFICES ASSUME IInv, [Next]_vars PROVE IInv'
  OBVIOUS
<1> USE IntercomServerAssumption, ThreadsAssumption
     DEF IInv, SlotTypes, ThreadSteps, UsedSlots, FreshSlots, NextSlotTracks, MutexHeld,
         SlotOfConnection, Threads, Slots, Steps, Holding, ConnectionSteps, ListenerSteps,
         GoTo, Acquire, Release, slotVars, nextVars, listVars, linkVars
<1>1. CASE Accept
  BY <1>1 DEF Accept
<1>2. CASE AssignSlot
  BY <1>2 DEF AssignSlot
<1>3. CASE SetTimeout
  BY <1>3 DEF SetTimeout
<1>4. CASE BellArrives
  BY <1>4 DEF BellArrives
<1>5. CASE Forward
  BY <1>5 DEF Forward, Active
<1>6. ASSUME NEW t \in Slots \cup {Listener}, SlotsExhausted(t) PROVE IInv'
  BY <1>6 DEF SlotsExhausted, After, Int8
<1>7. ASSUME NEW t \in Slots \cup {Listener}, BumpNextSlot(t) PROVE IInv'
  BY <1>7 DEF BumpNextSlot, After, Int8
<1>8. ASSUME NEW t \in Slots \cup {Listener}, NextSlotSearch(t) PROVE IInv'
  BY <1>8 DEF NextSlotSearch, After, Int8, VacantFrom
<1>9. ASSUME NEW i \in Slots, Activate(i) PROVE IInv'
  BY <1>9 DEF Activate
<1>10. ASSUME NEW i \in Slots, Collect(i) PROVE IInv'
  BY <1>10 DEF Collect, Garbage
<1>11. ASSUME NEW i \in Slots, Collected(i) PROVE IInv'
  BY <1>11 DEF Collected
<1>12. ASSUME NEW i \in Slots, UnlockSlots(i) PROVE IInv'
  BY <1>12 DEF UnlockSlots
<1>13. ASSUME NEW i \in Slots, SendQueued(i) PROVE IInv'
  BY <1>13 DEF SendQueued
<1>14. ASSUME NEW i \in Slots, StartReceive(i) PROVE IInv'
  BY <1>14 DEF StartReceive
<1>15. ASSUME NEW i \in Slots, ReceiveNothing(i) PROVE IInv'
  BY <1>15 DEF ReceiveNothing
<1>16. ASSUME NEW i \in Slots, RemoveInfo(i) PROVE IInv'
  BY <1>16 DEF RemoveInfo
<1>17. ASSUME NEW i \in Slots, Retire(i) PROVE IInv'
  BY <1>17 DEF Retire
<1>18. ASSUME NEW i \in Slots, SyncTime(i) PROVE IInv'
  BY <1>18 DEF SyncTime, Received
<1>19. ASSUME NEW i \in Slots, UpdateInfo(i) PROVE IInv'
  BY <1>19 DEF UpdateInfo, Received
<1>20. ASSUME NEW i \in Slots, PassPacket(i) PROVE IInv'
  BY <1>20 DEF PassPacket, Received
<1>21. ASSUME NEW i \in Slots, Quit(i) PROVE IInv'
  BY <1>21 DEF Quit
<1>22. CASE UNCHANGED vars
  BY <1>22 DEF vars
<1>23. QED
  BY <1>1, <1>2, <1>3, <1>4, <1>5, <1>6, <1>7, <1>8, <1>9, <1>10, <1>11, <1>12,
     <1>13, <1>14, <1>15, <1>16, <1>17, <1>18, <1>19, <1>20, <1>21, <1>22
     DEF Next, ListenerStep, ConnectionStep, NextSlot, ClientPacket

-----------------------------------------------------------------------------

\* The inductive invariant holds in every reachable state.
THEOREM Invariance == Spec => []IInv
<1> QED
  BY InitIInv, NextIInv, PTL DEF Spec

\* What the other variables are: the shared list, the links and the queues.
LinkTypes ==
  /\ queued \in [Slots -> 0 .. OutboxCapacity]
  /\ seen \in [Slots -> BOOLEAN]
  /\ count \in 0 .. CountModulus - 1
  /\ unreported \in Nat
  /\ newest \in Slots
  /\ timed \in [Slots -> BOOLEAN]
  /\ waits \in [Slots -> BOOLEAN]
  /\ quiet \in [Slots -> 0 .. QuietLimit]
  /\ client \in [Slots -> {"talks", "silent", "closed"}]
  /\ bells \in 0 .. MaxBells

\* The count is kept within its width.
LEMMA CountWidth == \A n \in Int : n % CountModulus \in 0 .. CountModulus - 1
<1>1. CountModulus \in Nat \ {0}
  BY IntercomServerAssumption
<1> QED
  BY <1>1, SMT

\* Every step keeps the types of the other variables.
LEMMA LinkStep == IInv /\ LinkTypes /\ [Next]_vars => LinkTypes'
<1> SUFFICES ASSUME IInv, LinkTypes, [Next]_vars PROVE LinkTypes'
  OBVIOUS
<1> USE IntercomServerAssumption
    DEF LinkTypes, Slots, GoTo, Release, slotVars, nextVars, listVars, linkVars
<1>0. \A i \in Slots : pc[i] \in {"receive", "leave"} => index[i] = i
  BY DEF IInv, SlotOfConnection
<1>1. CASE Accept
  BY <1>1 DEF Accept
<1>2. CASE AssignSlot
  <2>1. next_slot_idx \in Slots
    BY <1>2 DEF AssignSlot, IInv, NextSlotTracks, SlotTypes
  <2> QED
    BY <1>2, <2>1 DEF AssignSlot
<1>3. CASE SetTimeout
  BY <1>3 DEF SetTimeout
<1>4. CASE BellArrives
  BY <1>4 DEF BellArrives
<1>5. CASE Forward
  BY <1>5 DEF Forward, Active
<1>6. ASSUME NEW t, NextSlot(t) PROVE LinkTypes'
  BY <1>6 DEF NextSlot, SlotsExhausted, BumpNextSlot, NextSlotSearch
<1>7. ASSUME NEW i \in Slots, Activate(i) \/ Retire(i) PROVE LinkTypes'
  <2>1. queued' \in [Slots -> 0 .. OutboxCapacity]
    <3>1. queued' = [queued EXCEPT ![i] = 0]
      BY <1>7 DEF Activate, Retire
    <3> QED
      BY <3>1
  <2>2. UNCHANGED <<nextVars, listVars, linkVars, bells>>
    BY <1>7 DEF Activate, Retire
  <2> QED
    BY <2>1, <2>2
<1>8. ASSUME NEW i \in Slots, Collect(i) \/ Collected(i) \/ UnlockSlots(i) PROVE LinkTypes'
  BY <1>8 DEF Collect, Collected, UnlockSlots
<1>9. ASSUME NEW i \in Slots, SendQueued(i) PROVE LinkTypes'
  BY <1>9 DEF SendQueued
<1>10. ASSUME NEW i \in Slots, StartReceive(i) PROVE LinkTypes'
  BY <1>10 DEF StartReceive
<1>11. ASSUME NEW i \in Slots, ReceiveNothing(i) PROVE LinkTypes'
  BY <1>11 DEF ReceiveNothing
<1>12. ASSUME NEW i \in Slots, RemoveInfo(i) PROVE LinkTypes'
  <2>1. count' \in 0 .. CountModulus - 1
    <3>1. (count - 1) % CountModulus \in 0 .. CountModulus - 1
      <4>1. count - 1 \in Int
        OBVIOUS
      <4> QED
        BY <4>1, CountWidth, Zenon
    <3>2. count' = (count - 1) % CountModulus
      BY <1>12 DEF RemoveInfo
    <3> QED
      BY <3>1, <3>2, Zenon
  <2>2. unreported' \in Nat
    BY <1>12 DEF RemoveInfo
  <2>3. seen' = [seen EXCEPT ![i] = FALSE]
    BY <1>0, <1>12 DEF RemoveInfo
  <2>4. /\ client' = [client EXCEPT ![i] = "closed"]
        /\ timed' = [timed EXCEPT ![i] = FALSE]
        /\ waits' = [waits EXCEPT ![i] = FALSE]
        /\ quiet' = [quiet EXCEPT ![i] = 0]
        /\ UNCHANGED <<queued, newest, bells>>
    BY <1>12 DEF RemoveInfo
  <2> QED
    BY <2>1, <2>2, <2>3, <2>4
<1>13. ASSUME NEW i \in Slots, SyncTime(i) PROVE LinkTypes'
  BY <1>13 DEF SyncTime, Received
<1>14. ASSUME NEW i \in Slots, UpdateInfo(i) PROVE LinkTypes'
  <2>1. count' \in 0 .. CountModulus - 1
    <3>1. (count + 1) % CountModulus \in 0 .. CountModulus - 1
      <4>1. count + 1 \in Int
        OBVIOUS
      <4> QED
        BY <4>1, CountWidth, Zenon
    <3>2. count' = count \/ count' = (count + 1) % CountModulus
      BY <1>14 DEF UpdateInfo
    <3> QED
      BY <3>1, <3>2, Zenon
  <2>2. seen' = [seen EXCEPT ![i] = TRUE]
    BY <1>0, <1>14 DEF UpdateInfo, Received
  <2>3. quiet' = [quiet EXCEPT ![i] = 0]
    BY <1>14 DEF UpdateInfo, Received
  <2>4. UNCHANGED <<queued, newest, unreported, timed, waits, client, bells>>
    BY <1>14 DEF UpdateInfo
  <2> QED
    BY <2>1, <2>2, <2>3, <2>4
<1>15. ASSUME NEW i \in Slots, PassPacket(i) PROVE LinkTypes'
  BY <1>15 DEF PassPacket, Received
<1>16. ASSUME NEW i \in Slots, Quit(i) PROVE LinkTypes'
  BY <1>16 DEF Quit
<1>17. CASE UNCHANGED vars
  BY <1>17 DEF vars
<1> QED
  BY <1>1, <1>2, <1>3, <1>4, <1>5, <1>6, <1>7, <1>8, <1>9, <1>10, <1>11, <1>12,
     <1>13, <1>14, <1>15, <1>16, <1>17
     DEF Next, ListenerStep, ConnectionStep, ClientPacket

\* Every variable keeps its type, the widths of the counters included.
THEOREM TypeCorrect == Spec => []TypeOK
<1>1. Init => LinkTypes
  BY IntercomServerAssumption DEF Init, LinkTypes, Slots
<1>2. IInv /\ LinkTypes => TypeOK
  BY DEF IInv, SlotTypes, LinkTypes, TypeOK
<1>3. Spec => []LinkTypes
  BY <1>1, LinkStep, Invariance, PTL DEF Spec
<1> QED
  BY <1>2, <1>3, Invariance, PTL

\* The slot the listener accepts into is always inside the array, vacant and
\* without a thread (listen_loop, increment_next_client_slot).
THEOREM NextSlotIsFree == Spec => []NextSlotFree
<1>1. IInv => NextSlotFree
  BY IntercomServerAssumption
     DEF IInv, SlotTypes, UsedSlots, FreshSlots, NextSlotTracks, NextSlotFree, Slots
<1> QED
  BY <1>1, Invariance, PTL

\* No thread locks slots_mutex while it holds it (update_client_slots).
THEOREM NeverSelfDeadlocks == Spec => []NoSelfDeadlock
<1>1. IInv => NoSelfDeadlock
  BY ThreadsAssumption
     DEF IInv, ThreadSteps, MutexHeld, ConnectionSteps, NoSelfDeadlock, Threads, Slots
<1> QED
  BY <1>1, Invariance, PTL

\* A connection owns its slot as long as it uses it, and outside the mutex a
\* slot is active exactly while its outbox is live (connection_task,
\* update_client_slots, forward_door_to_client_request).
THEOREM SlotsAreOwned == Spec => [](ConnectionOwnsSlot /\ OutboxFollowsSlot)
<1>1. IInv => ConnectionOwnsSlot
  BY DEF IInv, SlotOfConnection, ConnectionOwnsSlot
<1>2. IInv => OutboxFollowsSlot
  <2> SUFFICES ASSUME IInv, slots_mutex = Nobody, NEW i \in Slots
               PROVE  /\ slot_state[i] = "ACTIVE" <=> outbox[i] = "live"
                      /\ slot_state[i] # "GARBAGE"
    BY DEF OutboxFollowsSlot
  <2>1. pc[i] \in ConnectionSteps \ Holding
    BY ThreadsAssumption DEF IInv, ThreadSteps, MutexHeld, Slots
  <2> QED
    BY <2>1 DEF IInv, FreshSlots, SlotOfConnection, ConnectionSteps, Holding
<1> QED
  BY <1>1, <1>2, Invariance, PTL

-----------------------------------------------------------------------------
(* The shared count                                                        *)

\* A positive multiple of n is at least n.
LEMMA Multiple ==
  ASSUME NEW n \in Nat \ {0}, NEW d \in Nat \ {0}
  PROVE  n * d >= n /\ n * d \in Nat
<1>1. PICK e \in Nat : d = e + 1
  <2>1. d - 1 \in Nat /\ d = (d - 1) + 1
    OBVIOUS
  <2> QED
    BY <2>1
<1>2. n * d = n * e + n
  BY <1>1
<1>3. n * e \in Nat
  OBVIOUS
<1> QED
  BY <1>2, <1>3

\* A remainder does not depend on the quotient it is written with.
LEMMA OneRemainder ==
  ASSUME NEW n \in Nat \ {0}, NEW q \in Int, NEW p \in Int,
         NEW r \in 0 .. n - 1, NEW s \in 0 .. n - 1, n * q + r = n * p + s
  PROVE  r = s
<1>1. CASE q = p
  BY <1>1
<1>2. CASE q > p
  <2>1. PICK d \in Nat \ {0} : q = p + d
    <3>1. q - p \in Nat \ {0} /\ q = p + (q - p)
      BY <1>2
    <3> QED
      BY <3>1
  <2>2. n * q = n * p + n * d
    BY <2>1
  <2>3. n * d \in Int /\ n * p \in Int /\ n * q \in Int
    OBVIOUS
  <2> QED
    BY <2>2, <2>3, Multiple
<1>3. CASE q < p
  <2>1. PICK d \in Nat \ {0} : p = q + d
    <3>1. p - q \in Nat \ {0} /\ p = q + (p - q)
      BY <1>3
    <3> QED
      BY <3>1
  <2>2. n * p = n * q + n * d
    BY <2>1
  <2>3. n * d \in Int /\ n * p \in Int /\ n * q \in Int
    OBVIOUS
  <2> QED
    BY <2>2, <2>3, Multiple
<1> QED
  BY <1>1, <1>2, <1>3

\* Quotient and remainder.
LEMMA Division ==
  ASSUME NEW n \in Nat \ {0}, NEW a \in Int
  PROVE  a \div n \in Int /\ a % n \in 0 .. n - 1 /\ a = n * (a \div n) + (a % n)
  BY SMT

\* A number shifted by d and by a multiple of n has a remainder shifted by d.
LEMMA Shifted ==
  ASSUME NEW n \in Nat \ {0}, NEW x \in Int, NEW y \in Int, NEW d \in Int, NEW k \in Int,
         y = x + d + n * k, (x % n) + d \in 0 .. n - 1
  PROVE  y % n = (x % n) + d
<1> DEFINE r == x % n
<1> DEFINE j == x \div n
<1> DEFINE i == y \div n
<1> DEFINE s == y % n
<1>1. j \in Int /\ r \in 0 .. n - 1 /\ x = n * j + r
  BY Division
<1>2. i \in Int /\ s \in 0 .. n - 1 /\ y = n * i + s
  BY Division
<1>3. r + d \in 0 .. n - 1
  OBVIOUS
<1> HIDE DEF r, j, i, s
<1>4. n * (j + k) = n * j + n * k /\ j + k \in Int
  BY <1>1
<1>5. n * j \in Int /\ n * k \in Int /\ n * i \in Int /\ n * (j + k) \in Int
  BY <1>1, <1>2, <1>4
<1>6. n * (j + k) + (r + d) = n * i + s
  BY <1>1, <1>2, <1>4, <1>5
<1>7. r + d = s
  BY <1>2, <1>3, <1>4, <1>6, OneRemainder
<1> QED
  BY <1>7 DEF r, s

\* A number reduced to the width differs from it by a multiple.
LEMMA Reduced ==
  ASSUME NEW n \in Nat \ {0}, NEW a \in Int
  PROVE  \E k \in Int : a % n = a + n * k
<1> DEFINE q == a \div n
<1> DEFINE r == a % n
<1>1. q \in Int /\ r \in 0 .. n - 1 /\ a = n * q + r
  BY Division
<1> HIDE DEF q, r
<1>2. n * (-q) = -(n * q) /\ n * q \in Int /\ -q \in Int
  BY <1>1
<1>3. r = a + n * (-q)
  BY <1>1, <1>2
<1> QED
  BY <1>2, <1>3 DEF r

\* The clients seen are no more than there are slots, and a count of them can
\* be told from its remainder.
LEMMA SeenCount ==
  ASSUME NEW S \in SUBSET Slots
  PROVE  IsFiniteSet(S) /\ Cardinality(S) \in 0 .. CountModulus - 1
<1>1. IsFiniteSet(Slots) /\ Cardinality(Slots) = MaxClients
  BY IntercomServerAssumption, FS_Interval DEF Slots
<1>2. IsFiniteSet(S) /\ Cardinality(S) <= Cardinality(Slots) /\ Cardinality(S) \in Nat
  BY <1>1, FS_Subset, FS_CardinalityType
<1> QED
  BY <1>1, <1>2, IntercomServerAssumption

\* A client that is added to those seen, or taken from them, counts for one.
LEMMA SeenChanges ==
  ASSUME NEW S \in SUBSET Slots, NEW i \in Slots
  PROVE  /\ i \notin S => Cardinality(S \cup {i}) = Cardinality(S) + 1
         /\ i \in S => Cardinality(S \ {i}) = Cardinality(S) - 1
<1>1. IsFiniteSet(S)
  BY SeenCount
<1> QED
  BY <1>1, FS_AddElement, FS_RemoveElement

\* A client's first report adds one to the count and to those seen.
LEMMA UpdateCounts ==
  ASSUME LinkTypes, CountAccounted, NEW i \in Slots, ~seen[i],
         seen' = [seen EXCEPT ![i] = TRUE],
         count' = (count + 1) % CountModulus, unreported' = unreported
  PROVE  CountAccounted'
<1>1. CountModulus \in Nat \ {0}
  BY IntercomServerAssumption
<1>2. Seen \in SUBSET Slots /\ Seen' \in SUBSET Slots
  BY DEF Seen
<1>3. i \notin Seen /\ Seen' = Seen \cup {i}
  BY DEF Seen, LinkTypes
<1>4. Cardinality(Seen') = Cardinality(Seen) + 1
  BY <1>2, <1>3, SeenChanges
<1>5. Cardinality(Seen') \in 0 .. CountModulus - 1
  BY <1>2, SeenCount
<1>6. count + 1 \in Int /\ count \in Int /\ unreported \in Int
  BY IntercomServerAssumption DEF LinkTypes
<1>7. PICK k \in Int : count' = (count + 1) + CountModulus * k
  BY <1>1, <1>6, Reduced
<1>8. CountModulus * k \in Int
  BY <1>1
<1>9. count' + unreported' = (count + unreported) + 1 + CountModulus * k
  BY <1>6, <1>7, <1>8
<1>10. (count + unreported) \in Int /\ (count' + unreported') \in Int
  BY <1>6, <1>7, <1>8
<1>11. ((count + unreported) % CountModulus) + 1 \in 0 .. CountModulus - 1
  BY <1>4, <1>5 DEF CountAccounted
<1>12. (count' + unreported') % CountModulus = ((count + unreported) % CountModulus) + 1
  <2>1. PICK x \in Int, y \in Int, d \in Int :
          x = count + unreported /\ y = count' + unreported' /\ d = 1
    BY <1>10
  <2>2. y = x + d + CountModulus * k
    BY <1>9, <2>1
  <2>3. (x % CountModulus) + d \in 0 .. CountModulus - 1
    BY <1>11, <2>1
  <2>4. y % CountModulus = (x % CountModulus) + d
    BY <1>1, <1>8, <2>2, <2>3, Shifted
  <2> QED
    BY <2>1, <2>4
<1> QED
  BY <1>4, <1>12 DEF CountAccounted

\* A client that leaves takes one from the count, and from those seen or from
\* those that never reported.
LEMMA RemoveCounts ==
  ASSUME LinkTypes, CountAccounted, NEW i \in Slots,
         seen' = [seen EXCEPT ![i] = FALSE],
         count' = (count - 1) % CountModulus,
         unreported' = IF seen[i] THEN unreported ELSE unreported + 1
  PROVE  CountAccounted'
<1> DEFINE d == IF seen[i] THEN -1 ELSE 0
<1>1. CountModulus \in Nat \ {0}
  BY IntercomServerAssumption
<1>2. Seen \in SUBSET Slots /\ Seen' \in SUBSET Slots
  BY DEF Seen
<1>3. (i \in Seen <=> seen[i]) /\ Seen' = Seen \ {i}
  BY DEF Seen, LinkTypes
<1>4. Cardinality(Seen') = Cardinality(Seen) + d
  <2>0. Cardinality(Seen) \in Int
    BY <1>2, SeenCount
  <2>1. CASE seen[i]
    BY <1>2, <1>3, <2>0, <2>1, SeenChanges
  <2>2. CASE ~seen[i]
    <3>1. Seen' = Seen
      BY <1>3, <2>2
    <3> QED
      BY <3>1, <2>0, <2>2
  <2> QED
    BY <2>1, <2>2
<1>5. Cardinality(Seen') \in 0 .. CountModulus - 1
  BY <1>2, SeenCount
<1>6. count - 1 \in Int /\ count \in Int /\ unreported \in Int
  BY IntercomServerAssumption DEF LinkTypes
<1>7. PICK k \in Int : count' = (count - 1) + CountModulus * k
  BY <1>1, <1>6, Reduced
<1>8. CountModulus * k \in Int /\ d \in Int
  BY <1>1
<1>9. count' + unreported' = (count + unreported) + d + CountModulus * k
  BY <1>6, <1>7, <1>8
<1>10. (count + unreported) \in Int /\ (count' + unreported') \in Int
  BY <1>6, <1>7, <1>8
<1>11. ((count + unreported) % CountModulus) + d \in 0 .. CountModulus - 1
  BY <1>4, <1>5 DEF CountAccounted
<1> HIDE DEF d
<1>12. (count' + unreported') % CountModulus = ((count + unreported) % CountModulus) + d
  <2>1. PICK x \in Int, y \in Int : x = count + unreported /\ y = count' + unreported'
    BY <1>10
  <2>2. y = x + d + CountModulus * k
    BY <1>9, <2>1
  <2>3. (x % CountModulus) + d \in 0 .. CountModulus - 1
    BY <1>11, <2>1
  <2>4. y % CountModulus = (x % CountModulus) + d
    BY <1>1, <1>8, <2>2, <2>3, Shifted
  <2> QED
    BY <2>1, <2>4
<1> QED
  BY <1>4, <1>12 DEF CountAccounted

\* Only a report and a client's leaving change the count.
LEMMA CountStep == IInv /\ LinkTypes /\ CountAccounted /\ [Next]_vars => CountAccounted'
<1> SUFFICES ASSUME IInv, LinkTypes, CountAccounted, [Next]_vars PROVE CountAccounted'
  OBVIOUS
<1>1. \A i \in Slots : pc[i] \in {"receive", "leave"} => index[i] = i
  BY DEF IInv, SlotOfConnection
<1>2. CASE UNCHANGED listVars
  <2>1. Seen' = Seen /\ count' = count /\ unreported' = unreported
    BY <1>2 DEF listVars, Seen
  <2> QED
    BY <2>1 DEF CountAccounted
<1>3. ASSUME NEW i \in Slots, UpdateInfo(i) PROVE CountAccounted'
  <2>1. index[i] = i
    BY <1>1, <1>3 DEF UpdateInfo, Received, GoTo
  <2>2. seen' = [seen EXCEPT ![i] = TRUE] /\ unreported' = unreported
    BY <1>3, <2>1 DEF UpdateInfo
  <2>3. CASE seen[i]
    <3>1. count' = count /\ seen' = seen
      BY <1>3, <2>1, <2>2, <2>3 DEF UpdateInfo, LinkTypes
    <3> QED
      BY <1>2, <2>2, <3>1 DEF listVars
  <2>4. CASE ~seen[i]
    <3>1. count' = (count + 1) % CountModulus
      BY <1>3, <2>1, <2>4 DEF UpdateInfo
    <3> QED
      BY <2>2, <2>4, <3>1, UpdateCounts
  <2> QED
    BY <2>3, <2>4
<1>4. ASSUME NEW i \in Slots, RemoveInfo(i) PROVE CountAccounted'
  <2>1. index[i] = i
    BY <1>1, <1>4 DEF RemoveInfo, GoTo
  <2>2. /\ seen' = [seen EXCEPT ![i] = FALSE]
        /\ count' = (count - 1) % CountModulus
        /\ unreported' = IF seen[i] THEN unreported ELSE unreported + 1
    BY <1>4, <2>1 DEF RemoveInfo
  <2> QED
    BY <2>2, RemoveCounts
<1>5. CASE Accept \/ AssignSlot \/ SetTimeout \/ BellArrives \/ Forward
  BY <1>2, <1>5 DEF Accept, AssignSlot, SetTimeout, BellArrives, Forward
<1>6. ASSUME NEW t, NextSlot(t) PROVE CountAccounted'
  BY <1>2, <1>6 DEF NextSlot, SlotsExhausted, BumpNextSlot, NextSlotSearch
<1>7. ASSUME NEW i \in Slots,
             \/ Activate(i) \/ Collect(i) \/ Collected(i) \/ UnlockSlots(i) \/ SendQueued(i)
             \/ StartReceive(i) \/ ReceiveNothing(i) \/ Retire(i) \/ SyncTime(i)
             \/ PassPacket(i) \/ Quit(i)
      PROVE  CountAccounted'
  BY <1>2, <1>7 DEF Activate, Collect, Collected, UnlockSlots, SendQueued,
     StartReceive, ReceiveNothing, Retire, SyncTime, PassPacket, Quit
<1>8. CASE UNCHANGED vars
  BY <1>2, <1>8 DEF vars
<1> QED
  BY <1>3, <1>4, <1>5, <1>6, <1>7, <1>8 DEF Next, ListenerStep, ConnectionStep, ClientPacket

\* The shared count is the number of clients seen, less one for each
\* connection that ended before its client reported, up to the width of its
\* type (connection_update_client_info, connection_remove_client_info).
THEOREM CountIsAccounted == Spec => []CountAccounted
<1>1. Init => LinkTypes /\ CountAccounted
  <2> SUFFICES ASSUME Init PROVE LinkTypes /\ CountAccounted
    OBVIOUS
  <2>1. LinkTypes
    BY IntercomServerAssumption DEF Init, LinkTypes, Slots
  <2>2. Seen = {}
    BY DEF Init, Seen
  <2>3. (count + unreported) % CountModulus = 0
    <3>1. CountModulus \in Nat \ {0}
      BY IntercomServerAssumption
    <3>2. count + unreported = 0
      BY DEF Init
    <3> QED
      BY <3>1, <3>2
  <2> QED
    BY <2>1, <2>2, <2>3, FS_EmptySet DEF CountAccounted
<1>2. IInv /\ LinkTypes /\ CountAccounted /\ [Next]_vars => LinkTypes' /\ CountAccounted'
  BY LinkStep, CountStep
<1> QED
  BY <1>1, <1>2, Invariance, PTL DEF Spec
=============================================================================
