--------------------------- MODULE IntercomServer ---------------------------
(***************************************************************************)
(* intercom_server_listener.c: how the intercom server gives its client    *)
(* slots to TCP connections and takes them back.                           *)
(*                                                                         *)
(* The listener thread accepts a client into slot next_slot_idx and then   *)
(* looks for the next slot; each connection thread works on its own slot   *)
(* (a connection is named by it); the forwarder (ipc_in_loop) hands a      *)
(* door's request to the first active client.  slots_mutex protects the    *)
(* slots, but not client_count and next_slot_idx: a critical section is    *)
(* one step unless it calls update_client_slots.  The outboxes are hub     *)
(* queues: one step per call, as HubQueueProofs shows; only how many       *)
(* packets one holds matters here.  Waits for the semaphores of the shared *)
(* lists and sends to a socket are taken to end.  Termination of the       *)
(* process is left out: it ends every thread at once.                      *)
(***************************************************************************)
EXTENDS Integers, FiniteSets

CONSTANTS
  MaxClients,      \* HUB_MAX_INTERCOM_COUNT
  OutboxCapacity,  \* the capacity of a connection's outbox
  QuietLimit,      \* receives in a row without a packet that are tolerated
  MaxBells,        \* bound: the requests of doors that arrive
  CountModulus,    \* 2^16: intercoms->count is a uint16_t
  Listener, Forwarder, Nobody

ASSUME IntercomServerAssumption ==
  /\ MaxClients \in Nat \ {0}
  /\ OutboxCapacity \in Nat \ {0}
  /\ QuietLimit \in Nat
  /\ MaxBells \in Nat
  /\ CountModulus \in Nat
  /\ CountModulus > MaxClients

Slots == 0 .. MaxClients - 1
Threads == Slots \cup {Listener, Forwarder}

ASSUME ThreadsAssumption ==
  /\ Listener \notin Int
  /\ Forwarder \notin Int
  /\ Nobody \notin Int
  /\ Listener # Forwarder
  /\ Nobody \notin {Listener, Forwarder}

VARIABLES
  slot_state,     \* client_slots[i].slot_state
  index,          \* client_slots[i].index
  outbox,         \* client_slots[i].outbox: "none", "live" or "destroyed"
  queued,         \* the number of packets in that outbox
  client_count,
  next_slot_idx,
  slots_mutex,    \* its owner, or Nobody
  seen,           \* intercoms->last_seen[i] # 0
  count,          \* intercoms->count
  unreported,     \* history: connections that ended without client information
  pc,             \* the next step of each thread
  newest,         \* the slot the listener filled last (new_client_socket)
  timed,          \* timed[i]: i's socket has its receive timeout
  waits,          \* waits[i]: i's receive in progress may time out
  quiet,          \* quiet[i]: i's receives in a row without a packet
  client,         \* what i's client does: "talks", "silent", "closed"
  bells           \* door requests that arrived so far

slotVars == <<slot_state, index, outbox, queued>>
nextVars == <<client_count, next_slot_idx, newest>>
listVars == <<seen, count, unreported>>
linkVars == <<timed, waits, quiet, client>>
vars == <<slotVars, nextVars, slots_mutex, listVars, pc, linkVars, bells>>

GoTo(t, from, to) ==
  /\ pc[t] = from
  /\ pc' = [pc EXCEPT ![t] = to]

Acquire(t) == slots_mutex = Nobody /\ slots_mutex' = t
Release == slots_mutex' = Nobody

\* next_slot_idx is an int8_t and MaxClients one more than its largest
\* value, so incrementing the index of the last slot wraps around.
Int8(n) == IF n = MaxClients THEN -MaxClients ELSE n

\* init_client_slots, and the shared list as ipc_init zeroed it.
Init ==
  /\ slot_state = [i \in Slots |-> "VACANT"]
  /\ index = [i \in Slots |-> -1]
  /\ outbox = [i \in Slots |-> "none"]
  /\ queued = [i \in Slots |-> 0]
  /\ client_count = 0
  /\ next_slot_idx = 0
  /\ newest = 0
  /\ slots_mutex = Nobody
  /\ seen = [i \in Slots |-> FALSE]
  /\ count = 0
  /\ unreported = 0
  /\ pc = [t \in Threads |->
            CASE t = Listener  -> "listening"
              [] t = Forwarder -> "waiting"
              [] OTHER         -> "none"]
  /\ timed = [i \in Slots |-> FALSE]
  /\ waits = [i \in Slots |-> FALSE]
  /\ quiet = [i \in Slots |-> 0]
  /\ client = [i \in Slots |-> "silent"]
  /\ bells = 0

-----------------------------------------------------------------------------
(* increment_next_client_slot, called by the listener without slots_mutex   *)
(* and by update_client_slots with it.                                      *)

\* Where a thread continues after the call.
After(t) == IF t = Listener THEN "listening" ELSE "unlock"

\* Every slot is counted as in use: there is no next slot.
SlotsExhausted(t) ==
  /\ GoTo(t, "next_check", After(t))
  /\ client_count >= MaxClients
  /\ next_slot_idx' = -1
  /\ UNCHANGED <<slotVars, client_count, newest, slots_mutex, listVars,
                 linkVars, bells>>

\* The index moves on before the mutex is taken.
BumpNextSlot(t) ==
  /\ GoTo(t, "next_check", "next_lock")
  /\ client_count < MaxClients
  /\ next_slot_idx' = IF Int8(next_slot_idx + 1) > MaxClients
                      THEN 0 ELSE Int8(next_slot_idx + 1)
  /\ UNCHANGED <<slotVars, client_count, newest, slots_mutex, listVars,
                 linkVars, bells>>

VacantFrom(n) == {i \in Slots : i >= n /\ slot_state[i] = "VACANT"}

\* Under the mutex, which is not recursive: a caller that holds it waits for
\* itself.  The index stays if its slot is vacant, else it moves up to the
\* next vacant one; with none left it wraps out of the array (Int8 keeps it
\* below the bound the loop tests).
NextSlotSearch(t) ==
  /\ GoTo(t, "next_lock", After(t))
  /\ slots_mutex = Nobody
  /\ next_slot_idx' =
       IF VacantFrom(next_slot_idx) # {}
       THEN CHOOSE i \in VacantFrom(next_slot_idx) :
              \A j \in VacantFrom(next_slot_idx) : i <= j
       ELSE Int8(MaxClients)
  /\ UNCHANGED <<slotVars, client_count, newest, slots_mutex, listVars, linkVars, bells>>

NextSlot(t) ==
  SlotsExhausted(t) \/ BumpNextSlot(t) \/ NextSlotSearch(t)

-----------------------------------------------------------------------------
(* listen_loop                                                              *)

\* A client connects; the loop only accepts while it knows a next slot.
Accept ==
  /\ GoTo(Listener, "listening", "accepted")
  /\ next_slot_idx >= 0
  /\ client_count < MaxClients
  /\ UNCHANGED <<slotVars, nextVars, slots_mutex, listVars, linkVars, bells>>

\* Mutant: the accepted client is not counted.
AssignSlotUncounted ==
  /\ pc[Listener] = "accepted"
  /\ slots_mutex = Nobody
  /\ LET i == next_slot_idx IN
       /\ slot_state' = [slot_state EXCEPT ![i] = "TAKEN"]
       /\ index' = [index EXCEPT ![i] = i]
       /\ pc' = [pc EXCEPT ![Listener] = "set_timeout", ![i] = "start"]
       /\ client' = [client EXCEPT ![i] = "talks"]
       /\ timed' = [timed EXCEPT ![i] = FALSE]
       /\ newest' = i
  /\ UNCHANGED <<outbox, queued, client_count, next_slot_idx, slots_mutex, listVars,
                 waits, quiet, bells>>

\* Under the mutex the slot is taken and counted, and its connection thread is
\* started.  Its socket has no receive timeout yet.
AssignSlot ==
  /\ pc[Listener] = "accepted"
  /\ slots_mutex = Nobody
  /\ LET i == next_slot_idx IN
       /\ slot_state' = [slot_state EXCEPT ![i] = "TAKEN"]
       /\ index' = [index EXCEPT ![i] = i]
       /\ pc' = [pc EXCEPT ![Listener] = "set_timeout", ![i] = "start"]
       /\ client' = [client EXCEPT ![i] = "talks"]
       /\ timed' = [timed EXCEPT ![i] = FALSE]
       /\ newest' = i
  /\ client_count' = client_count + 1
  /\ UNCHANGED <<outbox, queued, next_slot_idx, slots_mutex, listVars, waits, quiet, bells>>

\* setsockopt(SO_RCVTIMEO), after the thread that receives was started.
SetTimeout ==
  /\ GoTo(Listener, "set_timeout", "next_check")
  /\ timed' = [timed EXCEPT ![newest] = TRUE]
  /\ UNCHANGED <<slotVars, nextVars, slots_mutex, listVars, waits, quiet,
                 client, bells>>

-----------------------------------------------------------------------------
(* connection_task: the thread of slot i                                    *)

\* slots_mutex is locked, the outbox is created and the slot becomes active.
Activate(i) ==
  /\ GoTo(i, "start", "collect")
  /\ Acquire(i)
  /\ outbox' = [outbox EXCEPT ![i] = "live"]
  /\ queued' = [queued EXCEPT ![i] = 0]
  /\ slot_state' = [slot_state EXCEPT ![i] = "ACTIVE"]
  /\ UNCHANGED <<index, nextVars, listVars, linkVars, bells>>

Garbage == {j \in Slots : slot_state[j] = "GARBAGE"}

\* Mutant: the clean-up takes every slot that is not active.
CollectInactive(i) ==
  /\ GoTo(i, "collect", "collected")
  /\ \A j \in Garbage \ {i} : pc[j] = "done"
  /\ slot_state' = [j \in Slots |->
       IF slot_state[j] # "ACTIVE" THEN "VACANT" ELSE slot_state[j]]
  /\ index' = [j \in Slots |-> IF slot_state[j] # "ACTIVE" THEN -1 ELSE index[j]]
  /\ UNCHANGED <<outbox, queued, nextVars, slots_mutex, listVars, linkVars, bells>>

\* update_client_slots: garbage slots become vacant.  Joining the thread of
\* another slot waits for its end; joining oneself fails at once.
Collect(i) ==
  /\ GoTo(i, "collect", "collected")
  /\ \A j \in Garbage \ {i} : pc[j] = "done"
  /\ slot_state' = [j \in Slots |-> IF j \in Garbage THEN "VACANT" ELSE slot_state[j]]
  /\ index' = [j \in Slots |-> IF j \in Garbage THEN -1 ELSE index[j]]
  /\ UNCHANGED <<outbox, queued, nextVars, slots_mutex, listVars, linkVars,
                 bells>>

\* update_client_slots: a next slot is looked for if none was known.
Collected(i) ==
  /\ GoTo(i, "collected", IF next_slot_idx < 0 THEN "next_check" ELSE "unlock")
  /\ UNCHANGED <<slotVars, nextVars, slots_mutex, listVars, linkVars, bells>>

\* The thread goes on to serve its client, or ends.
UnlockSlots(i) ==
  /\ GoTo(i, "unlock", IF slot_state[i] = "ACTIVE" THEN "serve" ELSE "done")
  /\ Release
  /\ UNCHANGED <<slotVars, nextVars, listVars, linkVars, bells>>

\* connection_check_outbox: the next packet is sent to the client.
SendQueued(i) ==
  /\ pc[i] = "serve"
  /\ queued[i] > 0
  /\ queued' = [queued EXCEPT ![i] = @ - 1]
  /\ UNCHANGED <<slot_state, index, outbox, nextVars, slots_mutex, listVars,
                 pc, linkVars, bells>>

\* The outbox is empty: a receive starts.  Whether it can time out is decided
\* now.
StartReceive(i) ==
  /\ GoTo(i, "serve", "receive")
  /\ queued[i] = 0
  /\ waits' = [waits EXCEPT ![i] = timed[i]]
  /\ UNCHANGED <<slotVars, nextVars, slots_mutex, listVars, timed, quiet,
                 client, bells>>

\* A packet arrived.
Received(i) ==
  /\ GoTo(i, "receive", "serve")
  /\ client[i] = "talks"
  /\ quiet' = [quiet EXCEPT ![i] = 0]

\* process_request_from_intercom, SYNC_TIME: the time is queued for the
\* client, or dropped if its outbox is full, and the door list is sent.
SyncTime(i) ==
  /\ Received(i)
  /\ queued' = [queued EXCEPT ![i] = IF @ < OutboxCapacity THEN @ + 1 ELSE @]
  /\ UNCHANGED <<slot_state, index, outbox, nextVars, slots_mutex, listVars,
                 timed, waits, client, bells>>

\* Mutant: a client is counted whenever it reports.
UpdateInfoAlwaysCounts(i) ==
  /\ Received(i)
  /\ count' = (count + 1) % CountModulus
  /\ seen' = [seen EXCEPT ![index[i]] = TRUE]
  /\ UNCHANGED <<slotVars, nextVars, slots_mutex, unreported, timed, waits, client, bells>>

\* connection_update_client_info, under the list's semaphore: a client seen
\* for the first time is counted.
UpdateInfo(i) ==
  /\ Received(i)
  /\ count' = IF seen[index[i]] THEN count ELSE (count + 1) % CountModulus
  /\ seen' = [seen EXCEPT ![index[i]] = TRUE]
  /\ UNCHANGED <<slotVars, nextVars, slots_mutex, unreported, timed, waits, client, bells>>

\* Any other request is put into clients_to_doors_queue, the source of
\* MessagePath; a report or an invalid packet is ignored.  Neither changes
\* what this module keeps.
PassPacket(i) ==
  /\ Received(i)
  /\ UNCHANGED <<slotVars, nextVars, slots_mutex, listVars, timed, waits, client, bells>>

\* Mutant: a fruitless receive is repeated until a packet arrives.
ReceiveForever(i) ==
  /\ GoTo(i, "receive", "receive")
  /\ waits[i] \/ client[i] = "closed"
  /\ UNCHANGED <<slotVars, nextVars, slots_mutex, listVars, linkVars, bells>>

\* The receive brought nothing: it timed out, or the client has closed.  The
\* loop gives up after QuietLimit of these (15 s of silence or 100 errors).
ReceiveNothing(i) ==
  /\ GoTo(i, "receive", IF quiet[i] >= QuietLimit THEN "leave" ELSE "serve")
  /\ waits[i] \/ client[i] = "closed"
  /\ quiet' = [quiet EXCEPT ![i] = IF @ >= QuietLimit THEN @ ELSE @ + 1]
  /\ UNCHANGED <<slotVars, nextVars, slots_mutex, listVars, timed, waits,
                 client, bells>>

\* The socket is closed, and connection_remove_client_info, under the list's
\* semaphore, forgets the client.
RemoveInfo(i) ==
  /\ GoTo(i, "leave", "end")
  /\ client' = [client EXCEPT ![i] = "closed"]
  /\ timed' = [timed EXCEPT ![i] = FALSE]
  /\ waits' = [waits EXCEPT ![i] = FALSE]
  /\ quiet' = [quiet EXCEPT ![i] = 0]
  /\ seen' = [seen EXCEPT ![index[i]] = FALSE]
  /\ count' = (count - 1) % CountModulus
  /\ unreported' = IF seen[index[i]] THEN unreported ELSE unreported + 1
  /\ UNCHANGED <<slotVars, nextVars, slots_mutex, bells>>

\* Mutant: an ended connection gives its place in client_count back.
RetireUncounted(i) ==
  /\ GoTo(i, "end", "collect")
  /\ Acquire(i)
  /\ outbox' = [outbox EXCEPT ![i] = "destroyed"]
  /\ queued' = [queued EXCEPT ![i] = 0]
  /\ slot_state' = [slot_state EXCEPT ![i] = "GARBAGE"]
  /\ client_count' = client_count - 1
  /\ UNCHANGED <<index, next_slot_idx, newest, listVars, linkVars,
                 bells>>

\* slots_mutex is locked, the outbox is destroyed and the slot becomes garbage.
Retire(i) ==
  /\ GoTo(i, "end", "collect")
  /\ Acquire(i)
  /\ outbox' = [outbox EXCEPT ![i] = "destroyed"]
  /\ queued' = [queued EXCEPT ![i] = 0]
  /\ slot_state' = [slot_state EXCEPT ![i] = "GARBAGE"]
  /\ UNCHANGED <<index, nextVars, listVars, linkVars, bells>>

\* The client itself: it falls silent (its link is lost) or closes.
Quit(i) ==
  /\ client[i] = "talks"
  /\ \E how \in {"silent", "closed"} : client' = [client EXCEPT ![i] = how]
  /\ UNCHANGED <<slotVars, nextVars, slots_mutex, listVars, pc, timed, waits,
                 quiet, bells>>

-----------------------------------------------------------------------------
(* The forwarder                                                            *)

\* ipc_in_loop received a door's request.
BellArrives ==
  /\ bells < MaxBells
  /\ bells' = bells + 1
  /\ GoTo(Forwarder, "waiting", "forward")
  /\ UNCHANGED <<slotVars, nextVars, slots_mutex, listVars, linkVars>>

Active == {i \in Slots : slot_state[i] = "ACTIVE"}

\* forward_door_to_client_request, under the mutex: to the first active client;
\* dropped if there is none or its outbox is full.
Forward ==
  /\ GoTo(Forwarder, "forward", "waiting")
  /\ slots_mutex = Nobody
  /\ queued' = [i \in Slots |->
       IF /\ i \in Active
          /\ \A j \in Active : i <= j
          /\ queued[i] < OutboxCapacity
       THEN queued[i] + 1 ELSE queued[i]]
  /\ UNCHANGED <<slot_state, index, outbox, nextVars, slots_mutex, listVars,
                 linkVars, bells>>

-----------------------------------------------------------------------------

\* The steps a thread takes on its own, without waiting for a client.
ListenerStep == AssignSlot \/ SetTimeout \/ NextSlot(Listener)
ConnectionStep(i) ==
  \/ Activate(i) \/ Collect(i) \/ Collected(i) \/ UnlockSlots(i)
  \/ NextSlot(i) \/ SendQueued(i) \/ StartReceive(i) \/ ReceiveNothing(i)
  \/ RemoveInfo(i) \/ Retire(i)

\* The packets a client may send at any time.
ClientPacket(i) == SyncTime(i) \/ UpdateInfo(i) \/ PassPacket(i)

Next ==
  \/ Accept \/ ListenerStep
  \/ BellArrives \/ Forward
  \/ \E i \in Slots : ConnectionStep(i) \/ ClientPacket(i) \/ Quit(i)

Spec == Init /\ [][Next]_vars

\* The scheduler runs every thread that can step, and a thread that waits for
\* the mutex gets it.  Nothing is assumed of clients, doors or the network.
FairSpec ==
  /\ Spec
  /\ WF_vars(ListenerStep)
  /\ WF_vars(Forward)
  /\ \A i \in Slots : WF_vars(ConnectionStep(i))

-----------------------------------------------------------------------------
(* Properties                                                               *)

Steps == {"listening", "accepted", "set_timeout",
          "next_check", "next_lock",
          "none", "start", "collect", "collected", "unlock",
          "serve", "receive", "leave", "end", "done",
          "waiting", "forward"}

\* Every variable keeps its type: the counters stay within their widths and
\* no outbox holds more than its capacity.
TypeOK ==
  /\ slot_state \in [Slots -> {"VACANT", "TAKEN", "ACTIVE", "GARBAGE"}]
  /\ index \in [Slots -> Slots \cup {-1}]
  /\ outbox \in [Slots -> {"none", "live", "destroyed"}]
  /\ queued \in [Slots -> 0 .. OutboxCapacity]
  /\ client_count \in 0 .. MaxClients
  /\ next_slot_idx \in -1 .. MaxClients - 1
  /\ slots_mutex \in Threads \cup {Nobody}
  /\ seen \in [Slots -> BOOLEAN]
  /\ count \in 0 .. CountModulus - 1
  /\ unreported \in Nat
  /\ pc \in [Threads -> Steps]
  /\ newest \in Slots
  /\ timed \in [Slots -> BOOLEAN]
  /\ waits \in [Slots -> BOOLEAN]
  /\ quiet \in [Slots -> 0 .. QuietLimit]
  /\ client \in [Slots -> {"talks", "silent", "closed"}]
  /\ bells \in 0 .. MaxBells

\* Whenever the listener is about to accept into next_slot_idx, that slot is
\* inside the array, vacant and without a thread, although it was chosen
\* outside any lock and connections came and went since.
NextSlotFree ==
  pc[Listener] \in {"listening", "accepted"} /\ next_slot_idx # -1
    => /\ next_slot_idx \in Slots
       /\ slot_state[next_slot_idx] = "VACANT"
       /\ pc[next_slot_idx] = "none"

\* No thread that holds slots_mutex comes to lock it again, although
\* update_client_slots, called with it, may call a function that locks it.
NoSelfDeadlock == \A t \in Threads : pc[t] = "next_lock" => slots_mutex # t

\* A connection that uses its slot (its index into the shared list, its
\* outbox) still owns it: no clean-up by another connection took it away.
ConnectionOwnsSlot ==
  \A i \in Slots :
    pc[i] \in {"serve", "receive", "leave", "end"}
      => slot_state[i] = "ACTIVE" /\ index[i] = i /\ outbox[i] = "live"

\* Outside the mutex a slot is active exactly while its outbox is live, so
\* the forwarder never queues into a destroyed outbox, and no slot is left as
\* garbage for a clean-up that may never come.
OutboxFollowsSlot ==
  slots_mutex = Nobody =>
    \A i \in Slots : /\ slot_state[i] = "ACTIVE" <=> outbox[i] = "live"
                     /\ slot_state[i] # "GARBAGE"

Seen == {i \in Slots : seen[i]}

\* The shared count is the number of clients listed as seen (the comments on
\* connection_update_client_info and connection_remove_client_info).
CountMatchesList == count = Cardinality(Seen)

\* What holds of the count whatever the order in which clients report and
\* leave: it is short by one for each connection that ended before its client
\* reported, and by nothing else.
CountAccounted == (count + unreported) % CountModulus = Cardinality(Seen)

\* A connection whose client fell silent or closed is given up, and its slot
\* becomes vacant, once its receives can time out.
QuietClientLeaves ==
  \A i \in Slots :
    (pc[i] = "receive" /\ client[i] # "talks" /\ waits[i])
      ~> (pc[i] = "done" /\ slot_state[i] = "VACANT")
=============================================================================
