----------------------------- MODULE EventPath -----------------------------
(***************************************************************************)
(* The way from a door unit's event log and data register to the hub:      *)
(* event_log.c and i2c_io.c on the door unit, the poll of                  *)
(* door_manager_i2c.c on the hub.                                          *)
(*                                                                         *)
(* Tasks of the door unit append events, and write data that a DATA_READY  *)
(* event announces.  The hub reads the log's length, each entry, the       *)
(* announced data in parts, and then clears the log, in one I2C            *)
(* transaction each.  A transaction is served by the door's I2C interrupt, *)
(* which is one step with respect to the tasks, and any of them may fail.  *)
(* Events are numbered in the order in which they are stored, data in the  *)
(* order in which they are written.                                        *)
(***************************************************************************)
EXTENDS Naturals, Sequences, FiniteSets

CONSTANTS
  Tasks,       \* the tasks that append events and send data
  NoTask,
  Capacity,    \* EVENT_LOG_CAPACITY
  Parts,       \* the reads of chunk_len bytes that one data packet takes
  MaxCalls,    \* bound: events and data the tasks report after boot
  MaxFaults    \* bound: transactions that fail

ASSUME EventPathAssumption ==
  /\ IsFiniteSet(Tasks) /\ Tasks # {}
  /\ NoTask \notin Tasks
  /\ Capacity \in Nat /\ Capacity >= 3   \* the three events of a boot fit
  /\ Parts \in Nat \ {0}
  /\ MaxCalls \in Nat
  /\ MaxFaults \in Nat

Mutex == INSTANCE RtosMutex

Events == 1 .. MaxCalls + 3
Data == 1 .. MaxCalls + 1
NoData == 0

VARIABLES
  mutex,      \* event_log_lock
  log,        \* event_log_buffer, up to event_log_length
  register,   \* i2c_data_register, data_len, data_offset and data_dirty
  pc,         \* the next step of each task
  carried,    \* the data a task is about to announce, if any
  halted,     \* an assertion of the kernel failed: the unit stands still
  calls,      \* the reports started so far
  hub,        \* the poll: its step, queue_length, j, and what data it has read
  faults,     \* transactions that failed so far
  stored,     \* history: the number of events stored so far
  sent,       \* history: the number of data written so far
  announces,  \* history: the data each event announces
  handled,    \* history: the events the hub processed, in order
  late,       \* history: events stored while the hub was between count and clear
  unread,     \* history: events the hub asked for without getting them
  disturbed   \* history: what has upset the exchange of data

door == <<mutex, log, register, halted>>
tasks == <<pc, carried, calls>>
history == <<stored, sent, announces, handled, late, unread, disturbed>>
vars == <<door, tasks, hub, faults, history>>

Empty == [data |-> NoData, len |-> 0, offset |-> 0, dirty |-> FALSE]
Filled(d) == [data |-> d, len |-> Parts, offset |-> 0, dirty |-> TRUE]

\* After boot the log holds FRESH_BOOT, DOOR_CLOSED and the DATA_READY of the
\* unit's first information.
Init ==
  /\ mutex = Mutex!Free
  /\ log = <<1, 2, 3>>
  /\ register = Filled(1)
  /\ pc = [t \in Tasks |-> "idle"]
  /\ carried = [t \in Tasks |-> NoData]
  /\ halted = FALSE
  /\ calls = 0
  /\ hub = [at |-> "count", count |-> 0, j |-> 0, event |-> 0, got |-> <<>>]
  /\ faults = 0
  /\ stored = 3
  /\ sent = 1
  /\ announces = [e \in Events |-> IF e = 3 THEN 1 ELSE NoData]
  /\ handled = <<>>
  /\ late = {}
  /\ unread = {}
  /\ disturbed = {}

-----------------------------------------------------------------------------
(* The tasks of the door unit                                               *)

GoTo(t, from, to) ==
  /\ ~halted
  /\ pc[t] = from
  /\ pc' = [pc EXCEPT ![t] = to]

Call(t, to) ==
  /\ GoTo(t, "idle", to)
  /\ calls < MaxCalls
  /\ calls' = calls + 1
  /\ UNCHANGED <<door, carried, hub, faults, history>>

\* event_log_append of an event without data
Report(t) == Call(t, "append")

\* i2c_send_data
SendData(t) == Call(t, "wait")

\* The task leaves the loop that waits for the register.
SendReady(t) ==
  /\ GoTo(t, "wait", "write")
  /\ ~register.dirty
  /\ UNCHANGED <<door, carried, calls, hub, faults, history>>

\* Between the look at data_dirty and this step another task may have
\* filled the register.
SendWrite(t) ==
  /\ GoTo(t, "write", "append")
  /\ sent' = sent + 1
  /\ register' = Filled(sent')
  /\ carried' = [carried EXCEPT ![t] = sent']
  /\ disturbed' = disturbed \cup (IF register.dirty THEN {"race"} ELSE {})
  /\ UNCHANGED <<mutex, log, halted, calls, hub, faults,
                 stored, announces, handled, late, unread>>

\* Mutant: one event too many is let in.
RoomForOneMore == Len(log) <= Capacity

Room == Len(log) < Capacity

\* The look at the length, before the mutex is taken.
AppendCheck(t) ==
  /\ GoTo(t, "append", IF Room THEN "take" ELSE "idle")
  /\ carried' = IF Room THEN carried ELSE [carried EXCEPT ![t] = NoData]
  /\ UNCHANGED <<door, calls, hub, faults, history>>

AppendTake(t) ==
  /\ GoTo(t, "take", "store")
  /\ mutex.avail
  /\ mutex' = Mutex!TakenBy(t)
  /\ UNCHANGED <<log, register, halted, carried, calls, hub, faults, history>>

AppendStore(t) ==
  /\ GoTo(t, "store", "idle")
  /\ mutex' = Mutex!Free
  /\ stored' = stored + 1
  /\ log' = Append(log, stored')
  /\ announces' = [announces EXCEPT ![stored'] = carried[t]]
  /\ carried' = [carried EXCEPT ![t] = NoData]
  /\ late' = late \cup (IF hub.at = "count" THEN {} ELSE {stored'})
  /\ UNCHANGED <<register, halted, calls, hub, faults,
                 sent, handled, unread, disturbed>>

TaskStep(t) ==
  \/ SendReady(t) \/ SendWrite(t)
  \/ AppendCheck(t) \/ AppendTake(t) \/ AppendStore(t)

-----------------------------------------------------------------------------
(* The hub's poll, with the door's interrupt that serves it                 *)

\* The interrupt takes and gives the log's mutex.
ServeLog ==
  /\ Mutex!MayGiveFromISR(mutex)
  /\ mutex' = Mutex!GivenFromISR(mutex)

\* Mutant: the last entry is not read.
MoreButLast(j, count) == j + 1 < count

More(j, count) == j < count

\* The poll goes on with the next entry, or clears the log.
NextEntry == [hub EXCEPT !.j = @ + 1,
                         !.at = IF More(hub.j + 1, hub.count) THEN "entry" ELSE "clear"]

At(step) == ~halted /\ hub.at = step

\* I2C_REG_EVENT_COUNT is read.
ReadCount ==
  /\ At("count")
  /\ ServeLog
  /\ hub' = IF Len(log) > 0
            THEN [hub EXCEPT !.count = Len(log), !.j = 0, !.event = 0, !.got = <<>>,
                             !.at = IF More(0, Len(log)) THEN "entry" ELSE "clear"]
            ELSE hub
  /\ UNCHANGED <<log, register, halted, tasks, faults, history>>

\* What the hub does with entry j: a plain event is processed, a DATA_READY is
\* followed by reads of the data register.
ProcessEntry ==
  LET e == log[hub.j + 1]
  IN  /\ handled' = Append(handled, e)
      /\ hub' = IF announces[e] = NoData THEN [NextEntry EXCEPT !.event = e, !.got = <<>>]
                ELSE [hub EXCEPT !.at = "data", !.event = e, !.got = <<>>]
      /\ UNCHANGED <<log, register, halted, tasks, faults,
                     stored, sent, announces, late, unread, disturbed>>

\* I2C_REG_EVENT_HEAD is read.
ReadEntry ==
  /\ At("entry")
  /\ hub.j < Capacity
  /\ ServeLog
  /\ ProcessEntry

\* An index behind the log: the interrupt returns NULL with the mutex taken,
\* and what the hub reads is no event.
ReadBeyond ==
  /\ At("entry")
  /\ hub.j >= Capacity
  /\ mutex' = Mutex!TakenFromISR(mutex)
  /\ unread' = unread \cup {log[hub.j + 1]}
  /\ hub' = NextEntry
  /\ UNCHANGED <<log, register, halted, tasks, faults,
                 stored, sent, announces, handled, late, disturbed>>

\* Mutant: the register is free again after the first part.
AdvancedEarly(r) ==
  IF r.offset + 1 >= r.len THEN [Empty EXCEPT !.data = r.data]
  ELSE [r EXCEPT !.offset = @ + 1, !.dirty = FALSE]

\* Mutant: the comparison with the length is off by one.
AdvancedLate(r) ==
  IF r.offset + 1 > r.len THEN [Empty EXCEPT !.data = r.data]
  ELSE [r EXCEPT !.offset = @ + 1]

\* process_i2c_tx: the offset moves on; at the end the register is free.
Advanced(r) ==
  IF r.offset + 1 >= r.len THEN [Empty EXCEPT !.data = r.data]
  ELSE [r EXCEPT !.offset = @ + 1]

\* The hub reads a part of the data register; after the last one it processes
\* the data.
ReadPart ==
  /\ At("data")
  /\ LET part == [data |-> register.data, part |-> register.offset]
         got == Append(hub.got, part)
     IN  hub' = IF Len(got) = Parts THEN [NextEntry EXCEPT !.got = got]
                ELSE [hub EXCEPT !.got = got]
  /\ register' = Advanced(register)
  /\ UNCHANGED <<mutex, log, halted, tasks, faults, history>>

\* Mutant: event_log_clear keeps the length.
ClearNothing ==
  /\ At("clear")
  /\ ServeLog
  /\ hub' = [hub EXCEPT !.at = "count"]
  /\ UNCHANGED <<log, register, halted, tasks, faults, history>>

\* event_log_clear, on the hub's write to I2C_REG_EVENT_COUNT.
Clear ==
  /\ At("clear")
  /\ ServeLog
  /\ log' = <<>>
  /\ hub' = [hub EXCEPT !.at = "count"]
  /\ UNCHANGED <<register, halted, tasks, faults, history>>

\* A task holds the mutex: the kernel's assertion fails in the interrupt.
Halt ==
  /\ \/ At("count")
     \/ At("entry") /\ hub.j < Capacity
     \/ At("clear")
  /\ ~Mutex!MayGiveFromISR(mutex)
  /\ halted' = TRUE
  /\ log' = IF hub.at = "clear" THEN <<>> ELSE log
  /\ UNCHANGED <<mutex, register, tasks, hub, faults, history>>

-----------------------------------------------------------------------------
(* A transaction fails before it has an effect on the door                  *)

Fault(step) ==
  /\ At(step)
  /\ faults < MaxFaults
  /\ faults' = faults + 1
  /\ UNCHANGED <<door, tasks, stored, sent, announces, handled, late>>

\* The poll of this door is given up.
CountFails == Fault("count") /\ UNCHANGED <<hub, unread, disturbed>>

\* The result of the read is ignored: the zeroed buffer is no event.
EntryFails ==
  /\ Fault("entry")
  /\ unread' = unread \cup {log[hub.j + 1]}
  /\ hub' = NextEntry
  /\ UNCHANGED disturbed

\* The hub processes the parts it has and reads no more of them.
PartFails ==
  /\ Fault("data")
  /\ hub' = NextEntry
  /\ disturbed' = disturbed \cup {"part"}
  /\ UNCHANGED unread

\* The log stays, and the hub will read its events once more.
ClearFails ==
  /\ Fault("clear")
  /\ hub' = [hub EXCEPT !.at = "count"]
  /\ disturbed' = disturbed \cup {"clear"}
  /\ UNCHANGED unread

HubStep ==
  \/ ReadCount \/ ReadEntry \/ ReadBeyond \/ ReadPart \/ Clear \/ Halt
  \/ CountFails \/ EntryFails \/ PartFails \/ ClearFails

Next ==
  \/ \E t \in Tasks : Report(t) \/ SendData(t) \/ TaskStep(t)
  \/ HubStep

Spec == Init /\ [][Next]_vars

\* A task that is inside a call goes on when it can, and the hub polls for
\* ever.  Nothing forces a task to report.
FairSpec ==
  /\ Spec
  /\ \A t \in Tasks : WF_vars(TaskStep(t))
  /\ WF_vars(HubStep)

-----------------------------------------------------------------------------
(* Properties                                                               *)

TaskSteps == {"idle", "wait", "write", "append", "take", "store"}
HubSteps == {"count", "entry", "data", "clear"}
Overrun == Capacity + Cardinality(Tasks) - 1

\* Every variable keeps its type.
TypeOK ==
  /\ mutex \in [avail : BOOLEAN, holder : Tasks \cup {NoTask}]
  /\ log \in Seq(Events)
  /\ register \in [data : Data \cup {NoData}, len : {0, Parts},
                   offset : 0 .. Parts - 1, dirty : BOOLEAN]
  /\ pc \in [Tasks -> TaskSteps]
  /\ carried \in [Tasks -> Data \cup {NoData}]
  /\ halted \in BOOLEAN
  /\ calls \in 0 .. MaxCalls
  /\ hub.at \in HubSteps
  /\ hub.count \in Nat /\ hub.j \in 0 .. hub.count
  /\ hub.event \in Events \cup {0}
  /\ hub.got \in Seq([data : Data \cup {NoData}, part : 0 .. Parts - 1])
  /\ faults \in 0 .. MaxFaults
  /\ stored \in 3 .. MaxCalls + 3
  /\ sent \in 1 .. MaxCalls + 1
  /\ announces \in [Events -> Data \cup {NoData}]
  /\ handled \in Seq(Events)
  /\ late \subseteq Events
  /\ unread \subseteq Events

Recorded == 1 .. stored
InLog == {log[i] : i \in DOMAIN log}
Processed == {handled[i] : i \in DOMAIN handled}

\* An event is lost on its way only if it was stored between the hub's look
\* at the length and its clear, or if the hub's own read of it went wrong.
Accounted == Recorded \subseteq Processed \cup InLog \cup late \cup unread

\* The hub processes an event once and in the order of storage, until one of
\* its clears fails.
OnceInOrder ==
  "clear" \notin disturbed =>
    \A i, k \in DOMAIN handled : i < k => handled[i] < handled[k]

\* The unlocked look at the length lets the log outgrow its buffer by no more
\* than one event for each task but one, and only then can the hub's read of
\* an entry behind the buffer keep the mutex.
LogWithinBounds ==
  /\ Len(log) <= Overrun
  /\ Mutex!Leaked(mutex) => Len(log) > Capacity

\* The parts the hub reads after a DATA_READY are those of the data it
\* announces, in order: the log and the register agree, although they are
\* separate.  Two tasks that both found the register free, a part that could
\* not be read, or events read twice undo this.
DataMatches ==
  disturbed = {} =>
    \A i \in DOMAIN hub.got :
      hub.got[i] = [data |-> announces[hub.event], part |-> i - 1]

\* An event in the log is processed, or lost in one of the known ways, or the
\* unit halts.
EventCollected ==
  \A e \in Events :
    (e \in InLog) ~> (e \in Processed \cup late \cup unread \/ halted)

\* The event that announces the register's data was lost: refused by a full
\* log, or lost on its way.
AnnouncementLost ==
  \/ \E e \in late \cup unread : announces[e] = register.data
  \/ /\ \A e \in Recorded : announces[e] # register.data
     /\ \A t \in Tasks : carried[t] # register.data

\* The data register becomes free again, so that the task that waits for it
\* goes on, unless its announcement is lost, the hub stops reading in the
\* middle of it, or the unit halts.
RegisterFreed ==
  register.dirty ~>
    (~register.dirty \/ halted \/ AnnouncementLost \/ disturbed # {})
=============================================================================
