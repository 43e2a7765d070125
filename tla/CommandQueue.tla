---------------------------- MODULE CommandQueue ----------------------------
(***************************************************************************)
(* hub_comms.c: the two rings through which the hub's commands reach the   *)
(* comms task of a door unit.                                              *)
(*                                                                         *)
(* comms_enqueue_command runs in the I2C interrupt: it is one step with    *)
(* respect to tasks, and it ignores whether its take of the mutex          *)
(* succeeded.  comms_check_command_queue runs in the comms task and may be *)
(* interrupted between any two of its steps, in particular while a command *)
(* is carried out (a door that moves takes seconds), with the mutex held.  *)
(* Commands are numbered in the order in which the hub writes them.        *)
(***************************************************************************)
EXTENDS Naturals

CONSTANTS
  GeneralCapacity,    \* GENERAL_COMMAND_QUEUE_CAPACITY
  PriorityCapacity,   \* PRIORITY_COMMAND_QUEUE_CAPACITY
  MaxCommands,        \* bound: the commands the hub writes
  Comms,              \* the comms task
  NoTask,
  Blank               \* memory no command was stored in

ASSUME CommandQueueAssumption ==
  /\ GeneralCapacity \in Nat \ {0}
  /\ PriorityCapacity \in Nat \ {0}
  /\ MaxCommands \in Nat
  /\ Comms # NoTask
  /\ Blank \notin Nat

Mutex == INSTANCE RtosMutex

Queues == {"general", "priority"}
Capacity(q) == IF q = "general" THEN GeneralCapacity ELSE PriorityCapacity
Slots(q) == 0 .. Capacity(q) - 1
Commands == 1 .. MaxCommands

VARIABLES
  mutex,     \* command_queues_lock
  head,      \* general_ and priority_command_queue_head
  len,       \* general_ and priority_command_queue_len
  slot,      \* general_ and priority_command_queue
  pc,        \* the next step of the comms task
  current,   \* what cmd_ptr points at while a command is carried out
  halted,    \* an assertion of the kernel failed: the unit stands still
  written,   \* the number of commands the hub has written
  newest,    \* history: the command each ring accepted last
  accepted,  \* history: the commands each ring accepted
  runs       \* history: how often each command was carried out, up to twice

ringVars == <<head, len, slot>>
history == <<newest, accepted, runs>>
vars == <<mutex, ringVars, pc, current, halted, written, history>>

\* comms_init
Init ==
  /\ mutex = Mutex!Free
  /\ head = [q \in Queues |-> 0]
  /\ len = [q \in Queues |-> 0]
  /\ slot = [q \in Queues |-> [i \in Slots(q) |-> Blank]]
  /\ pc = "idle"
  /\ current = Blank
  /\ halted = FALSE
  /\ written = 0
  /\ newest = [q \in Queues |-> Blank]
  /\ accepted = [q \in Queues |-> {}]
  /\ runs = [c \in Commands |-> 0]

-----------------------------------------------------------------------------
(* comms_enqueue_command, in the I2C interrupt                              *)

\* Mutant: the kernel is built without assertions.
GiveAtEndUnchecked ==
  /\ halted' = FALSE
  /\ mutex' = Mutex!GivenFromISR(mutex)

\* Mutant: the give is left out.
GiveAtEndForgotten ==
  /\ halted' = FALSE
  /\ mutex' = Mutex!TakenFromISR(mutex)

\* The interrupt ends by giving the mutex; with the comms task inside it the
\* kernel's assertion fails.
GiveAtEnd ==
  /\ halted' = ~Mutex!MayGiveFromISR(mutex)
  /\ mutex' = IF halted' THEN mutex ELSE Mutex!GivenFromISR(mutex)

TailOf(q) ==
  LET tail_idx == head[q] + len[q]
  IN  IF tail_idx >= Capacity(q) THEN tail_idx - Capacity(q) ELSE tail_idx

\* The command is stored behind the ones already queued.
Enqueue(q) ==
  /\ ~halted
  /\ written < MaxCommands
  /\ written' = written + 1
  /\ len[q] < Capacity(q)
  /\ slot' = [slot EXCEPT ![q][TailOf(q)] = written']
  /\ len' = [len EXCEPT ![q] = @ + 1]
  /\ newest' = [newest EXCEPT ![q] = written']
  /\ accepted' = [accepted EXCEPT ![q] = @ \cup {written'}]
  /\ GiveAtEnd
  /\ UNCHANGED <<head, pc, current, runs>>

\* The ring is full: the early return leaves out the give.
Refuse(q) ==
  /\ ~halted
  /\ written < MaxCommands
  /\ written' = written + 1
  /\ len[q] >= Capacity(q)
  /\ mutex' = Mutex!TakenFromISR(mutex)
  /\ UNCHANGED <<ringVars, pc, current, halted, history>>

-----------------------------------------------------------------------------
(* comms_check_command_queue, in the comms task                             *)

GoTo(from, to) ==
  /\ ~halted
  /\ pc = from
  /\ pc' = to

Take ==
  /\ GoTo("idle", "check_priority")
  /\ mutex.avail
  /\ mutex' = Mutex!TakenBy(Comms)
  /\ UNCHANGED <<ringVars, current, halted, written, history>>

\* An index behind the ring's last slot is only wrapped if it is beyond the
\* slot after it.
Wrap(q, i) == IF i > Capacity(q) THEN i - Capacity(q) ELSE i

\* Mutant: a command is read at the head.
ReadIndexHead(q) == Wrap(q, head[q])

ReadIndex(q) == Wrap(q, head[q] + (len[q] - 1))

\* What cmd_ptr may point at: one slot past the ring lies other memory, which
\* may hold any command written so far or none.
Read(q) ==
  IF ReadIndex(q) \in Slots(q) THEN {slot[q][ReadIndex(q)]}
  ELSE (1 .. written) \cup {Blank}

\* A command leaves ring q: it is read at the tail's index while the head
\* moves on.
Pop(q) ==
  /\ len[q] > 0
  /\ current' \in Read(q)
  /\ head' = [head EXCEPT ![q] = Wrap(q, @ + 1)]
  /\ len' = [len EXCEPT ![q] = @ - 1]
  /\ UNCHANGED <<mutex, slot, halted, written, history>>

PopPriority == GoTo("check_priority", "run_priority") /\ Pop("priority")

PriorityDone ==
  /\ GoTo("check_priority", "check_general")
  /\ len["priority"] = 0
  /\ UNCHANGED <<mutex, ringVars, current, halted, written, history>>

\* A general command waits: the task sleeps before it is taken.
GeneralDelay ==
  /\ GoTo("check_general", "pop_general")
  /\ len["general"] > 0
  /\ UNCHANGED <<mutex, ringVars, current, halted, written, history>>

PopGeneral == GoTo("pop_general", "run_general") /\ Pop("general")

GeneralEmpty ==
  /\ GoTo("check_general", "give")
  /\ len["general"] = 0
  /\ UNCHANGED <<mutex, ringVars, current, halted, written, history>>

\* comms_process_command returns: back to the priority ring's loop, or on to
\* the end.
Processed ==
  /\ \/ GoTo("run_priority", "check_priority")
     \/ GoTo("run_general", "give")
  /\ runs' = IF current \in Commands
             THEN [runs EXCEPT ![current] = IF @ < 2 THEN @ + 1 ELSE @] ELSE runs
  /\ current' = Blank
  /\ UNCHANGED <<mutex, ringVars, halted, written, newest, accepted>>

\* Mutant: the loop ends with the mutex held.
GiveForgotten ==
  /\ GoTo("give", "idle")
  /\ UNCHANGED <<mutex, ringVars, current, halted, written, history>>

Give ==
  /\ GoTo("give", "idle")
  /\ mutex' = Mutex!Free
  /\ UNCHANGED <<ringVars, current, halted, written, history>>

-----------------------------------------------------------------------------

Command == \E q \in Queues : Enqueue(q) \/ Refuse(q)

CommsTask ==
  \/ Take \/ PopPriority \/ PriorityDone \/ GeneralDelay \/ PopGeneral
  \/ GeneralEmpty \/ Processed \/ Give

Next == Command \/ CommsTask

Spec == Init /\ [][Next]_vars

\* The scheduler runs the comms task whenever it can step.  Nothing is
\* assumed of the hub.
FairSpec == Spec /\ WF_vars(CommsTask)

-----------------------------------------------------------------------------
(* Properties                                                               *)

Steps == {"idle", "check_priority", "run_priority", "check_general",
          "pop_general", "run_general", "give"}

\* Every variable keeps its type.  A head may stand one slot past its ring,
\* but never further.
TypeOK ==
  /\ mutex \in [avail : BOOLEAN, holder : {Comms, NoTask}]
  /\ \A q \in Queues : /\ head[q] \in 0 .. Capacity(q)
                       /\ len[q] \in 0 .. Capacity(q)
                       /\ slot[q] \in [Slots(q) -> Commands \cup {Blank}]
                       /\ newest[q] \in Commands \cup {Blank}
                       /\ accepted[q] \subseteq Commands
  /\ pc \in Steps
  /\ current \in Commands \cup {Blank}
  /\ halted \in BOOLEAN
  /\ written \in 0 .. MaxCommands
  /\ runs \in [Commands -> 0 .. 2]

\* Although a head may stand past its ring, the interrupt stores every
\* command inside the ring.
TailInRange ==
  \A q \in Queues : len[q] < Capacity(q) => TailOf(q) \in Slots(q)

\* What the comms task carries out: the command the ring accepted last,
\* unless the index lies one slot past the ring.  A command that waits alone
\* inside the ring is thus carried out as written.
NewestIsRead ==
  \A q \in Queues :
    len[q] > 0 /\ ReadIndex(q) \in Slots(q) => slot[q][ReadIndex(q)] = newest[q]

\* A general command is never taken while a priority command waits, although
\* the task sleeps between its last look at the priority ring and the general
\* one: a command that arrives in between stops the unit.
PriorityFirst == pc = "pop_general" /\ ~halted => len["priority"] = 0

\* The mutex is lost to the comms task only through a command that a full
\* ring refused, and it stays lost no longer than some ring stays full.
LeakedOnlyWhenFull ==
  Mutex!Leaked(mutex) => \E q \in Queues : len[q] = Capacity(q)

\* Commands do not wait for ever: each ring becomes empty again, unless the
\* unit halts or a refused command took the mutex away.
Drained ==
  \A q \in Queues :
    (len[q] > 0) ~> (len[q] = 0 \/ halted \/ Mutex!Leaked(mutex))

\* The whole priority ring is processed before the general one ("process
\* entire priority queue before proceeding"): each of its commands was carried
\* out by then.
PriorityQueueProcessed ==
  pc = "check_general" /\ ~halted =>
    \A c \in accepted["priority"] : runs[c] > 0

\* The kernel's assertion that a mutex is not given from an interrupt while
\* a task holds it never fails.
NeverHalted == ~halted
=============================================================================
