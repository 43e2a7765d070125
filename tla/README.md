# Verification of the-doors

TLA+ models of the door, hub and intercom programs of this repository, the TLC
runs that check small instances of them, and TLAPS proofs of the results that
hold for every instance.  File names below are relative to `src/`.

## 1. Inventory

The system has three kinds of machine.

* **Door units** (`door-unit/App`, an STM32 under FreeRTOS).  Each has a door
  (servo and distance sensor), a keypad and display for its visitor, and an
  I2C slave interface through which the hub reads and commands it.
* **The hub** (`hub-unit`, Linux).  Five processes share memory, named
  semaphores and POSIX message queues: a control daemon, the door manager (I2C
  master), the intercom server (TCP), the web server and the database service.
* **Intercom units** (`intercom-unit/main`, an ESP32).  Each keeps one TCP
  connection to the intercom server, shows the list of doors and lets its user
  open one.

| component | state it keeps | operations | hard part |
|---|---|---|---|
| hub packet queue (`hub_common/hub_queue.c`) | ring, length, head and tail, a mutex | create, enqueue, dequeue, destroy | callers preempted anywhere; wrap-around; early returns that must unlock |
| intercom server connections (`intercom_server_listener.c`) | 128 client slots, `client_count`, `next_slot_idx`, `slots_mutex`, one outbox per slot, the shared intercom list | accept, connection start and end, slot clean-up, forwarding a door's request | threads start and end while the listener picks slots; nested locking; counters never given back |
| door manager (`door_manager_i2c.c`) | target address of the I2C file descriptor, list of live doors, shared door list | scan, poll, process events, forward a request | two threads drive one bus and one address |
| hub message path (`door_manager_ipc.c`, `intercom_server_ipc.c`, `hub_common_ipc.c`) | two POSIX queues, two in-process queues | in loop, out loop, copy to the database | retries, bounded queues, order |
| hub log and control daemon (`hub_common.c`, `hub_control_processes.c`) | log ring, semaphores, child processes | append, launch, restart, terminate | a process killed or restarted while it holds a semaphore |
| database service, web server | SQLite file; HTTP state | drain the queue; serve lists and log | readers of shared state |
| door command queues (`Comms/hub_comms.c`) | a general and a priority ring, a mutex shared with an interrupt | enqueue (interrupt and tasks), serve | interrupt against task; ring arithmetic; priority |
| door event log and I2C registers (`EventLog/event_log.c`, `Utils/i2c_io.c`) | 127 entries, length, a mutex; registers the hub reads and writes | append, clear, read entry, read count | a hub that reads, clears and writes in separate transactions |
| door control and sensor (`Door/*.c`) | flags, servo position, distance | open, close, timer, measure | two tasks and an interrupt that decide about one door |
| door user interface (`UserInterface/*.c`) | UI phase, password buffers, attempts | keypad, authentication, bell | phases queued ahead of events |
| persistence, clock (`Persistence`, `Utils/door_date_time.c`) | flash page, RTC | load, save, set | reboot between two steps |
| intercom client (`client/client.c`, `gui/gui.c`) | connection state, door list, queues | connect, sync, receive, buttons | two packets in one TCP read |

How the parts interact:

```
 intercom unit --TCP--> intercom server --clients_to_doors_queue--> out loop
     ^                        |                                        | POSIX queue
     |                     outboxes                                    v
     +------------------------+                         door manager, inbox thread
                              ^                                        | I2C write
   in loop <-- POSIX queue <--+                                        v
                              |                     door unit: command queues -> comms task
     door manager, bus thread +--- doors_to_clients_queue                  |
              |  ^                                                         v
              |  +-- I2C reads -- event log and data register <-- door control, interface
              +--> copy of every packet --> database service
 shared memory: door list, intercom list, hub log (each with a named semaphore)
```

What makes each part correct:

* *packet queue*: first in first out, nothing lost or repeated, mutex released
  on every way out.
* *intercom server*: the slot a client gets is free, a connection keeps the
  slot it works on, the forwarder meets only live outboxes, the shared list's
  count is the number of clients listed, quiet clients are given up.
* *door manager*: an event is taken for the door that reported it, an answer
  and a request reach the door they are for, a request waits for no one for
  ever.
* *event log and register*: no event is lost unnoticed, events arrive once and
  in order, data is read with the event that announces it, the register
  becomes free again.
* *command queues*: indices stay in the ring, every command is carried out,
  priority commands first, the mutex is there when the task needs it.
* *message path*: a packet handed over is delivered once and in order, or is
  known to be lost; one that may be sent is delivered in the end.
* *log, lists and control daemon*: one token per semaphore, or a known reason
  why there is none; a reader sees the newest messages; what ended comes back.
* *door control*: open, closed and moving agree with the last command; a
  movement ends.
* *interface*: no phase runs without the authentication it needs; every phase
  sequence returns to the top.
* *persistence*: a save that is cut short leaves no setting older than the one
  entered last.
* *intercom client*: every packet of the stream is interpreted once; the list
  it shows is the hub's.

## 2. Plan

All the models of the plan are built, and the safety properties of each one are
proved, in the order in which they matter to the
system: `HubQueue` (every packet of the hub crosses one), `IntercomServer`,
`CommandQueue`, `EventPath`, `DoorManager`, `MessagePath`, `SharedState`,
`DoorControl`, `DoorInterface` with `Persistence`, `IntercomClient`.

What could follow:

1. `DoorManager` composed with `MessagePath`, so that a request waits behind
   another one in the inbox while the scan runs.
2. Orderly termination: the control daemon's signals, the waits for the
   children, and the semaphores and queues that are removed, or not.

## 3. Modules

A module's actions carry the names of the steps of the function they model;
`PROJECT.json` gives the source lines of each definition.

| module | models | one action is |
|---|---|---|
| `BoundedFifo` | what a hub packet queue promises | one call that takes effect |
| `LossyChannel` | what the hub promises for the packets of one process to another | a packet made, one that arrives, or the newest ones lost |
| `HubQueue` | `hub_queue.c` | one statement that reads or writes the queue, by one thread |
| `IntercomServer` | `intercom_server_listener.c`, the forwarding part of `intercom_server_ipc.c` | a critical section, or the code between two of them, of one thread |
| `RtosMutex` | a FreeRTOS mutex used from tasks and an interrupt | (operators only) |
| `CommandQueue` | `hub_comms.c`: `comms_enqueue_command`, `comms_check_command_queue` | the whole interrupt, or a step of the task between two points where the interrupt may come |
| `EventPath` | `event_log.c`, `i2c_io.c`, and `poll_slave_event_queue` of `door_manager_i2c.c` | one I2C transaction with the interrupt that serves it, or a step of a task |
| `DoorManager` | the rest of `door_manager_i2c.c` | a step of the bus thread or of the inbox thread |
| `MessagePath` | the loops of `door_manager_ipc.c`, `intercom_server_ipc.c`, `db_service_ipc.c`, queue creation in `hub_common_ipc.c` | one call on one queue, by one thread |
| `SharedState` | creation and use of the shared lists and of the log (`hub_common_ipc.c`, `hub_common.c`), launching (`hub_control_processes.c`) | a step between two accesses to the semaphore or the ring |
| `DoorControl` | `door_control.c`, `door_sensor.c` | a step of a movement between two points where another task may come |
| `Persistence` | `persistence.c`, `flash_rw.c` | an erase, or the writing of one field |
| `DoorInterface` | `user_interface.c`, `user_auth.c`; extends `Persistence` | one phase up to the prompt, movement, register or log it waits for, what ends that wait, or a step of the hub or comms task on the last two |
| `IntercomClient` | `client.c`, `gui.c`, `utils.c` of the intercom unit, with the hub's connection thread | a pass of the client's loop, a receive, a touch, a step of the hub's thread, a tick |

The `MC` module of each one is the one TLC runs (`MCDoorInterface` runs
`Persistence` too); the modules named `...Proofs` hold the proofs: `DoorProofs`
those about `DoorControl`, `Persistence` and `DoorInterface`, `PacketProofs`
those about `MessagePath` and `IntercomClient`.

How they compose.  `HubQueue` implements `BoundedFifo`, and the queues inside
`IntercomServer` and `MessagePath` are taken as one step per call on the
strength of that refinement.  `MessagePath` implements two `LossyChannel`s, one
in each direction (`FromDoors`, `FromIntercoms`).  `CommandQueue` and `EventPath` share `RtosMutex`.
`DoorInterface` extends `Persistence`, whose saves it starts and waits for.
`EventPath` (door and hub), `MessagePath` (two processes and their inboxes) and
`IntercomClient` (unit and hub) are compositions of two programs each.

Correspondence of state, where the name does not say it:

* `HubQueue`: `pc[t]` is the next statement of thread `t`; `src` and `dst` are
  the packets its caller gave or gets; `Queued` reads the ring as a sequence.
  The refinement puts an enqueue's effect at `length++` and a dequeue's at the
  copy out of the ring.
* `IntercomServer`: a connection thread is named by its slot.  `seen[i]` is
  `last_seen[i] != 0`.  `client` is what the peer does, `timed` and `waits`
  whether the socket has its receive timeout and whether the receive in
  progress was started with it.  The outboxes are counters.
* `CommandQueue`: `halted` is the kernel's `configASSERT` loop.  The model does
  not go on after it, as the unit does not.
* `EventPath`: one door.  Events and data are numbered in order of storage, so
  that loss, repetition and order can be seen.  `late` and `unread` name the
  two ways an event can be lost, `disturbed` what upset the exchange of data.
* `DoorManager`: a door's index stands for its address.  `target` is the
  address the descriptor has, `noted` the variable `current_target_addr`.
  `crossed` records that one thread set the target while the other relied
  on it.
* `MessagePath`: `opened[p]` counts the queues process `p` has opened since it
  was launched (-1: it has ended); `handle[p][q]` is the access mode of its
  handle.  `making`, `internal`, `hand` are a packet's stations inside the
  sender: about to be enqueued, in the in-process queue, with the output
  thread.  `lost` records where the code drops one.  `Got(s)` are the packets of
  `s` that its peer has taken out, `Way(s)` those between: the peer's inbox, the
  output thread's hand, the in-process queue, the one about to be enqueued.
* `SharedState`: `pc[p]` is where process `p` is with the object, `below[p]`
  where its signal handler interrupted it.  `ready`: the owner has posted the
  token.  `lost`: tokens gone with a process that ended; `upset`: the owner
  made the object anew under its users, or `log_append` went in without the
  token; `caught`: processes that waited on a semaphore while it was made anew.
  `recent` is what a reader should find.
* `DoorControl`: `flags` are the bits of the door's state; a task's `from` and
  `idx` are the local variables of `servo_set_angle_gradual`.  `overlapped`
  records that two tasks moved the door at once.
* `Persistence`: `mem` and `flash` are the settings in memory and in the
  sector, `wanted` those entered last, `torn` whether a save was cut short.
* `DoorInterface`: `phases` is the phase queue with its index and its last
  position; `step` is what the task waits for, among it the register (`send`,
  after a new name) and the log's mutex (`report`, after an accepted password),
  or that it stands in the kernel's assertion (`halted`); `earned` the passwords
  given since the top level was last reached.  `data_dirty` is the data register
  as the comms task and the hub leave it, `log_held` whether an interrupt has
  kept `event_log_lock`.
* `IntercomClient`: time is in ticks of five seconds.  `sinceSync`, `ahead` and
  `behind` describe the client's clock, which the answer to a sync sets; `link`
  is what the connection is; `toServer` and `toClient` are the packets under
  way.  The hub writes the list of doors straight to the socket, while the time
  and the bells go by way of the `outbox`, which the connection's thread sends
  when it looks at it: the stream is the doors, then bells and time in the order
  queued, and a full outbox refuses what comes.  `checked`: the thread has sent what
  it found there and is in its receive.  `missed` records that the packet of a door that had yet
  to get a cell was forgotten because it came together with
  another, `kept` that a bell, or a clock set back, kept the client from its sync.  What
  the client has not received when the connection is reset is gone (`Unread`).

## 4. Runs

| run | instance | shows |
|---|---|---|
| `hub_queue` | 2 threads, 2 packets, 3 slots | refinement of `BoundedFifo` at every interleaving of the statements; the mutex is released |
| `intercom` | 2 slots, outboxes of 1 | the next slot is free, slots are owned by who works on them, no self-deadlock, the count is short exactly by the clients that left unreported; quiet clients are given up |
| `commands` | rings of 3 and 2, 6 commands | which command is carried out, priority, when the mutex is lost, rings drain |
| `events` | 2 tasks, log of 4, 3 reports, 1 fault | accounting of events, order, overrun, data matches its event; events are collected, the register becomes free |
| `bus` | 3 doors, of which none, the first, or all but the first are there; 1 bell, 1 request, 1 switch on or off | attribution of events, answers and requests while the threads do not cross; requests are dealt with |
| `bus_gap` | 3 doors, the first missing | **violation**: a request reaches another address |
| `door_control` | a caller and the door's own task, 3 servo steps | flags and servo agree, the sensor watches a closing door; an open door closes |
| `door_interface` | 2 addresses, 2 names, 2 power failures | queue of phases, settings, passwords; the top level comes back and an accepted password acts, unless the hub leaves the register full or keeps the log |
| `message_path` | 2 packets one way, 1 the other, queues of 1, 1 crash | each direction is a `LossyChannel`; order, no silent loss; delivery wherever the sender may send |
| `message_path_right` | the same, no crash | **violation**: who created the other's inbox never gets a packet through |
| `shared_state` | the owner and 2 users, a log of 2, 2 crashes, 1 signal | one token, the reader sees the newest messages; waits end, ended processes are launched |
| `intercom_client` | 3 cells, 1 to 2 doors, days 31 to 35, an outbox of 2, 1 packet under way | the list, what a touch opens, why a client is dropped; a client that lost its connection comes back |

Why the bounds are enough to be interesting.  Rings of two and three places
fill, empty and wrap within the calls made, and the head's stop one place past
the ring needs no more.  Two client slots run out, are cleaned up by a
connection that is not their own, and let the index step off the array.  A log
of four entries has one free place after boot, so that two tasks overrun it
together (the entry beyond the buffer is then read), and three reports fall
before, during and after a poll.  Three doors are the fewest for which a gap
lies in front of one door but not of another.  Three servo steps let a movement
be overtaken halfway and reach the step that has no entry in the array of
steps.  Two power failures cut a save and then the start or save after it.  With
queues of one packet an inbox is full while the in-process queue behind it
overflows.  A log of two slots is full at the second message and wraps at the
third; two crashes let a token be lost and the owner come back.  The client's
list holds one door less than it has cells: two doors fill three cells, and the
second may come while the first list is under way.  A door that finds the list
full is beyond the run's bound; the proofs cover it.  An outbox of two is full with
a bell and a time, and refuses the next of either.  The days are those of the
turn of a month, when the clock is set back by three, and those until it has
caught up.
The passing runs reach every action.

The bounds are constants of the modules (`MaxBells`, `MaxRequests`, `MaxBoots`,
`MaxCommands`, `MaxCalls`, `MaxFaults`, `MaxCrashes`, `MaxSignals`,
`MaxPackets`, `MaxPowerLosses`, `MaxUnderWay`, `QuietLimit`, `FirstDay` and
`LastDay`), each a guard of the action it limits.  The proofs hold for all of
their values.

`CHECK_DEADLOCK FALSE` where the bounds end the environment's part, a halted
door unit stands still, a token is gone, or every connection is over;
`hub_queue` and `door_control` check for deadlock.

Five more configurations are not among the runs: `IntercomCount`,
`CommandQueueOrder`, `CommandQueueAssert`, `BusRace` and
`DoorInterfacePassword`.  Each shows the counterexample to an unconditional
statement, of which the project otherwise keeps the conditional one (section 6).
Run `tlc -config IntercomCount.cfg MCIntercomServer`, and likewise with
`MCCommandQueue`, `MCDoorManager` and `MCDoorInterface`.

## 5. Fairness

* `HubQueue`: a thread inside a call is scheduled again; nobody is obliged to
  call.  There is no wait inside the critical section.
* `IntercomServer`: the listener after an accept, the forwarder with a packet
  in hand and each connection thread go on when they can (threads of Linux);
  clients owe nothing.  `ReceiveNothing` ends a receive only if the timeout
  was set before it began.
* `CommandQueue`: the comms task runs; the hub owes nothing.
* `EventPath`: a task inside a call goes on when it can (the FreeRTOS
  scheduler), and the hub polls for ever (`i2c_loop`).
* `DoorManager`: both threads run; the waits for the semaphore are strongly
  fair, because its holders give it back and then sleep or talk to doors.
* `MessagePath`: processes that ended are launched (`processes_control_loop`)
  and started ones open their queues; a packet handed over is enqueued, output
  threads and receivers go on.  Nobody owes a packet, and nothing is assumed of
  the order in which the queues are created.
* `SharedState`: the owner goes through its initialisation and its loop
  (`Own`, `Wait(Owner)`), who is at the object goes on (`Go`), and the daemon
  launches (`Launch`); entry is strongly fair, because the kernel wakes the
  waiters of a semaphore in turn.  For a list this takes the log to be there
  (section 8).  A user is not obliged to look at the object.
* `DoorControl`: movements go on, the sensor measures while it is on, and the
  timer runs out while the door is open.  `CloseWhenDue` is strongly fair: the
  door's task looks every ten milliseconds, many times while the call is due.
* `DoorInterface`: the task runs, unless it waits for a log that an interrupt
  keeps, and prompts that have a time limit end by it.  The menu and one of the
  password prompts have none: `ReturnsToTop` says so.  Nothing makes the hub
  read the data register or another interrupt give the log back: that the task
  may wait for either for ever is an exception both liveness properties name
  (`WaitsForHub`).
* `IntercomClient`: the client does what is next for it: Wi-Fi comes, a
  connection attempt succeeds or fails, its loop makes a pass (one fairness
  condition, for one task after the other), and time passes.  The hub's thread
  has no fairness condition: the client finds out alone.  Nobody owes a touch,
  a bell, a break, or an `errno` that happens not to be a timeout.

## 6. Findings

Two runs show a divergence of the code from its comments:

* `bus_gap`: the compact list of live doors is indexed by a door's own index
  (`door_manager_i2c.c:438`), so that a request goes to another door if one
  with a smaller index is missing.
* `message_path_right`: the process that creates the other's inbox opens it for
  reading only (`hub_common_ipc.c:317`) and repeats its first packet for as
  long as it runs.

Kept as conditional properties of the passing runs, with a configuration that
reproduces each of the first five:

* The intercom server subtracts every ended connection from the shared count
  but adds only those that reported (`intercom_server_listener.c:351`):
  `CountAccounted`; `IntercomCount.cfg`.
* The door's comms task reads each ring from the newest command while it moves
  the head, so that of two waiting commands one runs twice and the other never
  (`hub_comms.c:159`): `NewestIsRead`; `CommandQueueOrder.cfg`.
* The I2C interrupt gives a mutex that the comms task may hold
  (`hub_comms.c:231`); the kernel asserts that nobody does:
  `LeakedOnlyWhenFull`, and `halted` in the others; `CommandQueueAssert.cfg`.
* The two threads of the door manager move one shared target address
  (`door_manager_i2c.c:282`): `crossed`; `BusRace.cfg`.
* The menu's entry for the door's password asks for the administrator's password,
  but `auth_set_password` wants the user's to have been given: the new one is
  never set (`PasswordInput`); `DoorInterfacePassword.cfg`.
* An event stored between the hub's read of the length and its clear is lost
  (`Accounted`); the log overruns its buffer by up to one event for each task
  but one (`LogWithinBounds`).
* A process that ends with a token takes it along (`lost`); an owner that comes
  back makes the semaphore anew under whoever is inside (`upset`).  The control
  daemon writes to the log before it looks at the processes, so that a lost log
  token stops the relaunching (`EndedIsLaunched`).

Facts of the code met on the way, on which properties rest:

* After 128 connections no client is accepted (`client_count` never decreases);
  that is why slots are never used twice and `update_client_slots` never locks
  its mutex again.
* Two packets that one `recv` returns together count as one: the second is
  forgotten, on both ends of the intercom's connection (`missed` for a door's).
* The door's interface sends a new name from its own task, and waits there while
  the data register is full (`user_interface.c:517`, `i2c_io.c:124`).  If the
  hub never reads the register, the door's menu, and its door, answer nobody
  from then on (`WaitsForHub`).
* The intercom's list of eight cells holds seven doors; a touch sends the number
  of the cell, which is the door's index as long as no packet of a door without a
  cell was missed
  (`OpenIsMeant`).
* The intercom's clock gets month and year shifted by one; when a shorter month
  begins it goes back, and until it has caught up no sync is sent (`behind`).
* A bell of five seconds and a sync interval of ten reach the hub's limit of
  fifteen seconds of silence, and a clock set back holds up the sync for days:
  nothing else makes the hub drop a client that is there
  (`SilentOnlyForACause`).
* The end of the connection makes `recv` return 0, and `errno` is then what an
  earlier call left, perhaps a timeout (`ReceiveEnd`, `Reconnects`).

## 7. Proofs

For every value of the constants that meets the modules' assumptions.  Each
proof has one step per action of the module, under an inductive invariant
`IInv` (in `DoorProofs` and `PacketProofs`, which hold several, `ControlInv`,
`InterfaceInv`, `PersistenceInv`, `PathInv` and `ClientInv`); TLC checked that
invariant on small instances first.

* `HubQueueProofs`: `TypeCorrect`, `RingCorrect`, `Refinement`.  The inductive
  invariant is the type invariant, mutual exclusion (`OneInside`) and
  `RingAgrees`.  The last one is needed because `length` and the indices move
  in different statements: `Span` says how many slots they span at each of
  them.  The refinement shows that each step changes the sequence `Queued` as
  the abstract queue allows, element by element.
* `IntercomServerProofs`: `NextSlotIsFree`, `NeverSelfDeadlocks`,
  `SlotsAreOwned`, `TypeCorrect`, `CountIsAccounted`.  The invariant says that
  exactly the slots below `client_count` were ever used (`UsedSlots`), that the
  others are as they were initialised, how `next_slot_idx` follows, who holds
  the mutex at which step, and what a connection's step says of its slot.  The
  absence of a self-deadlock follows from slots never being used twice.  The
  count needs the cardinality of the clients seen, up to the width of the
  counter.
* `CommandQueueProofs`: `TypeCorrect`, `TailStaysInRange`, `ReadsNewest`,
  `PriorityGoesFirst`, `LeakNeedsFullRing`.  The invariant adds to the types
  that the slot before the tail holds the newest command (`NewestStored`), that
  the task holds the mutex exactly while it is inside (`HolderInside`), and
  that the priority ring it found empty stays empty until it looks again, or
  the unit has halted (`PrioritySeenEmpty`).
* `EventPathProofs`: `TypeCorrect`, `EventsAccounted`, `EventsInOrder`,
  `LogBounded`, `DataAgrees`.  The log is the latest part of what was stored
  (`LogInOrder`), a poll stays within the length it read (`PollInLog`), its
  index divides the log into what is done, to come and late (`PollAccounts`,
  `PollAhead`), every call stores at most one event (`Counted`), and while
  nothing disturbs the exchange one announcement is under way
  (`OneAnnouncement`).
* `DoorManagerProofs`: `TypeCorrect`, `AttributedAlways`,
  `ReachedWithoutGap`, `ScanRanks`.  Only the bus thread changes the list, in
  the order of the doors (`ListInOrder`), so that a door without a gap before
  it stands in its own place (`OwnPlace`); a thread that does not cross the
  other finds the target where it left it (`Apart`, `PollPoints`,
  `RequestPoints`).
* `DoorProofs`, of the door: `ServoInRange`, `FlagsTruthful`, `ClosingIsWatched`.
  Without overlap one task moves the door (`OneMover`) and finds what it left
  (`MoverFinds`); between movements flags and servo agree (`RestAgrees`).  The
  range needs the position in the steps to be bounded (`WithinSteps`).
* `DoorProofs`, of the interface and the settings: `TypeCorrect`, `SettingsKept`, `AlwaysEarned`.  The
  queue of phases is filled to its tail and reset only to the top level
  (`Filled`), what a visitor is allowed was earned (`AuthEarned`,
  `MenuAllowed`), and the sector holds a part of the memory written first to
  last (`SectorKnown`, `WrittenSoFar`).  `AlwaysEarned` is an action property.
* `SharedStateProofs`: `TypeCorrect`, `TokenKept`, `OneAtATime`, `ReadsNewest`.
  While nothing is upset a token in the semaphore means that nobody is inside,
  which needs that a process is not inside twice (`InsideOnce`) and that the
  owner posts only after `sem_init` (`NothingPosted`, `NoClearingResumed`).
  The ring agrees with the newest messages except between the choice of a slot
  and the writing to it (`LogAgrees`), and one process at most is there.

* `PacketProofs`, of the path between two processes: `PathTypeCorrect`,
  `ArriveInOrder`, `NoneVanishes`, `ChannelRefinement`.  The invariant is that
  the path of a sender, what its peer has got followed by what is on the way,
  is in order (`PathInOrder`) and together with what is lost makes up what was
  produced (`PathAccounted`).  It is proved by way of the refinement: each step
  of any process is, for each sender, a step of the channel or none
  (`EveryStepOnChannel`), and the channel's steps keep the invariant
  (`ChannelKeeps`).  A crash is the loss of everything behind the inbox
  (`CutAfter`), an overflow the loss of the last packet alone.  The sequence
  lemmas at its beginning say how a packet moves from the front of one queue to
  the end of another without moving in the path.
* `PacketProofs`, of the intercom: `ClientTypeCorrect`, `OpensWhatIsMeant`,
  `SilenceHasACause`.  As long as no packet of a door without a cell was forgotten, each door in
  the stream is known already, or the one to be learnt next, or behind the one
  before it, or the list is full (`Successive`); hence the list is numbered as
  the hub's (`ListInStep`) and what a touch sends is what is shown (`Meant`).
  For the silence, the hub has not been without word for longer than the
  client's last sync is past, nor than the interval, unless a bell or a clock
  set back kept the client or word is under way (`Heard`); the threshold is
  above the interval, and nothing else is assumed of either.  The outbox holds
  bells and times only, as its type says, so that what it
  sends does not disturb the order of the doors.

The assumptions are those the modules name (`...Assumption`): kinds and sizes
of the constants, as the code's `#define`s give them.  Every safety property a
run checks is proved; one, `PathTypeOK`, is proved but not listed with a run.
Model-checked only: every liveness property (`MutexReleased`,
`QuietClientLeaves`, `Drained`, `EventCollected`, `RegisterFreed`,
`RequestsEnd`, `OpenDoorCloses`, `ReturnsToTop`, `AcceptedPasswordActs`,
`WritableIsForwarded`, `WaitEnds`, `EndedIsLaunched`, `Reconnects`), because
liveness under fairness is beyond the prover.

## 8. Abstractions

* Packets, names and times are data; only what a property tells apart is kept.
* A failing I2C transaction fails before it has an effect on the door.
* `EventPath` has one door and no restart of it; `DoorManager` has restarts and
  several doors, but no data register and no faults other than absence.
* `EventPath`: the index of an entry is eight bits wide in the code
  (`door_manager_i2c.c:349`).  With the 127 entries of the register map it wraps
  to the first entry when the log is overrun by two events or more, which takes
  three tasks; the model then reads beyond the log instead.  Filling the
  register (`i2c_io.c:125`-`129`, `SendWrite`) is one step: an interrupt between
  its statements is not modelled.
* `DoorControl`: the reports of a movement return.  The wait for the log's mutex
  is in `EventPath` and `DoorInterface`.
* `SharedState`: a process is the one of its threads that is at the object, and
  a signal handler is not itself interrupted.  The object is a list or the log,
  one of them at a time.  Who holds a list appends to the log (`Acquired door
  list.`), never the other way round, so that no circle of waits arises; the
  runs on a list take the log to let its holder in.  If the log's token is gone,
  lists are kept too.
* `MessagePath`: the one packet a sender is about to enqueue stands for all
  threads that enqueue.  The copy for the database is one step, which tries and
  forgets.
* `IntercomClient`: the stream carries whole packets, of which a `recv` returns
  any number; none is under way when the day changes; ticks are a common
  divisor of the intervals, and a pass of the loop takes less than one.
* Waits for the shared lists' semaphores inside the intercom server, and sends
  to a socket, are taken to end: a client that stops reading and keeps its
  connection open is not modelled.

### Not modelled

* *Display, touch, audio, serial line, Wi-Fi set-up*: output, or drivers without
  a part in the protocols.  HTTP parsing and HTML, and the SQL of the database
  service: the web server and the database appear as a reader and as a receiver.
* *Networking helpers of the hub, boot and task creation of the door*:
  straight-line set-up before the modelled behaviour begins.
* *Door clock*: sets and reads a hardware calendar; its conversions have no
  further state.  The bit fields of a packet and of the registers: no property
  tells them apart, except the date a sync carries (`IntercomClient`).
* *Termination of the hub's processes*: allocation failures, socket set-up and
  orderly termination are, to the rest, processes that end.
* *Vendored and generated code* (STM32 HAL, CMSIS, FreeRTOS, Mongoose, ESP
  components, fonts and images) makes up nearly all of the repository's lines.
  It is not this project's to verify; the kernel's semaphore calls appear as
  `RtosMutex`, from the way the door's code uses them.  The modules cover a
  small share of all lines for this reason, and most of the program's own
  stateful code.
