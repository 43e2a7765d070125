---------------------------- MODULE DoorManager ----------------------------
(***************************************************************************)
(* door_manager_i2c.c: the two threads of the door manager that share the  *)
(* I2C bus.                                                                *)
(*                                                                         *)
(* The bus thread scans for doors, polls their event logs and clears them. *)
(* The inbox thread forwards requests of the intercoms to a door.  Both    *)
(* point the one file descriptor at a door (i2c_set_target, in two steps)  *)
(* and then read or write; only the shared list of doors has a semaphore,  *)
(* which the inbox thread holds while it does so.                          *)
(*                                                                         *)
(* A door is named by its index, which stands for its I2C address too.     *)
(***************************************************************************)
EXTENDS Naturals, Sequences

CONSTANTS
  NumDoors,     \* TARGET_ADDR_MAX_COUNT and HUB_MAX_DOOR_COUNT
  Populations,  \* the sets of doors that may be on the bus at first
  MaxBells,     \* bound: visitors who ring
  MaxRequests,  \* bound: requests of the intercoms
  MaxBoots,     \* bound: doors that are switched on, off or restarted later
  NoDoor,       \* address 0, which no door has
  NoEvent

Doors == 0 .. NumDoors - 1

ASSUME DoorManagerAssumption ==
  /\ NumDoors \in Nat \ {0}
  /\ Populations \subseteq SUBSET Doors
  /\ MaxBells \in Nat /\ MaxRequests \in Nat /\ MaxBoots \in Nat
  /\ NoDoor \notin Doors

VARIABLES
  present,    \* the doors that answer on the bus
  log,        \* each door's event_log_buffer and event_log_length
  target,     \* the slave address of device_fd
  noted,      \* current_target_addr
  liveList,   \* live_addr_list
  liveCount,  \* live_addr_count
  bus,        \* the bus thread
  inbox,      \* the inbox thread
  sem,        \* the holder of the door list's semaphore
  seen,       \* the doors with a last_seen time in the door list
  count,      \* count of the door list
  bells, requests, boots,   \* what the environment did so far
  crossed,    \* history: a thread set the target while the other relied on it
  stray,      \* history: last_seen was written outside the door list
  handled,    \* history: the events processed, with the doors they were taken for
  synced,     \* history: where the answer to a door's boot went
  commands    \* history: the addresses the intercoms' requests were written to

address == <<target, noted>>
live == <<liveList, liveCount>>
list == <<sem, seen, count>>
environment == <<present, log, bells, requests, boots>>
history == <<crossed, stray, handled, synced, commands>>
vars == <<address, live, list, environment, bus, inbox, history>>

Boot(d) == [kind |-> "boot", door |-> d]
Bell(d) == [kind |-> "bell", door |-> d]

Init ==
  /\ present \in Populations
  /\ log = [d \in Doors |-> IF d \in present THEN [buffer |-> <<Boot(d)>>, len |-> 1]
                            ELSE [buffer |-> <<>>, len |-> 0]]
  /\ target = NoDoor /\ noted = NoDoor
  /\ liveList = [d \in Doors |-> NoDoor]
  /\ liveCount = 0
  /\ bus = [at |-> "scan_start", i |-> 0, source |-> NoDoor, left |-> 0, j |-> 0,
            event |-> NoEvent, reporter |-> NoDoor]
  /\ inbox = [at |-> "idle", dest |-> 0, addr |-> NoDoor]
  /\ sem = "free"
  /\ seen = {}
  /\ count = 0
  /\ bells = 0 /\ requests = 0 /\ boots = 0
  /\ crossed = FALSE
  /\ stray = FALSE
  /\ handled = {}
  /\ synced = {}
  /\ commands = {}

-----------------------------------------------------------------------------
(* The doors                                                                *)

\* event_log_append: entries behind the length stay in the buffer until they
\* are overwritten.
Stored(l, e) ==
  [buffer |-> IF l.len < Len(l.buffer) THEN [l.buffer EXCEPT ![l.len + 1] = e]
              ELSE Append(l.buffer, e),
   len |-> l.len + 1]

Ring(d) ==
  /\ bells < MaxBells
  /\ bells' = bells + 1
  /\ d \in present
  /\ log' = [log EXCEPT ![d] = Stored(@, Bell(d))]
  /\ UNCHANGED <<present, requests, boots, address, live, list, bus, inbox, history>>

SwitchOn(d) ==
  /\ boots < MaxBoots
  /\ boots' = boots + 1
  /\ present' = present \cup {d}
  /\ log' = [log EXCEPT ![d] = [buffer |-> <<Boot(d)>>, len |-> 1]]
  /\ UNCHANGED <<bells, requests, address, live, list, bus, inbox, history>>

\* The door loses its power; its address stays listed until the next scan.
SwitchOff(d) ==
  /\ boots < MaxBoots
  /\ boots' = boots + 1
  /\ d \in present
  /\ present' = present \ {d}
  /\ UNCHANGED <<log, bells, requests, address, live, list, bus, inbox, history>>

-----------------------------------------------------------------------------
(* The bus thread                                                           *)

Goes(from) == bus.at = from

\* Both threads set the target in two steps: the variable, then the descriptor.
BusSteps == {"scan_ioctl", "scan_read", "poll_ioctl", "poll_count", "poll_entry",
             "poll_acquire", "poll_sync", "poll_release", "poll_clear"}
InboxSteps == {"ioctl", "write"}
BusCrosses == crossed' = (crossed \/ inbox.at \in InboxSteps)
InboxCrosses == crossed' = (crossed \/ bus.at \in BusSteps)

ScanStart ==
  /\ Goes("scan_start")
  /\ liveList' = [d \in Doors |-> NoDoor]
  /\ liveCount' = 0
  /\ bus' = [bus EXCEPT !.at = "scan_note", !.i = 0]
  /\ UNCHANGED <<address, list, environment, inbox, history>>

ScanNote ==
  /\ Goes("scan_note")
  /\ noted' = bus.i
  /\ bus' = [bus EXCEPT !.at = "scan_ioctl"]
  /\ BusCrosses
  /\ UNCHANGED <<target, live, list, environment, inbox, stray, handled, synced, commands>>

ScanIoctl ==
  /\ Goes("scan_ioctl")
  /\ target' = bus.i
  /\ bus' = [bus EXCEPT !.at = "scan_read"]
  /\ BusCrosses
  /\ UNCHANGED <<noted, live, list, environment, inbox, stray, handled, synced, commands>>

\* A door that answers is listed under the address the scan meant to ask.
\* Without any door the scan starts anew.
ScanRead ==
  /\ Goes("scan_read")
  /\ IF target \in present
     THEN /\ liveList' = [liveList EXCEPT ![liveCount] = bus.i]
          /\ liveCount' = liveCount + 1
     ELSE UNCHANGED live
  /\ bus' = [bus EXCEPT
       !.at = IF bus.i + 1 = NumDoors /\ liveCount' > 0 THEN "poll_note" ELSE "scan_note",
       !.i = IF bus.i + 1 = NumDoors THEN 0 ELSE bus.i + 1]
  /\ UNCHANGED <<address, list, environment, inbox, history>>

\* Mutant: the target is left where the door before it was.
PollIoctlOnce ==
  /\ Goes("poll_ioctl")
  /\ target' = IF bus.i = 0 THEN liveList[0] ELSE target
  /\ bus' = [bus EXCEPT !.at = "poll_count", !.source = noted]
  /\ BusCrosses
  /\ UNCHANGED <<noted, live, list, environment, inbox, stray, handled, synced, commands>>

PollNote ==
  /\ Goes("poll_note")
  /\ noted' = liveList[bus.i]
  /\ bus' = [bus EXCEPT !.at = "poll_ioctl"]
  /\ BusCrosses
  /\ UNCHANGED <<target, live, list, environment, inbox, stray, handled, synced, commands>>

PollIoctl ==
  /\ Goes("poll_ioctl")
  /\ target' = liveList[bus.i]
  /\ bus' = [bus EXCEPT !.at = "poll_count", !.source = noted]
  /\ BusCrosses
  /\ UNCHANGED <<noted, live, list, environment, inbox, stray, handled, synced, commands>>

\* The next live door, the next poll, or a new scan after it.
NextDoor(b) ==
  IF b.i + 1 < liveCount THEN {[b EXCEPT !.at = "poll_note", !.i = @ + 1]}
  ELSE {[b EXCEPT !.at = "poll_note", !.i = 0], [b EXCEPT !.at = "scan_start", !.i = 0]}

PollCount ==
  /\ Goes("poll_count")
  /\ IF target \in present /\ log[target].len > 0
     THEN bus' = [bus EXCEPT !.at = "poll_entry", !.left = log[target].len, !.j = 0]
     ELSE bus' \in NextDoor(bus)
  /\ UNCHANGED <<address, live, list, environment, inbox, history>>

NextEntry ==
  [bus EXCEPT !.at = IF bus.j + 1 < bus.left THEN "poll_entry" ELSE "poll_clear",
              !.j = @ + 1, !.event = NoEvent, !.reporter = NoDoor]

\* Whatever the target's buffer holds at the index is an event of the door
\* the variables name.
PollEntry ==
  /\ Goes("poll_entry")
  /\ IF target \in present /\ bus.j < Len(log[target].buffer)
     THEN LET e == log[target].buffer[bus.j + 1]
          IN  /\ bus' = [bus EXCEPT !.at = "poll_acquire", !.event = e, !.reporter = noted]
              /\ handled' = handled \cup {[event |-> e, source |-> bus.source, reporter |-> noted]}
     ELSE bus' = NextEntry /\ UNCHANGED handled
  /\ UNCHANGED <<address, live, list, environment, inbox, crossed, stray, synced, commands>>

\* process_report and process_request_from_door: the door is marked as seen.
PollAcquire ==
  /\ Goes("poll_acquire")
  /\ sem = "free"
  /\ sem' = "bus"
  /\ IF bus.reporter \in Doors
     THEN /\ seen' = seen \cup {bus.reporter}
          /\ count' = IF bus.reporter \in seen THEN count ELSE count + 1
          /\ UNCHANGED stray
     ELSE stray' = TRUE /\ UNCHANGED <<seen, count>>
  /\ bus' = [bus EXCEPT !.at = IF bus.event.kind = "boot" THEN "poll_sync" ELSE "poll_release"]
  /\ UNCHANGED <<address, live, environment, inbox, crossed, handled, synced, commands>>

\* A fresh boot is answered with the time, sent wherever the target is.
PollSync ==
  /\ Goes("poll_sync")
  /\ synced' = synced \cup {[booted |-> bus.event.door, reached |-> target]}
  /\ bus' = [bus EXCEPT !.at = "poll_release"]
  /\ UNCHANGED <<address, live, list, environment, inbox, crossed, stray, handled, commands>>

\* Mutant: the release is left out for a request.
PollReleaseOnlyReports ==
  /\ Goes("poll_release")
  /\ sem' = IF bus.event.kind = "boot" THEN "free" ELSE sem
  /\ bus' = NextEntry
  /\ UNCHANGED <<seen, count, address, live, environment, inbox, history>>

PollRelease ==
  /\ Goes("poll_release")
  /\ sem' = "free"
  /\ bus' = NextEntry
  /\ UNCHANGED <<seen, count, address, live, environment, inbox, history>>

PollClear ==
  /\ Goes("poll_clear")
  /\ log' = IF target \in present THEN [log EXCEPT ![target].len = 0] ELSE log
  /\ bus' \in NextDoor(bus)
  /\ UNCHANGED <<present, bells, requests, boots, address, live, list, inbox, history>>

BusThread ==
  \/ ScanStart \/ ScanNote \/ ScanIoctl \/ ScanRead
  \/ PollNote \/ PollIoctl \/ PollCount \/ PollEntry
  \/ PollAcquire \/ PollSync \/ PollRelease \/ PollClear

-----------------------------------------------------------------------------
(* The inbox thread: i2c_forward_request                                    *)

InboxGoes(from, to) == inbox.at = from /\ inbox' = [inbox EXCEPT !.at = to]

Receive(d) ==
  /\ inbox.at = "idle"
  /\ requests < MaxRequests
  /\ requests' = requests + 1
  /\ inbox' = [at |-> "acquire", dest |-> d, addr |-> NoDoor]
  /\ UNCHANGED <<present, log, bells, boots, address, live, list, bus, history>>

Acquire ==
  /\ InboxGoes("acquire", "check")
  /\ sem = "free"
  /\ sem' = "inbox"
  /\ UNCHANGED <<seen, count, address, live, environment, bus, history>>

Online == count > 0 /\ inbox.dest \in seen

Refuse ==
  /\ InboxGoes("check", "release")
  /\ ~Online
  /\ UNCHANGED <<address, live, list, environment, bus, history>>

\* Mutant: the list is indexed one entry further.
ListedNext == liveList[(inbox.dest + 1) % NumDoors]

\* The list of live addresses, indexed by the door's own index.
Listed == liveList[inbox.dest]

Note ==
  /\ inbox.at = "check"
  /\ Online
  /\ inbox' = [inbox EXCEPT !.at = "ioctl", !.addr = Listed]
  /\ noted' = Listed
  /\ InboxCrosses
  /\ UNCHANGED <<target, live, list, environment, bus, stray, handled, synced, commands>>

Ioctl ==
  /\ InboxGoes("ioctl", "write")
  /\ target' = inbox.addr
  /\ InboxCrosses
  /\ UNCHANGED <<noted, live, list, environment, bus, stray, handled, synced, commands>>

\* The doors of the list that is in force, or is being made.
Scanned == {liveList[i] : i \in {k \in Doors : k < liveCount}}

Write ==
  /\ InboxGoes("write", "release")
  /\ commands' = commands \cup {[dest |-> inbox.dest, reached |-> target,
                                  gap |-> ~ (0 .. inbox.dest \subseteq Scanned)]}
  /\ UNCHANGED <<address, live, list, environment, bus, crossed, stray, handled, synced>>

Release ==
  /\ InboxGoes("release", "idle")
  /\ sem' = "free"
  /\ UNCHANGED <<seen, count, address, live, environment, bus, history>>

InboxThread ==
  Acquire \/ Refuse \/ Note \/ Ioctl \/ Write \/ Release

Next ==
  \/ \E d \in Doors : Ring(d) \/ SwitchOn(d) \/ SwitchOff(d) \/ Receive(d)
  \/ BusThread
  \/ InboxThread

Spec == Init /\ [][Next]_vars

\* Both threads run.  The bus thread releases the semaphore and then talks to
\* doors or sleeps, so that a thread that waits for the semaphore gets it.
FairSpec ==
  /\ Spec
  /\ WF_vars(BusThread) /\ SF_vars(PollAcquire)
  /\ WF_vars(InboxThread) /\ SF_vars(Acquire)

-----------------------------------------------------------------------------
(* Properties                                                               *)

BusStates == BusSteps \cup {"scan_start", "scan_note", "poll_note"}
InboxStates == InboxSteps \cup {"idle", "acquire", "check", "release"}
DoorEvents == {Boot(d) : d \in Doors} \cup {Bell(d) : d \in Doors}
Somewhere == Doors \cup {NoDoor}

\* Every variable keeps its type.
TypeOK ==
  /\ present \subseteq Doors
  /\ \A d \in Doors : log[d].buffer \in Seq(DoorEvents) /\ log[d].len \in 0 .. Len(log[d].buffer)
  /\ target \in Somewhere /\ noted \in Somewhere
  /\ liveList \in [Doors -> Somewhere]
  /\ liveCount \in 0 .. NumDoors
  /\ bus \in [at : BusStates, i : Doors, source : Somewhere, left : Nat, j : Nat,
              event : DoorEvents \cup {NoEvent}, reporter : Somewhere]
  /\ inbox \in [at : InboxStates, dest : Doors, addr : Somewhere]
  /\ sem \in {"free", "bus", "inbox"}
  /\ seen \subseteq Doors
  /\ count \in Nat
  /\ crossed \in BOOLEAN /\ stray \in BOOLEAN
  /\ handled \subseteq [event : DoorEvents, source : Somewhere, reporter : Somewhere]
  /\ synced \subseteq [booted : Doors, reached : Somewhere]
  /\ commands \subseteq [dest : Doors, reached : Somewhere, gap : BOOLEAN]

\* As long as no thread moves the target under the other, an event is taken
\* for one of the door that reported it, by both ids the code derives, no
\* entry of the door list is written outside it, and a door that boots is sent
\* the time, not another.
EventsAttributed ==
  ~crossed => /\ ~stray
              /\ \A h \in handled : h.source = h.event.door /\ h.reporter = h.event.door
              /\ \A s \in synced : s.reached = s.booted

\* Under the same condition a request reaches the door it names if all doors
\* with smaller indices were found by the scan: only then is the compact list
\* of live addresses indexed rightly.
CommandsReachWithoutGap ==
  ~crossed => \A c \in commands : ~c.gap => c.reached = c.dest

\* The list of live doors is ascending and free of repetitions, even if the
\* threads do cross: what the forwarder indexes is the scan's ranking.
LiveListAscending ==
  \A i, k \in Doors : i < k /\ k < liveCount => liveList[i] < liveList[k]

\* A request that was received is dealt with: neither the scan's endless
\* search nor the poll keeps the semaphore.
RequestsEnd == inbox.at # "idle" ~> inbox.at = "idle"

\* A request is forwarded "to its intended recipient Door Unit on the I2C
\* bus", also if there are gaps between the addresses.
CommandsReachTheirDoor == ~crossed => \A c \in commands : c.reached = c.dest

\* The id of a bell's door is right once the door manager has put in the one
\* "derived from its I2C address".
BellsNameTheirDoor ==
  \A h \in handled : h.event.kind = "bell" => h.reporter = h.event.door
=============================================================================
