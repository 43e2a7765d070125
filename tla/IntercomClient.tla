--------------------------- MODULE IntercomClient ---------------------------
(***************************************************************************)
(* intercom-unit: client.c, gui.c, utils.c: an intercom's connection to    *)
(* the hub, its list of doors and its buttons, with the hub's connection   *)
(* thread (intercom_server_listener.c) as far as the intercom sees it.     *)
(*                                                                         *)
(* The two ends talk over a byte stream; each receives whatever has come,  *)
(* takes the first packet of it and forgets the rest.  The hub's thread    *)
(* sends the list of doors itself; the time, and a bell, wait in an outbox *)
(* of bounded size that it empties before it receives.  The client says    *)
(* that it is there every CONNECTION_SYNC_INTERVAL seconds; the hub drops  *)
(* one it has not heard of for longer than its silence_threshold; a bell   *)
(* keeps the client from the connection while it rings.                    *)
(*                                                                         *)
(* The answer to a sync sets the client's clock, which is the clock the    *)
(* interval is measured with: month and year are shifted, so that it runs  *)
(* ahead by the length of the month, and is set back when a shorter month  *)
(* begins.  Time is counted in ticks of a common divisor of the intervals. *)
(***************************************************************************)
EXTENDS Integers, Sequences, FiniteSets, SequencesExt

CONSTANTS
  Cells,        \* CLIENT_MAX_DOOR_COUNT
  FirstDoors, MaxDoors,  \* bound: doors the hub knows at first, and ever
  SyncInterval, \* connection_sync_interval
  RingTime,     \* of a bell
  Silence,      \* silence_threshold
  OutboxCapacity,  \* of hub_queue_create in connection_task
  ErrorLimit,   \* connection_error_threshold of hub_comms
  RetryLimit,   \* connection_error_threshold of connect_to_hub_server
  FirstDay, LastDay,  \* bound: days of the year considered
  MaxUnderWay   \* bound: packets under way when a touch or a bell adds one

ASSUME IntercomClientAssumption ==
  /\ Cells \in Nat \ {0} /\ MaxDoors \in Nat /\ FirstDoors \in 0 .. MaxDoors
  /\ SyncInterval \in Nat \ {0} /\ RingTime \in Nat \ {0}
  /\ Silence \in Nat /\ SyncInterval < Silence
  /\ ErrorLimit \in Nat /\ RetryLimit \in Nat
  /\ OutboxCapacity \in Nat \ {0} /\ MaxUnderWay \in Nat
  /\ FirstDay \in 1 .. 90 /\ LastDay \in FirstDay .. 90

VARIABLES
  client_state,
  link,       \* "none", "open"; "closed": by the hub; "reset": nobody there
  errors,     \* connection_error_count of hub_comms
  failures,   \* connection_error_count of connect_to_hub_server
  sinceSync,  \* ticks since last_sent_sync
  ringing,    \* ticks the bell still rings
  doors,      \* door_list.indices, one for each cell in use
  selected,   \* selected_door_idx while the door's buttons are shown
  toClient, toServer,  \* what is under way
  outbox,     \* of the connection's ClientData_t
  checked,    \* the hub's thread has sent what was in it and is in recvfrom
  doorCount,  \* doors the hub knows
  silence,    \* ticks since the hub received from this client
  today,      \* day of the year
  ahead,      \* days the client's clock is ahead, 0: never set
  behind,     \* days until the client's clock reaches last_sent_sync again
  missed,     \* history: the packet of a door that had yet to get a cell was forgotten
  kept        \* history: a bell, or a clock set back, kept the client from its sync

clockVars == <<today, ahead, behind>>
outVars == <<outbox, checked>>
hubVars == <<doorCount, silence, outVars>>
countVars == <<errors, failures>>
vars == <<client_state, link, sinceSync, ringing, doors, selected, toClient,
          toServer, hubVars, clockVars, missed, kept, countVars>>

NoCell == -1

\* Of the month of a day, in a year that is not a leap year.
MonthLength(day) == IF day \in 32 .. 59 THEN 28 ELSE 31

TimeOf == [kind |-> "time"]
Bell == [kind |-> "bell"]
Sync == [kind |-> "sync"]
Info(i) == [kind |-> "info", index |-> i]
OpenDoor(to, meant) == [kind |-> "open", to |-> to, meant |-> meant]

Boot ==
  /\ client_state' = "init" /\ link' = "none"
  /\ errors' = 0 /\ failures' = 0 /\ sinceSync' = SyncInterval /\ ringing' = 0
  /\ doors' = <<>> /\ selected' = NoCell
  /\ toClient' = <<>> /\ toServer' = <<>>
  /\ ahead' = 0 /\ behind' = 0 /\ missed' = FALSE /\ kept' = FALSE

Init ==
  /\ client_state = "init" /\ link = "none"
  /\ errors = 0 /\ failures = 0 /\ sinceSync = SyncInterval /\ ringing = 0
  /\ doors = <<>> /\ selected = NoCell
  /\ toClient = <<>> /\ toServer = <<>>
  /\ ahead = 0 /\ behind = 0 /\ missed = FALSE /\ kept = FALSE
  /\ outbox = <<>> /\ checked = TRUE
  /\ doorCount = FirstDoors /\ silence = 0 /\ today = FirstDay

-----------------------------------------------------------------------------
(* The hub's connection thread                                             *)

\* What the client has not received is gone when the connection is reset.
Unread == toClient' = IF link' = "reset" THEN <<>> ELSE toClient

\* Mutant: the list is numbered from 1.
DoorInfosFromOne == [i \in 1 .. doorCount |-> Info(i)]

\* connection_send_door_list
DoorInfos == [i \in 1 .. doorCount |-> Info(i - 1)]

\* Where there is nothing to send the thread goes on to recvfrom.
Checked == checked' = (outbox' = <<>>)

\* send_request: a packet that finds the outbox full is refused.
ToOutbox(packet) ==
  outbox' = IF Len(outbox) < OutboxCapacity THEN Append(outbox, packet) ELSE outbox

\* connection_check_outbox sends a packet; it goes on until nothing is left.
\* A bell that came later is found when recvfrom has waited in vain.
HubSend ==
  /\ link = "open" /\ outbox # <<>>
  /\ toClient' = Append(toClient, Head(outbox)) /\ outbox' = Tail(outbox)
  /\ Checked
  /\ UNCHANGED <<client_state, link, sinceSync, ringing, doors, selected, toServer,
                 doorCount, silence, clockVars, missed, kept, countVars>>

\* recvfrom returns the first n packets; process_request_from_intercom looks
\* at one, and answers a sync with the time, left in the outbox, and the list
\* of doors, sent at once.
HubReceive(n) ==
  /\ link = "open" /\ checked /\ n \in 1 .. Len(toServer)
  /\ silence' = 0
  /\ toServer' = SubSeq(toServer, n + 1, Len(toServer))
  /\ IF Head(toServer) = Sync
     THEN ToOutbox(TimeOf) /\ toClient' = toClient \o DoorInfos
     ELSE UNCHANGED <<outbox, toClient>>
  /\ Checked
  /\ UNCHANGED <<client_state, link, sinceSync, ringing, doors, selected,
                 doorCount, clockVars, missed, kept, countVars>>

\* forward_door_to_client_request, in the forwarder's thread
HubBell ==
  /\ link = "open" /\ Len(toClient) < MaxUnderWay
  /\ ToOutbox(Bell)
  /\ UNCHANGED <<client_state, link, sinceSync, ringing, doors, selected, toClient,
                 toServer, doorCount, silence, checked, clockVars, missed, kept, countVars>>

\* The outbox goes with its connection.
NoOutbox == outbox' = <<>> /\ Checked

\* connection_loop ends.
HubDrop ==
  /\ link = "open" /\ checked /\ silence >= Silence
  /\ link' = IF toServer = <<>> THEN "closed" ELSE "reset"
  /\ Unread /\ toServer' = <<>> /\ silence' = 0 /\ NoOutbox
  /\ UNCHANGED <<client_state, sinceSync, ringing, doors, selected, doorCount,
                 clockVars, missed, kept, countVars>>

\* The server ends, or the network fails.
Break ==
  /\ link = "open"
  /\ link' \in {"closed", "reset"} /\ Unread
  /\ toServer' = <<>> /\ silence' = 0 /\ NoOutbox
  /\ UNCHANGED <<client_state, sinceSync, ringing, doors, selected, doorCount,
                 clockVars, missed, kept, countVars>>

NewDoor ==
  /\ doorCount < MaxDoors /\ doorCount' = doorCount + 1
  /\ UNCHANGED <<client_state, link, sinceSync, ringing, doors, selected,
                 toClient, toServer, silence, outVars, clockVars, missed, kept,
                 countVars>>

-----------------------------------------------------------------------------
(* Connecting                                                              *)

\* WIFI_EVENT_STA_CONNECTED
WifiConnected ==
  /\ client_state = "init" /\ client_state' = "connecting"
  /\ UNCHANGED <<link, sinceSync, ringing, doors, selected, toClient, toServer,
                 hubVars, clockVars, missed, kept, countVars>>

\* connect_to_hub_server succeeds: a new socket, a sync of its own; the new
\* connection thread sends the list at once.
Connect ==
  /\ client_state = "connecting" /\ client_state' = "connected"
  /\ link' = "open" /\ failures' = 0 /\ silence' = 0 /\ NoOutbox
  /\ toServer' = <<Sync>> /\ toClient' = DoorInfos
  /\ UNCHANGED <<sinceSync, ringing, doors, selected, doorCount, clockVars,
                 missed, kept, errors>>

\* It fails; after too many times the unit restarts.
ConnectFails ==
  /\ client_state = "connecting"
  /\ IF failures < RetryLimit
     THEN /\ failures' = failures + 1 /\ link' = "none" /\ toClient' = <<>>
          /\ UNCHANGED <<client_state, sinceSync, ringing, doors, selected,
                         toServer, ahead, behind, missed, kept, errors>>
     ELSE Boot
  /\ UNCHANGED <<hubVars, today>>

-----------------------------------------------------------------------------
(* hub_comms                                                               *)

\* Mutant: the interval has to be over by a tick more.
SyncDueLate == behind = 0 /\ sinceSync > SyncInterval

\* The difference of two readings of time() exceeds the interval, at the
\* earliest, when the interval has passed.
SyncDue == behind = 0 /\ sinceSync >= SyncInterval

\* Mutant: errors are not counted.
CountErrorNever == UNCHANGED <<errors, client_state>>

\* HANDLE_RET of an error that errno does not call a timeout.
CountError ==
  /\ errors' = IF errors > ErrorLimit THEN errors ELSE errors + 1
  /\ client_state' = IF errors >= ErrorLimit THEN "connecting" ELSE client_state

SendSync ==
  /\ client_state = "connected" /\ SyncDue /\ link \in {"open", "closed"}
  /\ IF link = "open" THEN toServer' = Append(toServer, Sync) /\ UNCHANGED link
                      ELSE link' = "reset" /\ UNCHANGED toServer
  /\ Unread /\ sinceSync' = 0 /\ errors' = 0 /\ kept' = FALSE
  /\ UNCHANGED <<client_state, ringing, doors, selected, hubVars,
                 clockVars, missed, failures>>

\* Without a connection the calls fail, the sends of a sync with the others.
CommsFail ==
  /\ client_state = "connected" /\ link = "reset"
  /\ CountError
  /\ sinceSync' \in (IF SyncDue THEN {0, sinceSync} ELSE {sinceSync})
  /\ UNCHANGED <<link, ringing, doors, selected, toClient, toServer, hubVars,
                 clockVars, missed, kept, failures>>

\* recv returns 0, and errno is what an earlier call left there: a timeout, in
\* which case nothing happens, or another.
ReceiveEnd ==
  /\ client_state = "connected" /\ link = "closed" /\ toClient = <<>>
  /\ CountError
  /\ UNCHANGED <<link, sinceSync, ringing, doors, selected, toClient, toServer,
                 hubVars, clockVars, missed, kept, failures>>

-----------------------------------------------------------------------------
(* receive_packet                                                          *)

\* Mutant: every packet takes a new cell.
LearnAgain(i) ==
  doors' = IF Len(doors) + 1 >= Cells THEN doors ELSE Append(doors, i)

\* process_data: a door keeps its cell, a new one takes the next; the last
\* place of the list is never used.
Learn(i) ==
  doors' = IF i \in ToSet(doors) \/ Len(doors) + 1 >= Cells THEN doors
                                                           ELSE Append(doors, i)

\* The packet of a door that is to get a cell.
ToLearn(m) == m.kind = "info" /\ m.index \notin ToSet(doors) /\ Len(doors) + 1 < Cells

\* set_datetime: with the month after, and 1900 years later.  last_sent_sync
\* stays what it was.
SetClock ==
  LET jump == MonthLength(today) - ahead IN
  /\ ahead' = MonthLength(today)
  /\ IF ahead = 0 \/ jump > 0
     THEN behind' = 0 /\ sinceSync' = SyncInterval + 1 /\ UNCHANGED kept
     ELSE behind' = behind - jump /\ kept' = (kept \/ jump < 0) /\ UNCHANGED sinceSync
  /\ UNCHANGED today

Ring ==
  /\ client_state' = "bell" /\ ringing' = RingTime /\ kept' = TRUE

\* recv returns the first n packets.  A sync that is late goes first.
Receive(n) ==
  LET packet == Head(toClient)
      forgotten == SubSeq(toClient, 2, n)
  IN
  /\ client_state = "connected" /\ n \in 1 .. Len(toClient)
  /\ link # "reset" /\ ~(SyncDue /\ sinceSync > SyncInterval)
  /\ toClient' = SubSeq(toClient, n + 1, Len(toClient))
  /\ errors' = 0
  /\ IF packet.kind = "info" THEN Learn(packet.index) ELSE UNCHANGED doors
  /\ missed' = (missed \/ \E m \in ToSet(forgotten) : ToLearn(m)')
  /\ IF packet.kind = "time" THEN SetClock ELSE UNCHANGED <<clockVars, sinceSync>>
  /\ IF packet.kind = "bell" THEN Ring ELSE UNCHANGED <<client_state, ringing>>
  /\ packet.kind = "info" => UNCHANGED kept
  /\ UNCHANGED <<link, selected, toServer, hubVars, failures>>

BellEnds ==
  /\ client_state = "bell" /\ ringing = 0 /\ client_state' = "connected"
  /\ UNCHANGED <<link, sinceSync, ringing, doors, selected, toClient, toServer,
                 hubVars, clockVars, missed, kept, countVars>>

-----------------------------------------------------------------------------
(* gui_handle_button_touch, in a task of its own                           *)

\* A button of the list, with a door or without.
Select(cell) ==
  /\ selected = NoCell /\ selected' = cell
  /\ UNCHANGED <<client_state, link, sinceSync, ringing, doors, toClient,
                 toServer, hubVars, clockVars, missed, kept, countVars>>

Back ==
  /\ selected # NoCell /\ selected' = NoCell
  /\ UNCHANGED <<client_state, link, sinceSync, ringing, doors, toClient,
                 toServer, hubVars, clockVars, missed, kept, countVars>>

\* The door whose name the cell shows.
Shown(cell) == IF cell < Len(doors) THEN doors[cell + 1] ELSE cell

\* The result of the send is not looked at.
Open ==
  /\ selected # NoCell /\ selected' = NoCell
  /\ toServer' = IF link = "open" /\ Len(toServer) < MaxUnderWay
                 THEN Append(toServer, OpenDoor(selected, Shown(selected)))
                 ELSE toServer
  /\ link' = IF link = "closed" THEN "reset" ELSE link
  /\ Unread
  /\ UNCHANGED <<client_state, sinceSync, ringing, doors, hubVars,
                 clockVars, missed, kept, countVars>>

-----------------------------------------------------------------------------
(* Time                                                                    *)

\* A tick passes when everyone has done what was due: packets arrive, the
\* client's loop runs unless the bell rings, and the hub drops in time.
Tick ==
  /\ client_state = "connected" => toClient = <<>> /\ ~SyncDue
  /\ client_state = "bell" => ringing > 0
  /\ link = "open" => toServer = <<>> /\ outbox = <<>> /\ checked /\ silence <= Silence
  /\ sinceSync' = IF sinceSync > SyncInterval THEN sinceSync ELSE sinceSync + 1
  /\ silence' = IF link = "open" THEN silence + 1 ELSE 0
  /\ ringing' = IF ringing > 0 THEN ringing - 1 ELSE 0
  /\ UNCHANGED <<client_state, link, doors, selected, toClient, toServer,
                 doorCount, outVars, clockVars, missed, kept, countVars>>

\* Nothing is under way at midnight.  A clock that was set back reaches the
\* time of the last sync again, and the interval begins anew.
NextDay ==
  /\ today < LastDay /\ today' = today + 1
  /\ toClient = <<>> /\ toServer = <<>> /\ outbox = <<>>
  /\ behind' = IF behind > 0 THEN behind - 1 ELSE 0
  /\ sinceSync' = IF behind = 1 THEN 0 ELSE sinceSync
  /\ UNCHANGED <<client_state, link, ringing, doors, selected, toClient,
                 toServer, hubVars, ahead, missed, kept, countVars>>

-----------------------------------------------------------------------------

Comms ==
  \/ SendSync \/ CommsFail \/ BellEnds
  \/ \E n \in 1 .. Len(toClient) : Receive(n)

Hub == HubSend \/ HubDrop \/ \E n \in 1 .. Len(toServer) : HubReceive(n)

Next ==
  \/ WifiConnected \/ Connect \/ ConnectFails
  \/ Comms \/ ReceiveEnd
  \/ (\E cell \in 0 .. Cells - 1 : Select(cell)) \/ Back \/ Open
  \/ Hub \/ HubBell \/ Break \/ NewDoor
  \/ Tick \/ NextDay

Spec == Init /\ [][Next]_vars

\* The client connects, its loop runs, and time passes.  Nobody owes a touch, a
\* bell, a break, or a stale errno that is no timeout, nor the hub an answer.
FairSpec ==
  /\ Spec
  /\ WF_vars(WifiConnected \/ Connect \/ ConnectFails \/ Comms)
  /\ WF_vars(Tick)

-----------------------------------------------------------------------------
(* Properties                                                              *)

\* The types; the list keeps to its cells and gives no door two of them,
\* whatever packets were forgotten and however often the list was sent.
TypeOK ==
  /\ client_state \in {"init", "connecting", "connected", "bell"}
  /\ link \in {"none", "open", "closed", "reset"}
  /\ errors \in 0 .. ErrorLimit + 1 /\ failures \in 0 .. RetryLimit
  /\ sinceSync \in 0 .. SyncInterval + 1 /\ ringing \in 0 .. RingTime
  /\ doors \in Seq(0 .. MaxDoors - 1) /\ Len(doors) < Cells
  /\ \A i, j \in DOMAIN doors : doors[i] = doors[j] => i = j
  /\ selected \in {NoCell} \cup 0 .. Cells - 1
  /\ outbox \in Seq({TimeOf, Bell}) /\ Len(outbox) <= OutboxCapacity /\ checked \in BOOLEAN
  /\ doorCount \in FirstDoors .. MaxDoors /\ silence \in 0 .. Silence + 1
  /\ today \in FirstDay .. LastDay /\ ahead \in {0, 28, 31} /\ behind \in Nat
  /\ missed \in BOOLEAN /\ kept \in BOOLEAN

\* The request that a touch sends names the door whose name the button shows,
\* as long as no packet was forgotten of a door that had yet to get its cell:
\* cells are counted, not looked up.  What is sent again and forgotten is no harm.
OpenIsMeant ==
  ~missed => \A packet \in ToSet(toServer) : packet.kind = "open" => packet.to = packet.meant

\* The hub finds a client silent that is there only when a bell or a clock set
\* back kept it from its sync; a sync that was late may still be under way.
SilentOnlyForACause ==
  link = "open" /\ silence >= Silence => kept \/ toServer # <<>>

\* A client whose connection has ended connects again or restarts, also when
\* the end of the connection is taken for a timeout, unless its clock is
\* behind its last sync: then it may not send, and not notice.
Reconnects ==
  link \in {"closed", "reset"} ~> link = "open" \/ client_state = "init" \/ behind > 0
=============================================================================
