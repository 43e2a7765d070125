-------------------------- MODULE DoorManagerProofs --------------------------
(***************************************************************************)
(* Proofs about DoorManager, for any number of doors, whichever of them    *)
(* are on the bus, and any number of rings, requests and restarts.         *)
(*                                                                         *)
(* The argument: only the bus thread changes the list of live doors, and   *)
(* it lists them in their order (ListInOrder), so that a door without a    *)
(* gap before it stands at its own index (OwnPlace).  A thread that does   *)
(* not cross the other finds the target where it left it (PollPoints,      *)
(* RequestPoints), and a door's log holds that door's events (LogsOwn).    *)
(***************************************************************************)
EXTENDS DoorManager, SequenceTheorems, TLAPS

\* The places of the bus thread in a scan, in a poll, and in a poll with the
\* bus pointed at the door it asks.
ScanSteps == {"scan_note", "scan_ioctl", "scan_read"}
Pointed == {"poll_count", "poll_entry", "poll_acquire", "poll_sync", "poll_release", "poll_clear"}
PollSteps == Pointed \cup {"poll_note", "poll_ioctl"}
Processing == {"poll_acquire", "poll_sync", "poll_release"}

\* What a door may have in its own log.
Own(d) == {Boot(d), Bell(d)}

BusType == [at : BusStates, i : Doors, source : Somewhere, left : Nat, j : Nat,
            event : DoorEvents \cup {NoEvent}, reporter : Somewhere]

\* The types the argument needs.
Typed ==
  /\ present \subseteq Doors
  /\ target \in Somewhere /\ noted \in Somewhere
  /\ liveList \in [Doors -> Somewhere] /\ liveCount \in 0 .. NumDoors
  /\ bus \in BusType
  /\ inbox \in [at : InboxStates, dest : Doors, addr : Somewhere]
  /\ crossed \in BOOLEAN /\ stray \in BOOLEAN

\* A log holds its own door's events.
LogsOwn ==
  /\ DOMAIN log = Doors
  /\ \A d \in Doors : /\ log[d] \in [buffer : Seq(Own(d)), len : Nat]
                      /\ log[d].len <= Len(log[d].buffer)

\* The list of live doors is in their order, a poll stays in it, and a scan is
\* beyond the doors it has listed.
ListInOrder ==
  /\ bus.at \in ScanSteps =>
       liveCount <= bus.i /\ \A k \in Doors : k < liveCount => liveList[k] < bus.i
  /\ bus.at \in PollSteps => bus.i < liveCount
  /\ \A k \in Doors : k < liveCount => liveList[k] \in Doors /\ k <= liveList[k]
  /\ LiveListAscending

\* Where there is no gap before a door its place in the list is its own index.
OwnPlace ==
  \A k \in Doors : k < liveCount /\ 0 .. k \subseteq Scanned => liveList[k] = k

\* While they do not cross, one of the threads is not between setting the
\* target and using it.
Apart == ~crossed => ~(bus.at \in BusSteps /\ inbox.at \in InboxSteps)

\* While they do not cross, a poll's three names of its door agree.
PollPoints ==
  ~crossed =>
    /\ bus.at = "poll_ioctl" => noted = liveList[bus.i]
    /\ bus.at \in Pointed =>
         target = liveList[bus.i] /\ noted = target /\ bus.source = target
    /\ bus.at \in Processing => bus.event \in Own(target) /\ bus.reporter = target

\* While they do not cross, the address a request is written to is the one in
\* the list, unless a new scan has just emptied it.
RequestPoints ==
  ~crossed =>
    /\ inbox.at \in InboxSteps => inbox.addr = liveList[inbox.dest] \/ liveCount = 0
    /\ inbox.at = "write" => target = inbox.addr

IInv ==
  /\ Typed /\ LogsOwn /\ ListInOrder /\ OwnPlace /\ Apart /\ PollPoints /\ RequestPoints
  /\ EventsAttributed /\ CommandsReachWithoutGap

-----------------------------------------------------------------------------

\* The places of the threads.
USE DEF BusSteps, InboxSteps, InboxStates, ScanSteps, Pointed, PollSteps, Processing

LEMMA Places ==
  BusStates = {"scan_start", "scan_note", "scan_ioctl", "scan_read", "poll_note", "poll_ioctl",
               "poll_count", "poll_entry", "poll_acquire", "poll_sync", "poll_release",
               "poll_clear"}
BY DEF BusStates

\* The ways the bus thread's state changes.
LEMMA BusAt ==
  ASSUME NEW b \in BusType, NEW a \in BusStates
  PROVE  [b EXCEPT !.at = a] \in BusType
BY DEF BusType

LEMMA BusIndex ==
  ASSUME NEW b \in BusType, NEW a \in BusStates, NEW i \in Doors
  PROVE  [b EXCEPT !.at = a, !.i = i] \in BusType
BY DEF BusType

LEMMA BusSource ==
  ASSUME NEW b \in BusType, NEW a \in BusStates, NEW s \in Somewhere
  PROVE  [b EXCEPT !.at = a, !.source = s] \in BusType
BY DEF BusType

LEMMA BusLength ==
  ASSUME NEW b \in BusType, NEW a \in BusStates, NEW n \in Nat
  PROVE  [b EXCEPT !.at = a, !.left = n, !.j = 0] \in BusType
BY DEF BusType

LEMMA BusEvent ==
  ASSUME NEW b \in BusType, NEW a \in BusStates, NEW e \in DoorEvents \cup {NoEvent},
         NEW s \in Somewhere
  PROVE  [b EXCEPT !.at = a, !.event = e, !.reporter = s] \in BusType
BY DEF BusType

LEMMA BusEntry ==
  ASSUME NEW b \in BusType, NEW a \in BusStates
  PROVE  [b EXCEPT !.at = a, !.j = b.j + 1, !.event = NoEvent, !.reporter = NoDoor] \in BusType
<1>1. b.j + 1 \in Nat /\ NoDoor \in Somewhere
  BY DEF BusType, Somewhere
<1> DEFINE n == b.j + 1
<1> HIDE DEF n
<1>2. [b EXCEPT !.at = a, !.j = n, !.event = NoEvent, !.reporter = NoDoor] \in BusType
  BY <1>1 DEF BusType, n
<1> QED
  BY <1>2 DEF n

LEMMA BusFields ==
  ASSUME NEW b \in BusType
  PROVE  b.at \in BusStates /\ b.i \in Doors /\ b.i \in Nat /\ b.source \in Somewhere
         /\ b.left \in Nat /\ b.j \in Nat /\ b.event \in DoorEvents \cup {NoEvent}
         /\ b.reporter \in Somewhere
BY DoorManagerAssumption DEF BusType, Doors

\* The events of a door name it.
LEMMA OwnEvents ==
  ASSUME NEW d \in Doors
  PROVE  /\ Own(d) \subseteq DoorEvents
         /\ \A e \in Own(d) : e.door = d
         /\ Boot(d) \in Own(d) /\ Bell(d) \in Own(d)
BY DEF Own, DoorEvents, Boot, Bell

\* A log stays a log of its door when an event of the door is stored.
LEMMA StoredKeeps ==
  ASSUME NEW S, NEW l \in [buffer : Seq(S), len : Nat], l.len <= Len(l.buffer), NEW e \in S
  PROVE  /\ Stored(l, e) \in [buffer : Seq(S), len : Nat]
         /\ Stored(l, e).len <= Len(Stored(l, e).buffer)
<1>1. l.buffer \in Seq(S) /\ l.len \in Nat /\ Len(l.buffer) \in Nat
  OBVIOUS
<1>2. CASE l.len < Len(l.buffer)
  <2> DEFINE b == [l.buffer EXCEPT ![l.len + 1] = e]
  <2>1. l.len + 1 \in 1 .. Len(l.buffer)
    BY <1>1, <1>2
  <2>2. b \in Seq(S) /\ Len(b) = Len(l.buffer)
    BY <1>1, <2>1, ExceptSeq
  <2>3. Stored(l, e) = [buffer |-> b, len |-> l.len + 1]
    BY <1>2 DEF Stored
  <2> HIDE DEF b
  <2> QED
    BY <1>1, <1>2, <2>2, <2>3
<1>3. CASE ~(l.len < Len(l.buffer))
  <2> DEFINE b == Append(l.buffer, e)
  <2>1. b \in Seq(S) /\ Len(b) = Len(l.buffer) + 1
    BY <1>1
  <2>2. Stored(l, e) = [buffer |-> b, len |-> l.len + 1]
    BY <1>3 DEF Stored
  <2> HIDE DEF b
  <2> QED
    BY <1>1, <2>1, <2>2
<1> QED
  BY <1>2, <1>3

\* If there is no gap before a door it is in the list, at its own index.
LEMMA InPlace ==
  ASSUME Typed, OwnPlace, NEW k \in Doors, 0 .. k \subseteq Scanned
  PROVE  k < liveCount /\ liveList[k] = k
<1> USE DoorManagerAssumption DEF Doors
<1>1. CASE k < liveCount
  BY <1>1 DEF OwnPlace
<1>2. CASE ~(k < liveCount)
  <2>1. liveCount \in 0 .. k
    BY <1>2 DEF Typed
  <2>2. PICK j \in Doors : j < liveCount /\ liveList[j] = liveCount
    BY <2>1 DEF Scanned
  <2>3. 0 .. j \subseteq Scanned
    BY <2>1, <2>2 DEF Typed
  <2>4. liveList[j] = j
    BY <2>2, <2>3 DEF OwnPlace
  <2> QED
    BY <2>2, <2>4
<1> QED
  BY <1>1, <1>2

\* Where the bus thread goes after a door.
LEMMA AfterDoor ==
  ASSUME Typed, bus.i < liveCount, bus' \in NextDoor(bus)
  PROVE  /\ bus' \in BusType
         /\ bus'.at = "scan_start" \/ (bus'.at = "poll_note" /\ bus'.i < liveCount)
<1> USE DoorManagerAssumption
<1>1. bus \in BusType /\ bus.i \in Nat /\ liveCount \in 0 .. NumDoors
  BY BusFields DEF Typed
<1>2. "poll_note" \in BusStates /\ "scan_start" \in BusStates /\ 0 \in Doors
  BY Places DEF Doors
<1>3. CASE bus.i + 1 < liveCount
  <2>1. bus' = [bus EXCEPT !.at = "poll_note", !.i = bus.i + 1]
    BY <1>3 DEF NextDoor
  <2>2. bus.i + 1 \in Doors
    BY <1>1, <1>3 DEF Doors
  <2>3. bus' \in BusType
    BY <1>1, <1>2, <2>1, <2>2, BusIndex
  <2>4. bus'.at = "poll_note" /\ bus'.i = bus.i + 1
    BY <1>1, <2>1 DEF BusType
  <2> QED
    BY <1>3, <2>3, <2>4
<1>4. CASE ~(bus.i + 1 < liveCount)
  <2>1. \/ bus' = [bus EXCEPT !.at = "poll_note", !.i = 0]
        \/ bus' = [bus EXCEPT !.at = "scan_start", !.i = 0]
    BY <1>4 DEF NextDoor
  <2>2. bus' \in BusType
    <3>1. /\ [bus EXCEPT !.at = "poll_note", !.i = 0] \in BusType
          /\ [bus EXCEPT !.at = "scan_start", !.i = 0] \in BusType
      BY <1>1, <1>2, BusIndex
    <3> QED
      BY <2>1, <3>1
  <2>3. bus'.i = 0 /\ bus'.at \in {"poll_note", "scan_start"}
    BY <1>1, <2>1 DEF BusType
  <2> QED
    BY <1>1, <2>2, <2>3
<1> QED
  BY <1>3, <1>4

\* The bus thread's next entry of the log.
LEMMA EntryPlace ==
  ASSUME Typed, bus' = NextEntry
  PROVE  /\ bus' \in BusType
         /\ bus'.at \in {"poll_entry", "poll_clear"} /\ bus'.i = bus.i
         /\ bus'.source = bus.source
<1>1. bus \in BusType
  BY DEF Typed
<1> DEFINE a == IF bus.j + 1 < bus.left THEN "poll_entry" ELSE "poll_clear"
<1>2. a \in {"poll_entry", "poll_clear"}
  OBVIOUS
<1> HIDE DEF a
<1>3. a \in BusStates
  BY <1>2, Places
<1>4. bus' = [bus EXCEPT !.at = a, !.j = bus.j + 1, !.event = NoEvent, !.reporter = NoDoor]
  BY DEF NextEntry, a
<1>5. bus'.at = a /\ bus'.i = bus.i /\ bus'.source = bus.source
  BY <1>1, <1>4 DEF BusType
<1>6. bus' \in BusType
  <2>1. [bus EXCEPT !.at = a, !.j = bus.j + 1, !.event = NoEvent, !.reporter = NoDoor] \in BusType
    BY <1>1, <1>3, BusEntry
  <2> QED
    BY <1>4, <2>1
<1> QED
  BY <1>2, <1>5, <1>6

-----------------------------------------------------------------------------

\* The threads start apart, with an empty list and one event in each log.
LEMMA InitIInv == Init => IInv
<1> SUFFICES ASSUME Init PROVE IInv
  OBVIOUS
<1> USE DoorManagerAssumption DEF Init
<1>1. Typed
  <2>1. 0 \in Doors /\ NoDoor \in Somewhere
    BY DEF Doors, Somewhere
  <2>2. present \subseteq Doors
    OBVIOUS
  <2>3. bus \in BusType
    BY <2>1, Places DEF BusType
  <2>4. inbox \in [at : InboxStates, dest : Doors, addr : Somewhere]
    BY <2>1
  <2>5. liveList \in [Doors -> Somewhere] /\ liveCount \in 0 .. NumDoors
    BY <2>1
  <2> QED
    BY <2>1, <2>2, <2>3, <2>4, <2>5 DEF Typed
<1>2. LogsOwn
  <2> SUFFICES ASSUME NEW d \in Doors
               PROVE  /\ log[d] \in [buffer : Seq(Own(d)), len : Nat]
                      /\ log[d].len <= Len(log[d].buffer)
    BY DEF LogsOwn
  <2>1. CASE d \in present
    <3>1. log[d] = [buffer |-> <<Boot(d)>>, len |-> 1]
      BY <2>1
    <3>2. <<Boot(d)>> \in Seq(Own(d)) /\ Len(<<Boot(d)>>) = 1
      BY OwnEvents
    <3> QED
      BY <3>1, <3>2
  <2>2. CASE d \notin present
    <3>1. log[d] = [buffer |-> <<>>, len |-> 0]
      BY <2>2
    <3> QED
      BY <3>1
  <2> QED
    BY <2>1, <2>2
<1>3. ListInOrder /\ OwnPlace
  BY DEF ListInOrder, OwnPlace, LiveListAscending, Doors
<1>4. Apart /\ PollPoints /\ RequestPoints
  BY DEF Apart, PollPoints, RequestPoints
<1>5. EventsAttributed /\ CommandsReachWithoutGap
  BY DEF EventsAttributed, CommandsReachWithoutGap
<1> QED
  BY <1>1, <1>2, <1>3, <1>4, <1>5 DEF IInv

\* An event read from the target is one of the target's.
LEMMA EventRead ==
  ASSUME LogsOwn, NEW d \in Doors, NEW n \in Nat, n < Len(log[d].buffer)
  PROVE  log[d].buffer[n + 1] \in Own(d)
<1>1. log[d].buffer \in Seq(Own(d))
  BY DEF LogsOwn
<1>2. n + 1 \in 1 .. Len(log[d].buffer)
  BY <1>1
<1> QED
  BY <1>1, <1>2

\* Every step keeps the types.
LEMMA TypedStep == IInv /\ [Next]_vars => Typed'
<1> SUFFICES ASSUME IInv, [Next]_vars PROVE Typed'
  OBVIOUS
<1> USE DoorManagerAssumption
<1>0. Typed /\ ListInOrder /\ LogsOwn
  BY DEF IInv
<1>b. bus \in BusType /\ bus.at \in BusStates /\ bus.i \in Doors /\ bus.i \in Nat /\ bus.j \in Nat
  BY <1>0, BusFields DEF Typed
<1> DEFINE Others == UNCHANGED <<present, address, live, inbox, crossed, stray>>
<1>o. ASSUME bus' \in BusType, Others PROVE Typed'
  BY <1>0, <1>o DEF Typed, address, live
<1>1. CASE ScanStart
  <2>1. bus' \in BusType
    <3>1. "scan_note" \in BusStates /\ 0 \in Doors
      BY Places DEF Doors
    <3> QED
      BY <1>b, <1>1, <3>1, BusIndex DEF ScanStart
  <2>2. liveList' \in [Doors -> Somewhere] /\ liveCount' \in 0 .. NumDoors
    BY <1>1 DEF ScanStart, Somewhere
  <2> QED
    BY <1>0, <1>1, <2>1, <2>2 DEF ScanStart, Typed, address, environment, history
<1>2. CASE ScanNote
  <2>1. bus' \in BusType
    BY <1>b, <1>2, Places, BusAt DEF ScanNote
  <2>2. noted' \in Somewhere /\ crossed' \in BOOLEAN
    BY <1>0, <1>b, <1>2 DEF ScanNote, BusCrosses, Typed, Somewhere
  <2> QED
    BY <1>0, <1>2, <2>1, <2>2 DEF ScanNote, Typed, live, environment
<1>3. CASE ScanIoctl
  <2>1. bus' \in BusType
    BY <1>b, <1>3, Places, BusAt DEF ScanIoctl
  <2>2. target' \in Somewhere /\ crossed' \in BOOLEAN
    BY <1>0, <1>b, <1>3 DEF ScanIoctl, BusCrosses, Typed, Somewhere
  <2> QED
    BY <1>0, <1>3, <2>1, <2>2 DEF ScanIoctl, Typed, live, environment
<1>4. CASE ScanRead
  <2>1. bus' \in BusType
    <3> DEFINE a == IF bus.i + 1 = NumDoors /\ liveCount' > 0 THEN "poll_note" ELSE "scan_note"
               n == IF bus.i + 1 = NumDoors THEN 0 ELSE bus.i + 1
    <3>1. a \in BusStates
      BY Places
    <3>2. n \in Doors
      BY <1>b DEF Doors
    <3>3. bus' = [bus EXCEPT !.at = a, !.i = n]
      BY <1>4 DEF ScanRead
    <3> HIDE DEF a, n
    <3> QED
      BY <1>b, <3>1, <3>2, <3>3, BusIndex
  <2>2. liveCount <= bus.i /\ bus.i < NumDoors /\ liveCount \in Nat
    BY <1>0, <1>b, <1>4 DEF ScanRead, Goes, ListInOrder, Typed, Doors
  <2>3. liveList' \in [Doors -> Somewhere] /\ liveCount' \in 0 .. NumDoors
    <3>1. liveList \in [Doors -> Somewhere] /\ bus.i \in Somewhere
      BY <1>0, <1>b DEF Typed, Somewhere
    <3>2. [liveList EXCEPT ![liveCount] = bus.i] \in [Doors -> Somewhere]
      BY <3>1
    <3>3. CASE target \in present
      <4>1. liveList' = [liveList EXCEPT ![liveCount] = bus.i] /\ liveCount' = liveCount + 1
        BY <1>4, <3>3 DEF ScanRead
      <4> QED
        BY <1>b, <2>2, <3>2, <4>1
    <3>4. CASE target \notin present
      <4>1. UNCHANGED live
        BY <1>4, <3>4 DEF ScanRead
      <4> QED
        BY <1>0, <4>1 DEF Typed, live
    <3> QED
      BY <3>3, <3>4
  <2> QED
    BY <1>0, <1>4, <2>1, <2>3 DEF ScanRead, Typed, address, environment, history
<1>5. CASE PollNote
  <2>1. bus' \in BusType
    BY <1>b, <1>5, Places, BusAt DEF PollNote
  <2>2. noted' \in Somewhere /\ crossed' \in BOOLEAN
    BY <1>0, <1>b, <1>5 DEF PollNote, BusCrosses, Typed
  <2> QED
    BY <1>0, <1>5, <2>1, <2>2 DEF PollNote, Typed, live, environment
<1>6. CASE PollIoctl
  <2>1. bus' \in BusType
    <3>1. noted \in Somewhere /\ "poll_count" \in BusStates
      BY <1>0, Places DEF Typed
    <3> QED
      BY <1>b, <1>6, <3>1, BusSource DEF PollIoctl
  <2>2. target' \in Somewhere /\ crossed' \in BOOLEAN
    BY <1>0, <1>b, <1>6 DEF PollIoctl, BusCrosses, Typed
  <2> QED
    BY <1>0, <1>6, <2>1, <2>2 DEF PollIoctl, Typed, live, environment
<1>7. CASE PollCount
  <2>1. ASSUME target \in present, log[target].len > 0 PROVE bus' \in BusType
    <3>1. log[target].len \in Nat /\ "poll_entry" \in BusStates
      BY <1>0, <2>1, Places DEF Typed, LogsOwn
    <3>2. bus' = [bus EXCEPT !.at = "poll_entry", !.left = log[target].len, !.j = 0]
      BY <1>7, <2>1 DEF PollCount
    <3>3. [bus EXCEPT !.at = "poll_entry", !.left = log[target].len, !.j = 0] \in BusType
      BY <1>b, <3>1, BusLength
    <3> QED
      BY <3>2, <3>3
  <2>2. ASSUME ~(target \in present /\ log[target].len > 0) PROVE bus' \in BusType
    <3>1. bus' \in NextDoor(bus) /\ bus.i < liveCount
      BY <1>0, <1>7, <2>2 DEF PollCount, Goes, ListInOrder
    <3> QED
      BY <1>0, <3>1, AfterDoor
  <2>3. bus' \in BusType
    BY <2>1, <2>2
  <2>4. Others
    BY <1>7 DEF PollCount, environment, history
  <2> QED
    BY <1>o, <2>3, <2>4
<1>8. CASE PollEntry
  <2>1. ASSUME target \in present, bus.j < Len(log[target].buffer) PROVE bus' \in BusType
    <3> DEFINE e == log[target].buffer[bus.j + 1]
    <3>1. target \in Doors
      BY <1>0, <2>1 DEF Typed
    <3>2. e \in Own(target)
      BY <1>0, <1>b, <2>1, <3>1, EventRead
    <3>3. e \in DoorEvents
      BY <3>1, <3>2, OwnEvents
    <3>4. bus' = [bus EXCEPT !.at = "poll_acquire", !.event = e, !.reporter = noted]
      BY <1>8, <2>1 DEF PollEntry
    <3>5. noted \in Somewhere /\ "poll_acquire" \in BusStates
      BY <1>0, Places DEF Typed
    <3> HIDE DEF e
    <3>6. [bus EXCEPT !.at = "poll_acquire", !.event = e, !.reporter = noted] \in BusType
      BY <1>b, <3>3, <3>5, BusEvent
    <3> QED
      BY <3>4, <3>6
  <2>2. ASSUME ~(target \in present /\ bus.j < Len(log[target].buffer))
        PROVE  bus' \in BusType
    BY <1>0, <1>8, <2>2, EntryPlace DEF PollEntry
  <2>3. bus' \in BusType
    BY <2>1, <2>2
  <2>4. Others
    BY <1>8 DEF PollEntry, environment
  <2> QED
    BY <1>o, <2>3, <2>4
<1>9. CASE PollAcquire
  <2>1. bus' \in BusType
    <3> DEFINE a == IF bus.event.kind = "boot" THEN "poll_sync" ELSE "poll_release"
    <3>1. a \in BusStates
      BY Places
    <3>2. bus' = [bus EXCEPT !.at = a]
      BY <1>9 DEF PollAcquire
    <3> HIDE DEF a
    <3> QED
      BY <1>b, <3>1, <3>2, BusAt
  <2>2. stray' \in BOOLEAN
    BY <1>0, <1>9 DEF PollAcquire, Typed
  <2> QED
    BY <1>0, <1>9, <2>1, <2>2 DEF PollAcquire, Typed, address, live, environment
<1>10. CASE PollSync
  <2>1. bus' \in BusType
    BY <1>b, <1>10, Places, BusAt DEF PollSync
  <2>2. Others
    BY <1>10 DEF PollSync, environment
  <2> QED
    BY <1>o, <2>1, <2>2
<1>11. CASE PollRelease
  <2>1. bus' \in BusType
    BY <1>0, <1>11, EntryPlace DEF PollRelease
  <2>2. Others
    BY <1>11 DEF PollRelease, environment, history
  <2> QED
    BY <1>o, <2>1, <2>2
<1>12. CASE PollClear
  <2>1. bus' \in NextDoor(bus) /\ bus.i < liveCount
    BY <1>0, <1>12 DEF PollClear, Goes, ListInOrder
  <2>2. bus' \in BusType
    BY <1>0, <2>1, AfterDoor
  <2>3. Others
    BY <1>12 DEF PollClear, history
  <2> QED
    BY <1>o, <2>2, <2>3
<1>13. ASSUME NEW d \in Doors, Ring(d) \/ SwitchOn(d) \/ SwitchOff(d) PROVE Typed'
  BY <1>0, <1>13 DEF Ring, SwitchOn, SwitchOff, Typed, address, live, history
<1>14. ASSUME NEW d \in Doors, Receive(d) PROVE Typed'
  <2>1. inbox' \in [at : InboxStates, dest : Doors, addr : Somewhere]
    BY <1>14 DEF Receive, Somewhere
  <2> QED
    BY <1>0, <1>14, <2>1 DEF Receive, Typed, address, live, history
<1>i. inbox \in [at : InboxStates, dest : Doors, addr : Somewhere]
  BY <1>0 DEF Typed
<1>15. CASE Acquire \/ Refuse \/ Release \/ Write
  <2>1. inbox' \in [at : InboxStates, dest : Doors, addr : Somewhere]
    BY <1>i, <1>15 DEF Acquire, Refuse, Release, Write, InboxGoes
  <2>2. UNCHANGED <<present, address, live, bus, crossed, stray>>
    BY <1>15 DEF Acquire, Refuse, Release, Write, environment, history
  <2> QED
    BY <1>0, <2>1, <2>2 DEF Typed, address, live
<1>16. CASE Note
  <2>1. Listed \in Somewhere
    BY <1>0, <1>i DEF Typed, Listed
  <2>2. inbox' \in [at : InboxStates, dest : Doors, addr : Somewhere]
    BY <1>i, <1>16, <2>1 DEF Note
  <2>3. crossed' \in BOOLEAN
    BY <1>0, <1>16 DEF Note, InboxCrosses, Typed
  <2> QED
    BY <1>0, <1>16, <2>1, <2>2, <2>3 DEF Note, Typed, live, environment
<1>17. CASE Ioctl
  <2>1. inbox' \in [at : InboxStates, dest : Doors, addr : Somewhere]
    BY <1>i, <1>17 DEF Ioctl, InboxGoes
  <2>2. crossed' \in BOOLEAN /\ target' \in Somewhere
    BY <1>0, <1>i, <1>17 DEF Ioctl, InboxCrosses, Typed
  <2> QED
    BY <1>0, <1>17, <2>1, <2>2 DEF Ioctl, Typed, live, environment
<1>18. CASE UNCHANGED vars
  BY <1>0, <1>18 DEF vars, Typed, address, live, environment, history
<1> QED
  BY <1>1, <1>2, <1>3, <1>4, <1>5, <1>6, <1>7, <1>8, <1>9, <1>10, <1>11, <1>12,
     <1>13, <1>14, <1>15, <1>16, <1>17, <1>18 DEF Next, BusThread, InboxThread

\* Every step leaves each log to its door.
LEMMA LogStep == IInv /\ [Next]_vars => LogsOwn'
<1> SUFFICES ASSUME IInv, [Next]_vars PROVE LogsOwn'
  OBVIOUS
<1>0. Typed /\ LogsOwn
  BY DEF IInv
<1>1. ASSUME NEW d \in Doors, NEW l, log' = [log EXCEPT ![d] = l],
             l \in [buffer : Seq(Own(d)), len : Nat], l.len <= Len(l.buffer)
      PROVE  LogsOwn'
  BY <1>0, <1>1 DEF LogsOwn, Own, Boot, Bell
<1>2. ASSUME UNCHANGED log PROVE LogsOwn'
  BY <1>0, <1>2 DEF LogsOwn, Own, Boot, Bell
<1>3. ASSUME NEW d \in Doors, Ring(d) PROVE LogsOwn'
  <2>1. Bell(d) \in Own(d)
    BY OwnEvents
  <2>2. log[d] \in [buffer : Seq(Own(d)), len : Nat] /\ log[d].len <= Len(log[d].buffer)
    BY <1>0 DEF LogsOwn
  <2>3. /\ Stored(log[d], Bell(d)) \in [buffer : Seq(Own(d)), len : Nat]
        /\ Stored(log[d], Bell(d)).len <= Len(Stored(log[d], Bell(d)).buffer)
    BY <2>1, <2>2, StoredKeeps
  <2>4. log' = [log EXCEPT ![d] = Stored(log[d], Bell(d))]
    BY <1>3 DEF Ring
  <2> QED
    BY <1>1, <2>3, <2>4
<1>4. ASSUME NEW d \in Doors, SwitchOn(d) PROVE LogsOwn'
  <2> DEFINE l == [buffer |-> <<Boot(d)>>, len |-> 1]
  <2>1. Boot(d) \in Own(d)
    BY OwnEvents
  <2>2. <<Boot(d)>> \in Seq(Own(d)) /\ Len(<<Boot(d)>>) = 1
    BY <2>1
  <2>3. l \in [buffer : Seq(Own(d)), len : Nat] /\ l.len <= Len(l.buffer)
    BY <2>2
  <2>4. log' = [log EXCEPT ![d] = l]
    BY <1>4 DEF SwitchOn
  <2> HIDE DEF l
  <2> QED
    BY <1>1, <2>3, <2>4
<1>5. CASE PollClear
  <2>1. CASE target \in present
    <3> DEFINE l == [log[target] EXCEPT !.len = 0]
    <3>1. target \in Doors
      BY <1>0, <2>1 DEF Typed
    <3>2. log[target] \in [buffer : Seq(Own(target)), len : Nat]
      BY <1>0, <3>1 DEF LogsOwn
    <3>3. l \in [buffer : Seq(Own(target)), len : Nat] /\ l.len <= Len(l.buffer)
      BY <3>2
    <3>4. log' = [log EXCEPT ![target] = l]
      BY <1>5, <2>1 DEF PollClear
    <3> HIDE DEF l
    <3> QED
      BY <1>1, <3>1, <3>3, <3>4
  <2>2. CASE target \notin present
    BY <1>2, <1>5, <2>2 DEF PollClear
  <2> QED
    BY <2>1, <2>2
<1>6. ASSUME NEW d \in Doors, SwitchOff(d) \/ Receive(d) PROVE LogsOwn'
  BY <1>2, <1>6 DEF SwitchOff, Receive
<1>7. CASE ScanStart \/ ScanNote \/ ScanIoctl \/ ScanRead \/ PollNote \/ PollIoctl
  BY <1>2, <1>7 DEF ScanStart, ScanNote, ScanIoctl, ScanRead, PollNote, PollIoctl, environment
<1>8. CASE PollCount \/ PollEntry \/ PollAcquire \/ PollSync \/ PollRelease
  BY <1>2, <1>8 DEF PollCount, PollEntry, PollAcquire, PollSync, PollRelease, environment
<1>9. CASE InboxThread
  BY <1>2, <1>9 DEF InboxThread, Acquire, Refuse, Note, Ioctl, Write, Release, environment
<1>10. CASE UNCHANGED vars
  BY <1>2, <1>10 DEF vars, environment
<1> QED
  BY <1>3, <1>4, <1>5, <1>6, <1>7, <1>8, <1>9, <1>10 DEF Next, BusThread

\* Every step keeps the list of live doors in their order.
LEMMA ListStep == IInv /\ [Next]_vars => ListInOrder' /\ OwnPlace'
<1> SUFFICES ASSUME IInv, [Next]_vars PROVE ListInOrder' /\ OwnPlace'
  OBVIOUS
<1> USE DoorManagerAssumption
<1>0. Typed /\ ListInOrder /\ OwnPlace
  BY DEF IInv
<1>b. bus \in BusType /\ bus.at \in BusStates /\ bus.i \in Doors /\ bus.i \in Nat
  BY <1>0, BusFields DEF Typed
<1>1. ASSUME UNCHANGED live,
             bus'.at \in ScanSteps => bus.at \in ScanSteps /\ bus'.i = bus.i,
             bus'.at \in PollSteps => bus'.i < liveCount
      PROVE  ListInOrder' /\ OwnPlace'
  BY <1>0, <1>1 DEF ListInOrder, OwnPlace, LiveListAscending, Scanned, live
<1>2. ASSUME UNCHANGED <<live, bus>> PROVE ListInOrder' /\ OwnPlace'
  BY <1>0, <1>1, <1>2 DEF ListInOrder
<1>3. ASSUME NEW a, bus' = [bus EXCEPT !.at = a], UNCHANGED live,
             \/ a \in ScanSteps /\ bus.at \in ScanSteps
             \/ a \in PollSteps /\ bus.at \in PollSteps
      PROVE  ListInOrder' /\ OwnPlace'
  <2>1. bus'.at = a /\ bus'.i = bus.i
    BY <1>b, <1>3 DEF BusType
  <2> QED
    BY <1>0, <1>1, <1>3, <2>1 DEF ListInOrder
<1>4. CASE ScanStart
  <2>1. bus'.at = "scan_note" /\ bus'.i = 0 /\ liveCount' = 0
    BY <1>b, <1>4 DEF ScanStart, BusType
  <2> QED
    BY <2>1 DEF ListInOrder, OwnPlace, LiveListAscending, Doors
<1>5. CASE ScanNote \/ ScanIoctl
  BY <1>3, <1>5 DEF ScanNote, ScanIoctl, Goes
<1>6. CASE ScanRead
  <2>1. /\ bus.at = "scan_read"
        /\ liveCount <= bus.i /\ \A k \in Doors : k < liveCount => liveList[k] < bus.i
    BY <1>0, <1>6 DEF ScanRead, Goes, ListInOrder
  <2>2. /\ bus'.at = IF bus.i + 1 = NumDoors /\ liveCount' > 0 THEN "poll_note" ELSE "scan_note"
        /\ bus'.i = IF bus.i + 1 = NumDoors THEN 0 ELSE bus.i + 1
    BY <1>b, <1>6 DEF ScanRead, BusType
  <2>3. liveCount \in Nat /\ liveCount \in Doors /\ liveList \in [Doors -> Somewhere]
    BY <1>0, <1>b, <2>1 DEF Typed, Doors
  <2>4. CASE target \in present
    <3>1. /\ liveCount' = liveCount + 1
          /\ liveList' = [liveList EXCEPT ![liveCount] = bus.i]
      BY <1>6, <2>4 DEF ScanRead
    <3>2. /\ liveList'[liveCount] = bus.i
          /\ \A k \in Doors : k < liveCount => liveList'[k] = liveList[k]
      BY <2>3, <3>1 DEF Doors
    <3>3. \A k \in Doors : k < liveCount' <=> k < liveCount \/ k = liveCount
      BY <2>3, <3>1 DEF Doors
    <3>4. \A k \in Doors : k < liveCount => liveList[k] \in Doors /\ k <= liveList[k]
      BY <1>0 DEF ListInOrder
    <3>5. \A k \in Doors : k < liveCount' => liveList'[k] \in Doors /\ k <= liveList'[k]
      BY <1>b, <2>1, <3>2, <3>3, <3>4
    <3>6. \A k \in Doors : k < liveCount' => liveList'[k] < bus.i + 1
      BY <1>b, <2>1, <3>2, <3>3, <3>4 DEF Doors
    <3>7. LiveListAscending'
      <4> SUFFICES ASSUME NEW i \in Doors, NEW k \in Doors, i < k, k < liveCount'
                   PROVE  liveList'[i] < liveList'[k]
        BY DEF LiveListAscending
      <4>1. i < liveCount
        BY <2>3, <3>1 DEF Doors
      <4>2. CASE k < liveCount
        BY <1>0, <3>2, <4>1, <4>2 DEF ListInOrder, LiveListAscending
      <4>3. CASE k = liveCount
        BY <2>1, <3>2, <4>1, <4>3
      <4> QED
        BY <3>3, <4>2, <4>3
    <3>8. ListInOrder'
      <4>1. bus'.at \in ScanSteps =>
              liveCount' <= bus'.i /\ \A k \in Doors : k < liveCount' => liveList'[k] < bus'.i
        BY <1>b, <2>1, <2>2, <2>3, <3>1, <3>6
      <4>2. bus'.at \in PollSteps => bus'.i < liveCount'
        BY <2>2, <2>3, <3>1
      <4> QED
        BY <3>5, <3>7, <4>1, <4>2 DEF ListInOrder
    <3>9. OwnPlace'
      <4> SUFFICES ASSUME NEW k \in Doors, k < liveCount', (0 .. k \subseteq Scanned)'
                   PROVE  liveList'[k] = k
        BY DEF OwnPlace
      <4>1. Scanned' \subseteq Scanned \cup {bus.i}
        BY <3>2, <3>3 DEF Scanned
      <4>2. \A n \in Nat : n < bus.i /\ n \in 0 .. k => 0 .. n \subseteq Scanned
        BY <1>b, <4>1 DEF Doors
      <4>3. CASE k < liveCount
        <5>1. k < bus.i
          BY <1>b, <2>1, <2>3, <4>3 DEF Doors
        <5>2. 0 .. k \subseteq Scanned
          BY <4>2, <5>1 DEF Doors
        <5> QED
          BY <1>0, <3>2, <4>3, <5>2 DEF OwnPlace
      <4>4. CASE k = liveCount
        <5>1. SUFFICES ASSUME k < bus.i PROVE FALSE
          BY <1>b, <2>1, <3>2, <4>4 DEF Doors
        <5>2. 0 .. k \subseteq Scanned
          BY <4>2, <5>1 DEF Doors
        <5>3. k < liveCount
          BY <1>0, <5>2, InPlace
        <5> QED
          BY <2>3, <4>4, <5>3
      <4> QED
        BY <3>3, <4>3, <4>4
    <3> QED
      BY <3>8, <3>9
  <2>5. CASE target \notin present
    <3>1. UNCHANGED live
      BY <1>6, <2>5 DEF ScanRead
    <3>2. liveCount' = liveCount /\ liveList' = liveList
      BY <3>1 DEF live
    <3>3. bus'.at \in ScanSteps =>
            liveCount' <= bus'.i /\ \A k \in Doors : k < liveCount' => liveList'[k] < bus'.i
      <4>1. CASE bus.i + 1 = NumDoors
        <5>1. bus'.at \in ScanSteps => liveCount = 0
          BY <2>2, <2>3, <3>2, <4>1
        <5> QED
          BY <2>2, <2>3, <3>2, <4>1, <5>1 DEF Doors
      <4>2. CASE bus.i + 1 # NumDoors
        <5>1. \A k \in Doors : k < liveCount => liveList[k] \in Doors
          BY <1>0 DEF ListInOrder
        <5> QED
          BY <1>b, <2>1, <2>2, <2>3, <3>2, <4>2, <5>1 DEF Doors
      <4> QED
        BY <4>1, <4>2
    <3>4. bus'.at \in PollSteps => bus'.i < liveCount'
      BY <2>2, <2>3, <3>2
    <3>5. LiveListAscending' /\ OwnPlace'
      BY <1>0, <3>2 DEF ListInOrder, LiveListAscending, OwnPlace, Scanned
    <3>6. \A k \in Doors : k < liveCount' => liveList'[k] \in Doors /\ k <= liveList'[k]
      BY <1>0, <3>2 DEF ListInOrder
    <3> QED
      BY <3>3, <3>4, <3>5, <3>6 DEF ListInOrder
  <2> QED
    BY <2>4, <2>5
<1>7. CASE PollNote
  BY <1>3, <1>7 DEF PollNote, Goes
<1>8. CASE PollIoctl
  <2>1. bus'.at = "poll_count" /\ bus'.i = bus.i
    BY <1>b, <1>8 DEF PollIoctl, BusType
  <2> QED
    BY <1>0, <1>1, <1>8, <2>1 DEF PollIoctl, Goes, ListInOrder
<1>9. ASSUME bus.i < liveCount, bus' \in NextDoor(bus), UNCHANGED live
      PROVE  ListInOrder' /\ OwnPlace'
  <2>1. bus'.at = "scan_start" \/ (bus'.at = "poll_note" /\ bus'.i < liveCount)
    BY <1>0, <1>9, AfterDoor
  <2> QED
    BY <1>1, <1>9, <2>1
<1>10. CASE PollCount
  <2>1. bus.i < liveCount /\ UNCHANGED live
    BY <1>0, <1>10 DEF PollCount, Goes, ListInOrder
  <2>2. CASE bus' \in NextDoor(bus)
    BY <1>9, <2>1, <2>2
  <2>3. CASE bus' \notin NextDoor(bus)
    <3>1. bus'.at = "poll_entry" /\ bus'.i = bus.i
      BY <1>b, <1>10, <2>3 DEF PollCount, BusType
    <3> QED
      BY <1>1, <2>1, <3>1
  <2> QED
    BY <2>2, <2>3
<1>11. ASSUME bus.i < liveCount, bus' = NextEntry, UNCHANGED live
       PROVE  ListInOrder' /\ OwnPlace'
  <2>1. bus'.at \in {"poll_entry", "poll_clear"} /\ bus'.i = bus.i
    BY <1>0, <1>11, EntryPlace
  <2> QED
    BY <1>1, <1>11, <2>1
<1>12. CASE PollEntry
  <2>1. bus.i < liveCount /\ UNCHANGED live
    BY <1>0, <1>12 DEF PollEntry, Goes, ListInOrder
  <2>2. CASE bus' = NextEntry
    BY <1>11, <2>1, <2>2
  <2>3. CASE bus' # NextEntry
    <3>1. bus'.at = "poll_acquire" /\ bus'.i = bus.i
      BY <1>b, <1>12, <2>3 DEF PollEntry, BusType
    <3> QED
      BY <1>1, <2>1, <3>1
  <2> QED
    BY <2>2, <2>3
<1>13. CASE PollAcquire \/ PollSync
  <2>1. PICK a \in {"poll_sync", "poll_release"} : bus' = [bus EXCEPT !.at = a]
    BY <1>13 DEF PollAcquire, PollSync
  <2>2. bus.at \in PollSteps /\ UNCHANGED live
    BY <1>13 DEF PollAcquire, PollSync, Goes
  <2> QED
    BY <1>3, <2>1, <2>2
<1>14. CASE PollRelease
  BY <1>0, <1>11, <1>14 DEF PollRelease, Goes, ListInOrder
<1>15. CASE PollClear
  BY <1>0, <1>9, <1>15 DEF PollClear, Goes, ListInOrder
<1>16. ASSUME NEW d \in Doors, Ring(d) \/ SwitchOn(d) \/ SwitchOff(d) \/ Receive(d)
       PROVE  ListInOrder' /\ OwnPlace'
  BY <1>2, <1>16 DEF Ring, SwitchOn, SwitchOff, Receive
<1>17. CASE InboxThread
  BY <1>2, <1>17 DEF InboxThread, Acquire, Refuse, Note, Ioctl, Write, Release
<1>18. CASE UNCHANGED vars
  BY <1>2, <1>18 DEF vars
<1> QED
  BY <1>4, <1>5, <1>6, <1>7, <1>8, <1>10, <1>12, <1>13, <1>14, <1>15, <1>16, <1>17, <1>18
  DEF Next, BusThread

\* What the steps of the bus thread leave of its state.
LEMMA BusStep ==
  ASSUME Typed
  PROVE  /\ ScanStart => bus'.at = "scan_note"
         /\ ScanNote => bus'.at = "scan_ioctl"
         /\ ScanIoctl => bus'.at = "scan_read"
         /\ ScanRead => bus'.at \in {"poll_note", "scan_note"}
         /\ PollNote => bus'.at = "poll_ioctl" /\ bus'.i = bus.i
         /\ PollIoctl => bus'.at = "poll_count" /\ bus'.i = bus.i /\ bus'.source = noted
         /\ PollAcquire \/ PollSync =>
              /\ bus'.at \in {"poll_sync", "poll_release"}
              /\ bus'.i = bus.i /\ bus'.source = bus.source
              /\ bus'.event = bus.event /\ bus'.reporter = bus.reporter
<1>1. bus \in BusType
  BY DEF Typed
<1>2. /\ ScanStart => bus'.at = "scan_note"
      /\ ScanNote => bus'.at = "scan_ioctl"
      /\ ScanIoctl => bus'.at = "scan_read"
      /\ ScanRead => bus'.at \in {"poll_note", "scan_note"}
  BY <1>1 DEF BusType, ScanStart, ScanNote, ScanIoctl, ScanRead
<1>3. /\ PollNote => bus'.at = "poll_ioctl" /\ bus'.i = bus.i
      /\ PollIoctl => bus'.at = "poll_count" /\ bus'.i = bus.i /\ bus'.source = noted
  BY <1>1 DEF BusType, PollNote, PollIoctl
<1>4. PollAcquire \/ PollSync =>
        \E a \in {"poll_sync", "poll_release"} : bus' = [bus EXCEPT !.at = a]
  BY DEF PollAcquire, PollSync
<1>5. PollAcquire \/ PollSync =>
        /\ bus'.at \in {"poll_sync", "poll_release"}
        /\ bus'.i = bus.i /\ bus'.source = bus.source
        /\ bus'.event = bus.event /\ bus'.reporter = bus.reporter
  BY <1>1, <1>4 DEF BusType
<1> QED
  BY <1>2, <1>3, <1>5

\* Every step leaves the target where the thread that uses it put it, unless
\* the threads cross.
LEMMA PointStep == IInv /\ [Next]_vars => Apart' /\ PollPoints' /\ RequestPoints'
<1> SUFFICES ASSUME IInv, [Next]_vars PROVE Apart' /\ PollPoints' /\ RequestPoints'
  OBVIOUS
<1> DEFINE P == Apart' /\ PollPoints' /\ RequestPoints'
<1>0. Typed /\ ListInOrder /\ LogsOwn /\ Apart /\ PollPoints /\ RequestPoints
  BY DEF IInv
<1>b. bus \in BusType /\ bus.at \in BusStates /\ bus.j \in Nat
  BY <1>0, BusFields DEF Typed
\* A step of the bus thread while the inbox thread does not rely on the target.
<1>1. ASSUME ~crossed' => inbox.at \notin InboxSteps, UNCHANGED inbox, PollPoints' PROVE P
  BY <1>1 DEF Apart, RequestPoints
\* A step of the inbox thread, or of a door.
<1>2. ASSUME UNCHANGED <<bus, live, address, crossed>>,
             UNCHANGED inbox \/ inbox'.at \notin InboxSteps
      PROVE  P
  BY <1>0, <1>2 DEF Apart, PollPoints, RequestPoints, live, address
<1>3. CASE ScanStart
  <2>1. bus'.at = "scan_note" /\ liveCount' = 0 /\ UNCHANGED <<address, inbox, crossed>>
    BY <1>0, <1>3, BusStep DEF ScanStart, history
  <2> QED
    BY <1>0, <2>1 DEF Apart, PollPoints, RequestPoints, address
<1>4. CASE ScanNote \/ ScanIoctl
  <2>1. /\ bus'.at \in {"scan_ioctl", "scan_read"}
        /\ ~crossed' => inbox.at \notin InboxSteps
        /\ UNCHANGED inbox
    BY <1>0, <1>4, BusStep DEF ScanNote, ScanIoctl, BusCrosses
  <2> QED
    BY <1>1, <2>1 DEF PollPoints
<1>5. CASE ScanRead
  <2>1. /\ bus.at = "scan_read" /\ UNCHANGED <<inbox, crossed>>
        /\ bus'.at \in {"poll_note", "scan_note"}
    BY <1>0, <1>5, BusStep DEF ScanRead, Goes, history
  <2> QED
    BY <1>0, <1>1, <2>1 DEF Apart, PollPoints
<1>6. CASE PollNote
  <2>1. /\ bus'.at = "poll_ioctl" /\ bus'.i = bus.i /\ noted' = liveList[bus.i]
        /\ UNCHANGED <<inbox, live>>
        /\ ~crossed' => inbox.at \notin InboxSteps
    BY <1>0, <1>6, BusStep DEF PollNote, BusCrosses
  <2> QED
    BY <1>1, <2>1 DEF PollPoints, live
<1>7. CASE PollIoctl
  <2>1. /\ bus'.at = "poll_count" /\ bus'.i = bus.i /\ bus'.source = noted
        /\ target' = liveList[bus.i] /\ bus.at = "poll_ioctl"
        /\ UNCHANGED <<inbox, live, noted>>
        /\ ~crossed' => ~crossed /\ inbox.at \notin InboxSteps
    BY <1>0, <1>7, BusStep DEF PollIoctl, BusCrosses, Goes
  <2> QED
    BY <1>0, <1>1, <2>1 DEF PollPoints, live
\* A step of a poll that leaves the target alone.
<1>8. ASSUME bus.at \in Pointed, UNCHANGED <<address, live, inbox, crossed>>,
             \/ /\ bus'.at \in Pointed /\ bus'.i = bus.i /\ bus'.source = bus.source
                /\ bus'.at \in Processing =>
                     (~crossed => bus'.event \in Own(target) /\ bus'.reporter = target)
             \/ bus'.at \in {"scan_start", "poll_note"}
      PROVE  P
  <2>1. ~crossed => inbox.at \notin InboxSteps
    BY <1>0, <1>8 DEF Apart
  <2>2. PollPoints'
    BY <1>0, <1>8 DEF PollPoints, live, address, Own, Boot, Bell
  <2> QED
    BY <1>1, <1>8, <2>1, <2>2
<1>9. ASSUME bus.at \in Pointed, UNCHANGED <<address, live, inbox, crossed>>,
             bus' \in NextDoor(bus)
      PROVE  P
  <2>1. bus.i < liveCount
    BY <1>0, <1>9 DEF ListInOrder
  <2>2. bus'.at \in {"scan_start", "poll_note"}
    BY <1>0, <1>9, <2>1, AfterDoor
  <2> QED
    BY <1>8, <1>9, <2>2
<1>10. ASSUME bus.at \in Pointed, UNCHANGED <<address, live, inbox, crossed>>, bus' = NextEntry
       PROVE  P
  <2>1. bus'.at \in {"poll_entry", "poll_clear"} /\ bus'.i = bus.i /\ bus'.source = bus.source
    BY <1>0, <1>10, EntryPlace
  <2> QED
    BY <1>8, <1>10, <2>1
<1>11. CASE PollCount
  <2>1. bus.at \in Pointed /\ UNCHANGED <<address, live, inbox, crossed>>
    BY <1>11 DEF PollCount, Goes, history
  <2>2. CASE bus' \in NextDoor(bus)
    BY <1>9, <2>1, <2>2
  <2>3. CASE bus' \notin NextDoor(bus)
    <3>1. bus'.at = "poll_entry" /\ bus'.i = bus.i /\ bus'.source = bus.source
      BY <1>b, <1>11, <2>3 DEF PollCount, BusType
    <3> QED
      BY <1>8, <2>1, <3>1
  <2> QED
    BY <2>2, <2>3
<1>12. CASE PollEntry
  <2>1. bus.at = "poll_entry" /\ UNCHANGED <<address, live, inbox, crossed>>
    BY <1>12 DEF PollEntry, Goes
  <2>2. CASE bus' = NextEntry
    BY <1>10, <2>1, <2>2
  <2>3. CASE bus' # NextEntry
    <3> DEFINE e == log[target].buffer[bus.j + 1]
    <3>1. /\ target \in present /\ bus.j < Len(log[target].buffer)
          /\ bus' = [bus EXCEPT !.at = "poll_acquire", !.event = e, !.reporter = noted]
      BY <1>12, <2>3 DEF PollEntry
    <3>2. e \in Own(target)
      BY <1>0, <1>b, <3>1, EventRead DEF Typed
    <3>3. ~crossed => noted = target
      BY <1>0, <2>1 DEF PollPoints
    <3> HIDE DEF e
    <3>4. /\ bus'.at = "poll_acquire" /\ bus'.i = bus.i /\ bus'.source = bus.source
          /\ bus'.event = e /\ bus'.reporter = noted
      BY <1>b, <3>1 DEF BusType
    <3> QED
      BY <1>8, <2>1, <3>2, <3>3, <3>4
  <2> QED
    BY <2>2, <2>3
<1>13. CASE PollAcquire \/ PollSync
  <2>1. bus.at \in Processing /\ UNCHANGED <<address, live, inbox, crossed>>
    BY <1>13 DEF PollAcquire, PollSync, Goes
  <2>2. ~crossed => bus.event \in Own(target) /\ bus.reporter = target
    BY <1>0, <2>1 DEF PollPoints
  <2>3. /\ bus'.at \in {"poll_sync", "poll_release"}
        /\ bus'.i = bus.i /\ bus'.source = bus.source
        /\ bus'.event = bus.event /\ bus'.reporter = bus.reporter
    BY <1>0, <1>13, BusStep
  <2> QED
    BY <1>8, <2>1, <2>2, <2>3
<1>14. CASE PollRelease
  BY <1>10, <1>14 DEF PollRelease, Goes, history
<1>15. CASE PollClear
  BY <1>9, <1>15 DEF PollClear, Goes, history
<1>16. ASSUME NEW d \in Doors, Ring(d) \/ SwitchOn(d) \/ SwitchOff(d) PROVE P
  BY <1>2, <1>16 DEF Ring, SwitchOn, SwitchOff, history
<1>17. ASSUME NEW d \in Doors, Receive(d) PROVE P
  <2>1. inbox'.at = "acquire"
    BY <1>17 DEF Receive
  <2> QED
    BY <1>2, <1>17, <2>1 DEF Receive, history
<1>i. inbox \in [at : InboxStates, dest : Doors, addr : Somewhere]
  BY <1>0 DEF Typed
<1>18. CASE Acquire \/ Refuse \/ Release \/ Write
  <2>1. inbox'.at \in {"check", "release", "idle"}
    BY <1>i, <1>18 DEF Acquire, Refuse, Release, Write, InboxGoes
  <2>2. UNCHANGED <<bus, live, address, crossed>>
    BY <1>18 DEF Acquire, Refuse, Release, Write, history
  <2> QED
    BY <1>2, <2>1, <2>2
<1>19. CASE Note
  <2>1. /\ inbox'.at = "ioctl" /\ inbox'.dest = inbox.dest /\ inbox'.addr = liveList[inbox.dest]
        /\ UNCHANGED <<bus, live>>
        /\ ~crossed' => bus.at \notin BusSteps
    BY <1>i, <1>19 DEF Note, Listed, InboxCrosses
  <2> QED
    BY <2>1 DEF Apart, PollPoints, RequestPoints, live
<1>20. CASE Ioctl
  <2>1. /\ inbox.at = "ioctl" /\ inbox'.at = "write"
        /\ inbox'.dest = inbox.dest /\ inbox'.addr = inbox.addr
        /\ target' = inbox.addr /\ UNCHANGED <<bus, live>>
        /\ ~crossed' => ~crossed /\ bus.at \notin BusSteps
    BY <1>i, <1>20 DEF Ioctl, InboxGoes, InboxCrosses
  <2> QED
    BY <1>0, <2>1 DEF Apart, PollPoints, RequestPoints, live
<1>21. CASE UNCHANGED vars
  BY <1>2, <1>21 DEF vars, history
<1> QED
  BY <1>3, <1>4, <1>5, <1>6, <1>7, <1>11, <1>12, <1>13, <1>14, <1>15, <1>16, <1>17, <1>18,
     <1>19, <1>20, <1>21 DEF Next, BusThread, InboxThread

\* What a poll has in hand while the threads do not cross.
LEMMA InHand ==
  ASSUME IInv, ~crossed, bus.at \in Pointed
  PROVE  /\ target \in Doors /\ noted = target /\ bus.source = target
         /\ bus.at \in Processing => bus.event.door = target /\ bus.reporter = target
<1> USE DoorManagerAssumption
<1>1. Typed /\ ListInOrder /\ PollPoints
  BY DEF IInv
<1>2. bus.i \in Doors /\ bus.i < liveCount
  BY <1>1, BusFields DEF Typed, ListInOrder
<1>3. target \in Doors /\ noted = target /\ bus.source = target
  BY <1>1, <1>2 DEF ListInOrder, PollPoints
<1>4. bus.at \in Processing => bus.event.door = target /\ bus.reporter = target
  BY <1>1, <1>3, OwnEvents DEF PollPoints
<1> QED
  BY <1>3, <1>4

\* Every step takes an event for one of the door that reported it.
LEMMA AttributedStep == IInv /\ [Next]_vars => EventsAttributed'
<1> SUFFICES ASSUME IInv, [Next]_vars, ~crossed'
             PROVE  /\ ~stray'
                    /\ \A h \in handled' : h.source = h.event.door /\ h.reporter = h.event.door
                    /\ \A s \in synced' : s.reached = s.booted
  BY DEF EventsAttributed
<1> DEFINE Q == /\ ~stray'
                /\ \A h \in handled' : h.source = h.event.door /\ h.reporter = h.event.door
                /\ \A s \in synced' : s.reached = s.booted
<1>0. ASSUME ~crossed
      PROVE  /\ ~stray
             /\ \A h \in handled : h.source = h.event.door /\ h.reporter = h.event.door
             /\ \A s \in synced : s.reached = s.booted
  BY <1>0 DEF IInv, EventsAttributed
<1>1. ASSUME ~crossed, UNCHANGED <<stray, handled, synced>> PROVE Q
  BY <1>0, <1>1
<1>2. CASE PollEntry
  <2>1. ~crossed /\ bus.at = "poll_entry" /\ UNCHANGED <<stray, synced>>
    BY <1>2 DEF PollEntry, Goes
  <2>2. CASE UNCHANGED handled
    BY <1>1, <2>1, <2>2
  <2>3. CASE handled' # handled
    <3> DEFINE e == log[target].buffer[bus.j + 1]
    <3>1. /\ target \in present /\ bus.j < Len(log[target].buffer)
          /\ handled' = handled \cup {[event |-> e, source |-> bus.source, reporter |-> noted]}
      BY <1>2, <2>3 DEF PollEntry
    <3>2. target \in Doors /\ noted = target /\ bus.source = target
      BY <2>1, InHand
    <3>3. LogsOwn /\ bus.j \in Nat
      BY BusFields DEF IInv, Typed
    <3>4. e.door = target
      BY <3>1, <3>2, <3>3, EventRead, OwnEvents
    <3> HIDE DEF e
    <3> QED
      BY <1>0, <2>1, <3>1, <3>2, <3>4
  <2> QED
    BY <2>2, <2>3
<1>3. CASE PollAcquire
  <2>1. ~crossed /\ bus.at \in Processing /\ UNCHANGED <<handled, synced>>
    BY <1>3 DEF PollAcquire, Goes
  <2>2. bus.reporter \in Doors
    BY <2>1, InHand
  <2>3. UNCHANGED stray
    BY <1>3, <2>2 DEF PollAcquire
  <2> QED
    BY <1>1, <2>1, <2>3
<1>4. CASE PollSync
  <2>1. /\ ~crossed /\ bus.at \in Processing /\ UNCHANGED <<stray, handled>>
        /\ synced' = synced \cup {[booted |-> bus.event.door, reached |-> target]}
    BY <1>4 DEF PollSync, Goes
  <2>2. bus.event.door = target
    BY <2>1, InHand
  <2> QED
    BY <1>0, <2>1, <2>2
<1>5. CASE ScanStart \/ ScanRead \/ PollCount \/ PollRelease \/ PollClear
  BY <1>1, <1>5 DEF ScanStart, ScanRead, PollCount, PollRelease, PollClear, history
<1>6. CASE ScanNote \/ ScanIoctl \/ PollNote \/ PollIoctl
  BY <1>1, <1>6 DEF ScanNote, ScanIoctl, PollNote, PollIoctl, BusCrosses
<1>7. ASSUME NEW d \in Doors, Ring(d) \/ SwitchOn(d) \/ SwitchOff(d) \/ Receive(d) PROVE Q
  BY <1>1, <1>7 DEF Ring, SwitchOn, SwitchOff, Receive, history
<1>8. CASE Acquire \/ Refuse \/ Release \/ Write
  BY <1>1, <1>8 DEF Acquire, Refuse, Release, Write, history
<1>9. CASE Note \/ Ioctl
  BY <1>1, <1>9 DEF Note, Ioctl, InboxCrosses
<1>10. CASE UNCHANGED vars
  BY <1>1, <1>10 DEF vars, history
<1> QED
  BY <1>2, <1>3, <1>4, <1>5, <1>6, <1>7, <1>8, <1>9, <1>10 DEF Next, BusThread, InboxThread

\* Every step writes a request to the door it names, if there is no gap.
LEMMA CommandStep == IInv /\ [Next]_vars => CommandsReachWithoutGap'
<1> SUFFICES ASSUME IInv, [Next]_vars, ~crossed'
             PROVE  \A c \in commands' : ~c.gap => c.reached = c.dest
  BY DEF CommandsReachWithoutGap
<1> DEFINE Q == \A c \in commands' : ~c.gap => c.reached = c.dest
<1>0. ASSUME ~crossed PROVE \A c \in commands : ~c.gap => c.reached = c.dest
  BY <1>0 DEF IInv, CommandsReachWithoutGap
<1>1. ASSUME ~crossed, UNCHANGED commands PROVE Q
  BY <1>0, <1>1
<1>2. CASE Write
  <2> DEFINE g == ~ (0 .. inbox.dest \subseteq Scanned)
  <2>1. /\ ~crossed /\ inbox.at = "write"
        /\ commands' = commands \cup {[dest |-> inbox.dest, reached |-> target, gap |-> g]}
    BY <1>2 DEF Write, InboxGoes
  <2>2. ASSUME ~g PROVE target = inbox.dest
    <3>1. Typed /\ OwnPlace /\ RequestPoints
      BY DEF IInv
    <3>2. inbox.dest \in Doors /\ liveCount \in Nat
      BY <3>1, DoorManagerAssumption DEF Typed
    <3>3. inbox.dest < liveCount /\ liveList[inbox.dest] = inbox.dest
      BY <2>2, <3>1, <3>2, InPlace
    <3>4. liveCount # 0
      BY <3>2, <3>3, DoorManagerAssumption DEF Doors
    <3> QED
      BY <2>1, <3>1, <3>3, <3>4 DEF RequestPoints
  <2> HIDE DEF g
  <2> QED
    BY <1>0, <2>1, <2>2
<1>3. CASE ScanStart \/ ScanRead \/ PollCount \/ PollRelease \/ PollClear
  BY <1>1, <1>3 DEF ScanStart, ScanRead, PollCount, PollRelease, PollClear, history
<1>4. CASE ScanNote \/ ScanIoctl \/ PollNote \/ PollIoctl
  BY <1>1, <1>4 DEF ScanNote, ScanIoctl, PollNote, PollIoctl, BusCrosses
<1>5. CASE PollEntry \/ PollAcquire \/ PollSync
  BY <1>1, <1>5 DEF PollEntry, PollAcquire, PollSync
<1>6. ASSUME NEW d \in Doors, Ring(d) \/ SwitchOn(d) \/ SwitchOff(d) \/ Receive(d) PROVE Q
  BY <1>1, <1>6 DEF Ring, SwitchOn, SwitchOff, Receive, history
<1>7. CASE Acquire \/ Refuse \/ Release
  BY <1>1, <1>7 DEF Acquire, Refuse, Release, history
<1>8. CASE Note \/ Ioctl
  BY <1>1, <1>8 DEF Note, Ioctl, InboxCrosses
<1>9. CASE UNCHANGED vars
  BY <1>1, <1>9 DEF vars, history
<1> QED
  BY <1>2, <1>3, <1>4, <1>5, <1>6, <1>7, <1>8, <1>9 DEF Next, BusThread, InboxThread

\* The types of the rest: an event that is processed is one, what was done
\* with it is known by its doors, and so is what was sent.
RestTyped ==
  /\ sem \in {"free", "bus", "inbox"} /\ seen \subseteq Doors /\ count \in Nat
  /\ bus.at \in Processing => bus.event \in DoorEvents
  /\ handled \subseteq [event : DoorEvents, source : Somewhere, reporter : Somewhere]
  /\ synced \subseteq [booted : Doors, reached : Somewhere]
  /\ commands \subseteq [dest : Doors, reached : Somewhere, gap : BOOLEAN]

LEMMA RestStep == IInv /\ RestTyped /\ [Next]_vars => RestTyped'
<1> SUFFICES ASSUME IInv, RestTyped, [Next]_vars PROVE RestTyped'
  OBVIOUS
<1>0. Typed /\ ListInOrder /\ LogsOwn
  BY DEF IInv
<1>b. bus \in BusType /\ bus.at \in BusStates /\ bus.j \in Nat /\ bus.source \in Somewhere
  BY <1>0, BusFields DEF Typed
<1> DEFINE NoneInHand == bus'.at \in Processing => bus'.event \in DoorEvents
           Kept == UNCHANGED <<list, handled, synced, commands>>
<1>1. ASSUME Kept, bus'.at \notin Processing \/ UNCHANGED bus PROVE RestTyped'
  BY <1>1 DEF RestTyped, list, DoorEvents, Boot, Bell
<1>2. CASE ScanStart \/ ScanNote \/ ScanIoctl \/ ScanRead \/ PollNote \/ PollIoctl
  <2>1. bus'.at \notin Processing
    BY <1>0, <1>2, BusStep
  <2> QED
    BY <1>1, <1>2, <2>1
    DEF ScanStart, ScanNote, ScanIoctl, ScanRead, PollNote, PollIoctl, history
<1>3. CASE PollCount \/ PollClear
  <2>1. bus.i < liveCount
    BY <1>0, <1>3 DEF PollCount, PollClear, Goes, ListInOrder
  <2>2. bus' \in NextDoor(bus) => bus'.at \notin Processing
    BY <1>0, <2>1, AfterDoor
  <2>3. bus' \notin NextDoor(bus) => bus'.at = "poll_entry"
    BY <1>b, <1>3 DEF PollCount, PollClear, BusType
  <2> QED
    BY <1>1, <1>3, <2>2, <2>3 DEF PollCount, PollClear, history
<1>4. CASE PollEntry
  <2>1. CASE bus' = NextEntry /\ UNCHANGED handled
    <3>1. bus'.at \notin Processing
      BY <1>0, <2>1, EntryPlace
    <3> QED
      BY <1>1, <1>4, <2>1, <3>1 DEF PollEntry
  <2>2. CASE ~(bus' = NextEntry /\ UNCHANGED handled)
    <3> DEFINE e == log[target].buffer[bus.j + 1]
    <3>1. /\ target \in present /\ bus.j < Len(log[target].buffer)
          /\ bus' = [bus EXCEPT !.at = "poll_acquire", !.event = e, !.reporter = noted]
          /\ handled' = handled \cup {[event |-> e, source |-> bus.source, reporter |-> noted]}
      BY <1>4, <2>2 DEF PollEntry
    <3>2. e \in DoorEvents
      BY <1>0, <1>b, <3>1, EventRead, OwnEvents DEF Typed
    <3>3. noted \in Somewhere
      BY <1>0 DEF Typed
    <3> HIDE DEF e
    <3>4. bus'.event = e
      BY <1>b, <3>1 DEF BusType
    <3>5. handled' \subseteq [event : DoorEvents, source : Somewhere, reporter : Somewhere]
      BY <1>b, <3>1, <3>2, <3>3 DEF RestTyped
    <3> QED
      BY <1>4, <3>2, <3>4, <3>5 DEF PollEntry, RestTyped, list
  <2> QED
    BY <2>1, <2>2
<1>5. CASE PollAcquire
  <2>1. bus'.event \in DoorEvents
    BY <1>0, <1>5, BusStep DEF PollAcquire, Goes, RestTyped
  <2>2. sem' \in {"free", "bus", "inbox"} /\ seen' \subseteq Doors /\ count' \in Nat
    BY <1>5 DEF PollAcquire, RestTyped
  <2> QED
    BY <1>5, <2>1, <2>2 DEF PollAcquire, RestTyped
<1>6. CASE PollSync
  <2>1. bus.event \in DoorEvents /\ bus'.event = bus.event
    BY <1>0, <1>6, BusStep DEF PollSync, Goes, RestTyped
  <2>2. bus.event.door \in Doors /\ target \in Somewhere
    BY <1>0, <2>1 DEF DoorEvents, Boot, Bell, Typed
  <2>3. synced' \subseteq [booted : Doors, reached : Somewhere]
    BY <1>6, <2>2 DEF PollSync, RestTyped
  <2> QED
    BY <1>6, <2>1, <2>3 DEF PollSync, RestTyped, list, DoorEvents, Boot, Bell
<1>7. CASE PollRelease
  <2>1. bus'.at \notin Processing
    BY <1>0, <1>7, EntryPlace DEF PollRelease
  <2> QED
    BY <1>7, <2>1 DEF PollRelease, RestTyped, history
<1>8. ASSUME NEW d \in Doors, Ring(d) \/ SwitchOn(d) \/ SwitchOff(d) \/ Receive(d)
      PROVE  RestTyped'
  BY <1>1, <1>8 DEF Ring, SwitchOn, SwitchOff, Receive, history
<1>9. CASE Refuse \/ Note \/ Ioctl
  BY <1>1, <1>9 DEF Refuse, Note, Ioctl, history
<1>10. CASE Acquire \/ Release
  BY <1>10 DEF Acquire, Release, RestTyped, history
<1>11. CASE Write
  <2> DEFINE g == ~ (0 .. inbox.dest \subseteq Scanned)
  <2>1. g \in BOOLEAN
    OBVIOUS
  <2>2. commands' = commands \cup {[dest |-> inbox.dest, reached |-> target, gap |-> g]}
    BY <1>11 DEF Write
  <2> HIDE DEF g
  <2>3. inbox.dest \in Doors /\ target \in Somewhere
    BY <1>0 DEF Typed
  <2>4. commands' \subseteq [dest : Doors, reached : Somewhere, gap : BOOLEAN]
    BY <2>1, <2>2, <2>3 DEF RestTyped
  <2> QED
    BY <1>11, <2>4 DEF Write, RestTyped, list
<1>12. CASE UNCHANGED vars
  BY <1>1, <1>12 DEF vars, history
<1> QED
  BY <1>2, <1>3, <1>4, <1>5, <1>6, <1>7, <1>8, <1>9, <1>10, <1>11, <1>12
  DEF Next, BusThread, InboxThread

LEMMA Invariance == Spec => []IInv
<1>1. Init => IInv
  BY InitIInv
<1>2. IInv /\ [Next]_vars => IInv'
  <2> SUFFICES ASSUME IInv, [Next]_vars PROVE IInv'
    OBVIOUS
  <2>1. Typed' /\ LogsOwn' /\ ListInOrder' /\ OwnPlace'
    BY TypedStep, LogStep, ListStep
  <2>2. Apart' /\ PollPoints' /\ RequestPoints'
    BY PointStep
  <2>3. EventsAttributed' /\ CommandsReachWithoutGap'
    BY AttributedStep, CommandStep
  <2> QED
    BY <2>1, <2>2, <2>3 DEF IInv
<1> QED
  BY <1>1, <1>2, PTL DEF Spec

\* As long as no thread moves the target under the other, every event is
\* taken for one of the door whose log it was in, last_seen is written inside
\* the door list, and the time is sent to the door that booted
\* (i2c_poll_event_logs, process_report, process_request_from_door).
THEOREM AttributedAlways == Spec => []EventsAttributed
<1>1. IInv => EventsAttributed
  BY DEF IInv
<1> QED
  BY <1>1, Invariance, PTL

\* Under the same condition a request reaches the door it names, if the scan
\* found all doors with smaller indices (i2c_forward_request).
THEOREM ReachedWithoutGap == Spec => []CommandsReachWithoutGap
<1>1. IInv => CommandsReachWithoutGap
  BY DEF IInv
<1> QED
  BY <1>1, Invariance, PTL

\* The list of live doors is the scan's ranking of them, whether or not the
\* threads cross (i2c_scan_bus).
THEOREM ScanRanks == Spec => []LiveListAscending
<1>1. IInv => LiveListAscending
  BY DEF IInv, ListInOrder
<1> QED
  BY <1>1, Invariance, PTL

\* Every variable keeps its type.
THEOREM TypeCorrect == Spec => []TypeOK
<1>1. Init => RestTyped
  <2> SUFFICES ASSUME Init PROVE RestTyped
    OBVIOUS
  <2>1. sem \in {"free", "bus", "inbox"} /\ seen \subseteq Doors /\ count \in Nat
    BY DEF Init
  <2>2. bus.at \notin Processing
    BY DEF Init
  <2>3. handled = {} /\ synced = {} /\ commands = {}
    BY DEF Init
  <2> QED
    BY <2>1, <2>2, <2>3 DEF RestTyped
<1>2. IInv /\ RestTyped => TypeOK
  <2> SUFFICES ASSUME IInv, RestTyped PROVE TypeOK
    OBVIOUS
  <2>1. Typed /\ LogsOwn
    BY DEF IInv
  <2>2. \A d \in Doors : log[d].buffer \in Seq(DoorEvents) /\ log[d].len \in 0 .. Len(log[d].buffer)
    <3> SUFFICES ASSUME NEW d \in Doors
                 PROVE  log[d].buffer \in Seq(DoorEvents) /\ log[d].len \in 0 .. Len(log[d].buffer)
      OBVIOUS
    <3>1. log[d].buffer \in Seq(Own(d)) /\ log[d].len \in Nat /\ log[d].len <= Len(log[d].buffer)
      BY <2>1 DEF LogsOwn
    <3>2. Own(d) \subseteq DoorEvents
      BY OwnEvents
    <3> QED
      BY <3>1, <3>2
  <2> QED
    BY <2>1, <2>2 DEF TypeOK, Typed, RestTyped, BusType
<1> QED
  BY <1>1, <1>2, RestStep, Invariance, PTL DEF Spec
=============================================================================
