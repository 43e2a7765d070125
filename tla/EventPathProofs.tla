-------------------------- MODULE EventPathProofs --------------------------
(***************************************************************************)
(* Proofs about EventPath, for any number of tasks, any capacity of the    *)
(* log, any number of parts, reports and faults.                           *)
(*                                                                         *)
(* The argument: the log is always the latest part of what was stored, in  *)
(* its order (LogInOrder), and a poll stays within the length it read      *)
(* (PollInLog).  So the poll's index divides the log into entries that     *)
(* were processed or are unread, entries it will come to, and late ones    *)
(* (PollAccounts), and what was processed is older than the rest of the    *)
(* log (PollAhead).  While nothing disturbs the exchange of data at most   *)
(* one announcement is under way, in the log or carried by a task, and it  *)
(* is of what the register holds (OneAnnouncement).                        *)
(***************************************************************************)
EXTENDS EventPath, Integers, FiniteSetTheorems, TLAPS

\* The tasks that are at one of some places.
Inside(places) == {t \in Tasks : pc[t] \in places}
Active == Inside(TaskSteps \ {"idle"})
Waiting == Inside({"wait", "write"})
Appending == Inside({"take", "store"})

PartsRead == [data : Data \cup {NoData}, part : 0 .. Parts - 1]
RegisterType == [data : Data \cup {NoData}, len : {0, Parts}, offset : 0 .. Parts - 1,
                 dirty : BOOLEAN]
HubType == [at : HubSteps, count : Nat, j : Nat, event : Events \cup {0}, got : Seq(PartsRead)]

\* The types of the state, apart from the history.
Typed ==
  /\ mutex \in [avail : BOOLEAN, holder : Tasks \cup {NoTask}]
  /\ log \in Seq(Events)
  /\ register \in RegisterType
  /\ pc \in [Tasks -> TaskSteps]
  /\ carried \in [Tasks -> Data \cup {NoData}]
  /\ halted \in BOOLEAN
  /\ calls \in 0 .. MaxCalls
  /\ hub \in HubType
  /\ stored \in Nat /\ sent \in Nat \ {0}
  /\ announces \in [Events -> Data \cup {NoData}]

\* The types of the history of events.
HistoryTyped == handled \in Seq(Events) /\ late \subseteq Events /\ unread \subseteq Events

\* Every call stores at most one event and writes at most one packet.
Counted ==
  /\ stored + Cardinality(Active) <= calls + 3
  /\ sent + Cardinality(Waiting) <= calls + 1
  /\ Len(log) + Cardinality(Appending) <= Overrun

\* The log is the latest part of the events stored.
LogInOrder == Len(log) <= stored /\ \A i \in DOMAIN log : log[i] = stored - Len(log) + i

\* A poll stays within the log whose length it read.
PollInLog ==
  /\ hub.j <= hub.count
  /\ ~halted /\ hub.at # "count" =>
       /\ hub.count \in 1 .. Len(log)
       /\ IF hub.at = "clear" THEN hub.j = hub.count ELSE hub.j < hub.count
       /\ hub.at = "data" => hub.event = log[hub.j + 1]

\* The entries the poll is done with.
Done == IF hub.at = "count" THEN 0 ELSE IF hub.at = "data" THEN hub.j + 1 ELSE hub.j

\* An entry the poll is done with was processed or is unread; one it does not
\* know of is late.
PollAccounts ==
  ~halted /\ hub.at # "count" =>
    \A i \in DOMAIN log : /\ i <= Done => log[i] \in Processed \cup unread
                          /\ i > hub.count => log[i] \in late

\* What was processed is behind the poll.
PollAhead ==
  "clear" \notin disturbed /\ ~halted =>
    \A i \in DOMAIN handled : handled[i] <= stored - Len(log) + Done

\* An interrupt that keeps the mutex does so where the log is overrun.
LeakFollowsOverrun == Mutex!Leaked(mutex) => Len(log) > Capacity

\* A register that waits to be read is full from its first part.
Waits(d) == register.data = d /\ register.dirty /\ register.len = Parts /\ register.offset = 0

\* The entries that announce data the poll has not come to, and the tasks
\* that are about to append one.
Ahead == {i \in DOMAIN log : i > Done /\ announces[log[i]] # NoData}
Carriers == {t \in Tasks : carried[t] # NoData}

\* Undisturbed, there is one announcement under way, of what the register
\* holds, or none, and none while the register is being read.
OneAnnouncement ==
  disturbed = {} /\ ~halted =>
    /\ \A i \in Ahead : Waits(announces[log[i]])
    /\ \A t \in Carriers : Waits(carried[t])
    /\ \A i, k \in Ahead : i = k
    /\ \A t, u \in Carriers : t = u
    /\ Ahead = {} \/ Carriers = {}
    /\ hub.at = "data" =>
         /\ Ahead = {} /\ Carriers = {}
         /\ announces[hub.event] = register.data /\ register.dirty /\ register.len = Parts
         /\ register.offset = Len(hub.got)

\* What the poll has read belongs to an event that was stored.
EventStored == hub.event <= stored /\ (hub.event = 0 => hub.got = <<>>)

IInv ==
  /\ Typed /\ HistoryTyped /\ Counted /\ LogInOrder /\ PollInLog /\ PollAccounts /\ PollAhead
  /\ LeakFollowsOverrun /\ OneAnnouncement /\ EventStored
  /\ Accounted /\ OnceInOrder /\ DataMatches

USE DEF TaskSteps, HubSteps, NoData, Mutex!Free, Mutex!TakenBy, Mutex!TakenFromISR,
        Mutex!MayGiveFromISR, Mutex!GivenFromISR, Mutex!Leaked

-----------------------------------------------------------------------------
(* Counting the tasks at some places                                        *)

LEMMA Countable ==
  ASSUME NEW S \in SUBSET Tasks
  PROVE  /\ IsFiniteSet(S) /\ Cardinality(S) \in Nat
         /\ Cardinality(Tasks) \in Nat /\ Cardinality(S) <= Cardinality(Tasks)
<1>1. IsFiniteSet(Tasks)
  BY EventPathAssumption
<1>2. IsFiniteSet(S) /\ Cardinality(S) <= Cardinality(Tasks)
  BY <1>1, FS_Subset
<1>3. Cardinality(S) \in Nat /\ Cardinality(Tasks) \in Nat
  BY <1>1, <1>2, FS_CardinalityType
<1> QED
  BY <1>2, <1>3

\* What one task's move does to the number of tasks at some places.
LEMMA Moves ==
  ASSUME Typed, NEW t \in Tasks, NEW from, NEW to, NEW P, GoTo(t, from, to)
  PROVE  /\ Cardinality(Inside(P)) \in Nat /\ Cardinality(Inside(P)') \in Nat
         /\ from \in P /\ to \in P => Cardinality(Inside(P)') = Cardinality(Inside(P))
         /\ from \notin P /\ to \notin P => Cardinality(Inside(P)') = Cardinality(Inside(P))
         /\ from \in P /\ to \notin P => Cardinality(Inside(P)') = Cardinality(Inside(P)) - 1
         /\ from \notin P /\ to \in P => Cardinality(Inside(P)') = Cardinality(Inside(P)) + 1
<1> DEFINE A == Inside(P)
           B == {u \in Tasks : pc'[u] \in P}
<1>1. Inside(P)' = B
  BY DEF Inside
<1>2. A \subseteq Tasks /\ B \subseteq Tasks
  BY DEF Inside
<1>3. IsFiniteSet(A) /\ Cardinality(A) \in Nat /\ Cardinality(B) \in Nat
  BY <1>2, Countable
<1>4. pc[t] = from /\ pc'[t] = to /\ \A u \in Tasks \ {t} : pc'[u] = pc[u]
  BY DEF GoTo, Typed
<1>5. from \in P <=> t \in A
  BY <1>4 DEF Inside
<1>6. CASE (from \in P /\ to \in P) \/ (from \notin P /\ to \notin P)
  <2>1. A = B
    BY <1>4, <1>6 DEF Inside
  <2> QED
    BY <1>1, <1>3, <1>6, <2>1
<1>7. CASE from \in P /\ to \notin P
  <2>1. B = A \ {t}
    BY <1>4, <1>7 DEF Inside
  <2>2. Cardinality(A \ {t}) = Cardinality(A) - 1
    BY <1>3, <1>5, <1>7, FS_RemoveElement
  <2> QED
    BY <1>1, <1>3, <1>7, <2>1, <2>2
<1>8. CASE from \notin P /\ to \in P
  <2>1. B = A \cup {t}
    BY <1>4, <1>8 DEF Inside
  <2>2. Cardinality(A \cup {t}) = Cardinality(A) + 1
    BY <1>3, <1>5, <1>8, FS_AddElement
  <2> QED
    BY <1>1, <1>3, <1>8, <2>1, <2>2
<1> QED
  BY <1>6, <1>7, <1>8

LEMMA Some ==
  ASSUME Typed, NEW P
  PROVE  Cardinality(Inside(P)) \in Nat /\ Cardinality(Inside(P)) <= Cardinality(Tasks)
         /\ Cardinality(Tasks) \in Nat \ {0}
<1>1. Inside(P) \subseteq Tasks
  BY DEF Inside
<1>2. Cardinality(Tasks) # 0
  BY EventPathAssumption, FS_EmptySet
<1> QED
  BY <1>1, <1>2, Countable

-----------------------------------------------------------------------------
(* The poll's moves                                                         *)

LEMMA HubFields ==
  ASSUME Typed
  PROVE  /\ hub \in HubType /\ hub.at \in HubSteps /\ hub.count \in Nat /\ hub.j \in Nat
         /\ hub.event \in Events \cup {0} /\ hub.got \in Seq(PartsRead)
BY DEF Typed, HubType

\* The poll is done with an entry, whatever it did with it.
LEMMA Passed ==
  ASSUME Typed, NEW e \in Events \cup {0}, NEW g \in Seq(PartsRead),
         \/ hub' = [NextEntry EXCEPT !.event = e, !.got = g]
         \/ hub' = [NextEntry EXCEPT !.got = g] /\ hub.event = e
         \/ hub' = NextEntry /\ hub.event = e /\ hub.got = g
  PROVE  /\ hub' \in HubType
         /\ hub'.at = IF hub.j + 1 < hub.count THEN "entry" ELSE "clear"
         /\ hub'.count = hub.count /\ hub'.j = hub.j + 1
         /\ hub'.event = e /\ hub'.got = g
<1> DEFINE a == IF hub.j + 1 < hub.count THEN "entry" ELSE "clear"
           n == [hub EXCEPT !.j = hub.j + 1, !.at = a]
<1>1. hub \in HubType /\ hub.j + 1 \in Nat /\ a \in HubSteps
  BY HubFields
<1>2. NextEntry = n
  BY DEF NextEntry, More
<1>3. /\ n \in HubType /\ n.at = a /\ n.count = hub.count /\ n.j = hub.j + 1
      /\ n.event = hub.event /\ n.got = hub.got
  <2> HIDE DEF a
  <2> QED
    BY <1>1 DEF HubType
<1> HIDE DEF n, a
<1>4. \/ hub' = [n EXCEPT !.event = e, !.got = g]
      \/ hub' = [n EXCEPT !.got = g] /\ n.event = e
      \/ hub' = n /\ n.event = e /\ n.got = g
  BY <1>2, <1>3
<1>5. /\ hub' \in HubType /\ hub'.at = a /\ hub'.count = n.count /\ hub'.j = n.j
      /\ hub'.event = e /\ hub'.got = g
  BY <1>3, <1>4 DEF HubType
<1> QED
  BY <1>3, <1>5 DEF a

\* The poll goes elsewhere with the same entry.
LEMMA Stays ==
  ASSUME Typed, NEW a \in HubSteps, NEW e \in Events \cup {0}, NEW g \in Seq(PartsRead),
         \/ hub' = [hub EXCEPT !.at = a, !.event = e, !.got = g]
         \/ hub' = [hub EXCEPT !.at = a] /\ hub.event = e /\ hub.got = g
         \/ hub' = [hub EXCEPT !.got = g] /\ hub.event = e /\ hub.at = a
  PROVE  /\ hub' \in HubType /\ hub'.at = a
         /\ hub'.count = hub.count /\ hub'.j = hub.j
         /\ hub'.event = e /\ hub'.got = g
<1>1. hub \in HubType
  BY HubFields
<1> QED
  BY <1>1 DEF HubType

\* The poll starts with the length of the log, or there is nothing to do.
LEMMA Started ==
  ASSUME Typed, ReadCount
  PROVE  \/ hub' = hub
         \/ /\ Len(log) > 0
            /\ hub' \in HubType /\ hub'.at = "entry"
            /\ hub'.count = Len(log) /\ hub'.j = 0 /\ hub'.event = 0 /\ hub'.got = <<>>
<1>1. hub \in HubType /\ Len(log) \in Nat /\ <<>> \in Seq(PartsRead)
  BY HubFields DEF Typed
<1>2. CASE Len(log) > 0
  <2>1. hub' = [hub EXCEPT !.count = Len(log), !.j = 0, !.event = 0, !.got = <<>>,
                           !.at = "entry"]
    BY <1>1, <1>2 DEF ReadCount, More
  <2> QED
    BY <1>1, <1>2, <2>1 DEF HubType
<1>3. CASE ~(Len(log) > 0)
  BY <1>3 DEF ReadCount
<1> QED
  BY <1>2, <1>3

\* The entry the poll is at is one of the log.
LEMMA EntryInLog ==
  ASSUME IInv, ~halted, hub.at \in {"entry", "data"}
  PROVE  /\ hub.j + 1 \in 1 .. Len(log) /\ hub.j + 1 \in DOMAIN log
         /\ log[hub.j + 1] \in Events /\ log[hub.j + 1] \in Nat \ {0}
         /\ log[hub.j + 1] = stored - Len(log) + hub.j + 1
         /\ Done = IF hub.at = "data" THEN hub.j + 1 ELSE hub.j
<1>1. Typed /\ LogInOrder /\ PollInLog
  BY DEF IInv
<1>2. log \in Seq(Events) /\ hub.j \in Nat /\ hub.count \in Nat
  BY <1>1, HubFields DEF Typed
<1>3. hub.j + 1 \in 1 .. Len(log)
  BY <1>1, <1>2 DEF PollInLog
<1>4. hub.j + 1 \in DOMAIN log /\ log[hub.j + 1] \in Events
  BY <1>2, <1>3
<1>5. log[hub.j + 1] = stored - Len(log) + hub.j + 1
  BY <1>1, <1>2, <1>4 DEF LogInOrder, Typed
<1>6. Done = IF hub.at = "data" THEN hub.j + 1 ELSE hub.j
  BY DEF Done
<1> QED
  BY <1>3, <1>4, <1>5, <1>6, EventPathAssumption DEF Events

\* What the poll does at an entry.
LEMMA Processes ==
  ASSUME IInv, ReadEntry
  PROVE  /\ ~halted /\ hub.at = "entry"
         /\ handled' = Append(handled, log[hub.j + 1])
         /\ hub' \in HubType /\ hub'.count = hub.count
         /\ hub'.event = log[hub.j + 1] /\ hub'.got = <<>>
         /\ \/ /\ announces[log[hub.j + 1]] = NoData
               /\ hub'.at = IF hub.j + 1 < hub.count THEN "entry" ELSE "clear"
               /\ hub'.j = hub.j + 1
            \/ /\ announces[log[hub.j + 1]] # NoData
               /\ hub'.at = "data" /\ hub'.j = hub.j
<1> DEFINE e == log[hub.j + 1]
<1>1. Typed /\ ~halted /\ hub.at = "entry" /\ handled' = Append(handled, e)
  BY DEF IInv, ReadEntry, At, ProcessEntry
<1>2. e \in Events \cup {0} /\ <<>> \in Seq(PartsRead) /\ "data" \in HubSteps
  BY <1>1, EntryInLog
<1>3. CASE announces[e] = NoData
  <2>1. hub' = [NextEntry EXCEPT !.event = e, !.got = <<>>]
    BY <1>3 DEF ReadEntry, ProcessEntry
  <2> HIDE DEF e
  <2>2. /\ hub' \in HubType
        /\ hub'.at = IF hub.j + 1 < hub.count THEN "entry" ELSE "clear"
        /\ hub'.count = hub.count /\ hub'.j = hub.j + 1
        /\ hub'.event = e /\ hub'.got = <<>>
    BY <1>1, <1>2, <2>1, Passed
  <2> QED
    BY <1>1, <1>3, <2>2 DEF e
<1>4. CASE announces[e] # NoData
  <2>1. hub' = [hub EXCEPT !.at = "data", !.event = e, !.got = <<>>]
    BY <1>4 DEF ReadEntry, ProcessEntry
  <2> HIDE DEF e
  <2>2. /\ hub' \in HubType /\ hub'.at = "data"
        /\ hub'.count = hub.count /\ hub'.j = hub.j
        /\ hub'.event = e /\ hub'.got = <<>>
    BY <1>1, <1>2, <2>1, Stays
  <2> QED
    BY <1>1, <1>4, <2>2 DEF e
<1> QED
  BY <1>3, <1>4

\* What the poll does with a part.
LEMMA ReadsPart ==
  ASSUME IInv, ReadPart
  PROVE  /\ ~halted /\ hub.at = "data"
         /\ hub' \in HubType /\ hub'.count = hub.count /\ hub'.event = hub.event
         /\ hub'.got = Append(hub.got, [data |-> register.data, part |-> register.offset])
         /\ \/ /\ Len(hub.got) + 1 = Parts
               /\ hub'.at = IF hub.j + 1 < hub.count THEN "entry" ELSE "clear"
               /\ hub'.j = hub.j + 1
            \/ /\ Len(hub.got) + 1 # Parts
               /\ hub'.at = "data" /\ hub'.j = hub.j
<1> DEFINE part == [data |-> register.data, part |-> register.offset]
           got == Append(hub.got, part)
<1>1. Typed /\ ~halted /\ hub.at = "data"
  BY DEF IInv, ReadPart, At
<1>2. hub.got \in Seq(PartsRead) /\ part \in PartsRead
  BY <1>1, HubFields DEF Typed, RegisterType, PartsRead
<1>3. got \in Seq(PartsRead) /\ Len(got) = Len(hub.got) + 1
  BY <1>2
<1>4. hub' = IF Len(got) = Parts THEN [NextEntry EXCEPT !.got = got]
             ELSE [hub EXCEPT !.got = got]
  BY DEF ReadPart
<1>5. hub.event \in Events \cup {0} /\ hub.at \in HubSteps
  BY <1>1, HubFields
<1>6. CASE Len(got) = Parts
  <2>1. hub' = [NextEntry EXCEPT !.got = got] /\ Len(hub.got) + 1 = Parts
    BY <1>3, <1>4, <1>6
  <2> HIDE DEF got
  <2>2. /\ hub' \in HubType
        /\ hub'.at = IF hub.j + 1 < hub.count THEN "entry" ELSE "clear"
        /\ hub'.count = hub.count /\ hub'.j = hub.j + 1
        /\ hub'.event = hub.event /\ hub'.got = got
    BY <1>1, <1>3, <1>5, <2>1, Passed
  <2> QED
    BY <1>1, <2>1, <2>2 DEF got
<1>7. CASE Len(got) # Parts
  <2>1. hub' = [hub EXCEPT !.got = got] /\ Len(hub.got) + 1 # Parts
    BY <1>3, <1>4, <1>7
  <2> HIDE DEF got
  <2>2. /\ hub' \in HubType /\ hub'.at = "data"
        /\ hub'.count = hub.count /\ hub'.j = hub.j
        /\ hub'.event = hub.event /\ hub'.got = got
    BY <1>1, <1>3, <1>5, <2>1, Stays
  <2> QED
    BY <1>1, <2>1, <2>2 DEF got
<1> QED
  BY <1>6, <1>7

\* The poll skips an entry it did not get, or the rest of the data.
LEMMA Skips ==
  ASSUME IInv, ReadBeyond \/ EntryFails \/ PartFails
  PROVE  /\ ~halted /\ hub.at \in {"entry", "data"}
         /\ hub' \in HubType /\ hub'.count = hub.count
         /\ hub'.event = hub.event /\ hub'.got = hub.got
         /\ hub'.at = IF hub.j + 1 < hub.count THEN "entry" ELSE "clear"
         /\ hub'.j = hub.j + 1
<1>1. Typed /\ ~halted /\ hub.at \in {"entry", "data"} /\ hub' = NextEntry
  BY DEF IInv, ReadBeyond, EntryFails, PartFails, Fault, At
<1>2. hub.event \in Events \cup {0} /\ hub.got \in Seq(PartsRead)
  BY <1>1, HubFields
<1> QED
  BY <1>1, <1>2, Passed

\* The poll ends.
LEMMA Ends ==
  ASSUME IInv, Clear \/ ClearFails
  PROVE  /\ ~halted /\ hub.at = "clear"
         /\ hub' \in HubType /\ hub'.at = "count" /\ hub'.count = hub.count /\ hub'.j = hub.j
         /\ hub'.event = hub.event /\ hub'.got = hub.got
<1>1. Typed /\ ~halted /\ hub.at = "clear" /\ hub' = [hub EXCEPT !.at = "count"]
  BY DEF IInv, Clear, ClearFails, Fault, At
<1>2. hub.event \in Events \cup {0} /\ hub.got \in Seq(PartsRead) /\ "count" \in HubSteps
  BY <1>1, HubFields
<1> QED
  BY <1>1, <1>2, Stays

-----------------------------------------------------------------------------
(* The invariant holds at first                                             *)

LEMMA InitIInv == Init => IInv
<1> SUFFICES ASSUME Init PROVE IInv
  OBVIOUS
<1> USE EventPathAssumption DEF Init
<1>1. {1, 2, 3} \subseteq Events /\ 1 \in Data
  BY DEF Events, Data
<1>2. Typed
  <2>1. log \in Seq(Events)
    BY <1>1
  <2>2. register \in RegisterType
    BY <1>1 DEF RegisterType, Filled
  <2>3. hub \in HubType
    <3>1. <<>> \in Seq(PartsRead) /\ 0 \in Events \cup {0}
      OBVIOUS
    <3> QED
      BY <3>1 DEF HubType
  <2>4. announces \in [Events -> Data \cup {NoData}]
    BY <1>1
  <2>5. mutex \in [avail : BOOLEAN, holder : Tasks \cup {NoTask}]
    OBVIOUS
  <2>6. pc \in [Tasks -> TaskSteps] /\ carried \in [Tasks -> Data \cup {NoData}]
    OBVIOUS
  <2>7. halted \in BOOLEAN
    BY Zenon
  <2>8. calls \in 0 .. MaxCalls /\ stored \in Nat /\ sent \in Nat \ {0}
    OBVIOUS
  <2> QED
    BY <2>1, <2>2, <2>3, <2>4, <2>5, <2>6, <2>7, <2>8 DEF Typed
<1>3. Counted
  <2>1. Active = {} /\ Waiting = {} /\ Appending = {}
    BY DEF Active, Waiting, Appending, Inside
  <2>2. Cardinality({}) = 0
    BY FS_EmptySet
  <2>3. Cardinality(Tasks) \in Nat \ {0}
    BY <1>2, Some
  <2> QED
    BY <2>1, <2>2, <2>3 DEF Counted, Overrun
<1>4. LogInOrder /\ PollInLog /\ PollAccounts /\ PollAhead /\ LeakFollowsOverrun /\ EventStored
  BY DEF LogInOrder, PollInLog, PollAccounts, PollAhead, LeakFollowsOverrun, EventStored
<1>5. OneAnnouncement
  <2>1. Carriers = {}
    BY DEF Carriers
  <2>2. Ahead \subseteq {3}
    BY <1>1 DEF Ahead
  <2>3. Waits(1)
    BY DEF Waits, Filled
  <2>4. announces[log[3]] = 1
    BY <1>1
  <2> QED
    BY <2>1, <2>2, <2>3, <2>4 DEF OneAnnouncement
<1>6. Accounted /\ OnceInOrder /\ DataMatches
  <2>1. Recorded \subseteq InLog
    <3>1. Recorded = {1, 2, 3}
      BY DEF Recorded
    <3>2. DOMAIN log = 1 .. 3 /\ log[1] = 1 /\ log[2] = 2 /\ log[3] = 3
      OBVIOUS
    <3> QED
      BY <3>1, <3>2 DEF InLog
  <2> QED
    BY <2>1 DEF Accounted, OnceInOrder, DataMatches
<1>7. HistoryTyped
  BY DEF HistoryTyped
<1> QED
  BY <1>2, <1>3, <1>4, <1>5, <1>6, <1>7 DEF IInv

-----------------------------------------------------------------------------
(* Every step keeps the types, and the counts                               *)

\* What is done plus what is under way grows no more than the calls.
LEMMA Balance ==
  ASSUME NEW s \in Nat, NEW k \in Nat, NEW n \in Nat, NEW s2 \in Nat, NEW k2 \in Nat,
         NEW a \in Nat, NEW b \in Nat, NEW x \in Nat, NEW y \in Nat,
         b + x = a + y, s + a <= k + n, s2 + k + y <= s + k2 + x
  PROVE  s2 + b <= k2 + n
OBVIOUS

One(b) == IF b THEN 1 ELSE 0

\* The counts of the invariant when one task moves.
LEMMA CountKept ==
  ASSUME IInv, NEW t \in Tasks, NEW from \in TaskSteps, NEW to \in TaskSteps, GoTo(t, from, to),
         calls' \in Nat, stored' \in Nat, sent' \in Nat, Len(log') \in Nat,
         stored' + calls + One(to # "idle") <= stored + calls' + One(from # "idle"),
         sent' + calls + One(to \in {"wait", "write"})
           <= sent + calls' + One(from \in {"wait", "write"}),
         \/ Len(log') = Len(log)
            /\ (to \in {"take", "store"} => from \in {"take", "store"} \/ Len(log) < Capacity)
         \/ Len(log') = Len(log) + 1 /\ from \in {"take", "store"} /\ to \notin {"take", "store"}
  PROVE  Counted'
<1> USE EventPathAssumption
<1>1. Typed /\ Counted
  BY DEF IInv
<1>2. stored \in Nat /\ sent \in Nat /\ calls \in Nat /\ Len(log) \in Nat
  BY <1>1 DEF Typed
<1>3. ASSUME NEW P
      PROVE  /\ Cardinality(Inside(P)) \in Nat /\ Cardinality(Inside(P)') \in Nat
             /\ Cardinality(Inside(P)') + One(from \in P)
                  = Cardinality(Inside(P)) + One(to \in P)
  <2>1. /\ Cardinality(Inside(P)) \in Nat /\ Cardinality(Inside(P)') \in Nat
        /\ from \in P /\ to \in P => Cardinality(Inside(P)') = Cardinality(Inside(P))
        /\ from \notin P /\ to \notin P => Cardinality(Inside(P)') = Cardinality(Inside(P))
        /\ from \in P /\ to \notin P => Cardinality(Inside(P)') = Cardinality(Inside(P)) - 1
        /\ from \notin P /\ to \in P => Cardinality(Inside(P)') = Cardinality(Inside(P)) + 1
    BY <1>1, Moves
  <2> QED
    BY <2>1 DEF One
<1>4. stored' + Cardinality(Active') <= calls' + 3
  <2> DEFINE P == TaskSteps \ {"idle"}
  <2>1. (to \in P <=> to # "idle") /\ (from \in P <=> from # "idle")
    OBVIOUS
  <2>2. stored + Cardinality(Inside(P)) <= calls + 3
    BY <1>1 DEF Counted, Active
  <2> DEFINE a == Cardinality(Inside(P))
             b == Cardinality(Inside(P)')
             x == One(from \in P)
             y == One(to \in P)
             m == stored'
             k == calls'
  <2>3. One(from # "idle") = x /\ One(to # "idle") = y
    BY <2>1 DEF One
  <2>4. a \in Nat /\ b \in Nat /\ x \in Nat /\ y \in Nat /\ b + x = a + y
    BY <1>3 DEF One
  <2>5. /\ stored + a <= calls + 3 /\ m + calls + y <= stored + k + x
        /\ m \in Nat /\ k \in Nat
    BY <2>2, <2>3
  <2> HIDE DEF a, b, x, y, m, k
  <2>6. m + b <= k + 3
    BY <1>2, <2>4, <2>5, Balance
  <2> QED
    BY <2>6 DEF Active, P, b, m, k
<1>5. sent' + Cardinality(Waiting') <= calls' + 1
  <2> DEFINE P == {"wait", "write"}
  <2>1. sent + Cardinality(Inside(P)) <= calls + 1
    BY <1>1 DEF Counted, Waiting
  <2> DEFINE a == Cardinality(Inside(P))
             b == Cardinality(Inside(P)')
             x == One(from \in P)
             y == One(to \in P)
             m == sent'
             k == calls'
  <2>4. a \in Nat /\ b \in Nat /\ x \in Nat /\ y \in Nat /\ b + x = a + y
    BY <1>3 DEF One
  <2>5. /\ sent + a <= calls + 1 /\ m + calls + y <= sent + k + x
        /\ m \in Nat /\ k \in Nat
    BY <2>1
  <2> HIDE DEF a, b, x, y, m, k
  <2>6. m + b <= k + 1
    BY <1>2, <2>4, <2>5, Balance
  <2> QED
    BY <2>6 DEF Waiting, b, m, k
<1>6. Len(log') + Cardinality(Appending') <= Overrun'
  <2> DEFINE P == {"take", "store"}
             a == Cardinality(Inside(P))
             b == Cardinality(Inside(P)')
             n == Cardinality(Tasks)
  <2>1. /\ a \in Nat /\ b \in Nat /\ b + One(from \in P) = a + One(to \in P)
        /\ Len(log) + a <= Overrun
    BY <1>1, <1>3 DEF Counted, Appending
  <2>2. b <= n /\ n \in Nat \ {0}
    <3>1. {u \in Tasks : pc'[u] \in P} \subseteq Tasks
      OBVIOUS
    <3>2. Cardinality({u \in Tasks : pc'[u] \in P}) <= n
      BY <3>1, Countable
    <3> QED
      BY <1>1, <3>2, Some DEF Inside
  <2>3. Overrun = Capacity + n - 1 /\ Overrun' = Overrun
    BY DEF Overrun
  <2> HIDE DEF a, b, n
  <2>4. Len(log') + b <= Overrun
    BY <1>2, <2>1, <2>2, <2>3 DEF One
  <2> QED
    BY <2>3, <2>4 DEF Appending, b
<1> QED
  BY <1>4, <1>5, <1>6 DEF Counted

\* Nothing counted changes.
LEMMA CountSame ==
  ASSUME IInv, UNCHANGED <<pc, calls, stored, sent>>, Len(log') \in Nat, Len(log') <= Len(log)
  PROVE  Counted'
<1>1. Active' = Active /\ Waiting' = Waiting /\ Appending' = Appending /\ Overrun' = Overrun
  BY DEF Active, Waiting, Appending, Inside, Overrun
<1>2. Typed /\ Counted
  BY DEF IInv
<1>3. Len(log) \in Nat /\ Overrun \in Int /\ Cardinality(Appending) \in Nat
  <2>1. Len(log) \in Nat
    BY <1>2 DEF Typed
  <2>2. Cardinality(Appending) \in Nat /\ Cardinality(Tasks) \in Nat
    BY <1>2, Some DEF Appending
  <2> QED
    BY <2>1, <2>2, EventPathAssumption DEF Overrun
<1> QED
  BY <1>1, <1>2, <1>3 DEF Counted

\* What was stored and sent is within the bounds of the calls.
LEMMA Bounded ==
  ASSUME IInv
  PROVE  /\ stored \in 0 .. MaxCalls + 3 /\ sent \in 1 .. MaxCalls + 1
         /\ \A t \in Tasks : pc[t] # "idle" => stored + 1 \in Events
         /\ \A t \in Tasks : pc[t] \in {"wait", "write"} => sent + 1 \in Data
<1> USE EventPathAssumption
<1>1. Typed /\ Counted
  BY DEF IInv
<1>2. stored \in Nat /\ sent \in Nat \ {0} /\ calls \in 0 .. MaxCalls
  BY <1>1 DEF Typed
<1>3. \A P : /\ Inside(P) \subseteq Tasks /\ Cardinality(Inside(P)) \in Nat
             /\ (\E t \in Tasks : pc[t] \in P) => Cardinality(Inside(P)) # 0
  <2> SUFFICES ASSUME NEW P
               PROVE  /\ Inside(P) \subseteq Tasks /\ Cardinality(Inside(P)) \in Nat
                      /\ (\E t \in Tasks : pc[t] \in P) => Cardinality(Inside(P)) # 0
    OBVIOUS
  <2>1. Inside(P) \subseteq Tasks
    BY DEF Inside
  <2>2. Cardinality(Inside(P)) = 0 <=> Inside(P) = {}
    BY <2>1, Countable, FS_EmptySet
  <2>3. (\E t \in Tasks : pc[t] \in P) => Inside(P) # {}
    BY DEF Inside
  <2> QED
    BY <2>1, <2>2, <2>3, Countable
<1>4. stored + Cardinality(Active) <= calls + 3 /\ Cardinality(Active) \in Nat
  BY <1>1, <1>3 DEF Counted, Active
<1>5. sent + Cardinality(Waiting) <= calls + 1 /\ Cardinality(Waiting) \in Nat
  BY <1>1, <1>3 DEF Counted, Waiting
<1>6. ASSUME NEW t \in Tasks, pc[t] # "idle" PROVE stored + 1 \in Events
  <2>1. pc[t] \in TaskSteps \ {"idle"}
    BY <1>1, <1>6 DEF Typed
  <2>2. Cardinality(Active) # 0
    BY <1>3, <2>1 DEF Active
  <2> QED
    BY <1>2, <1>4, <2>2 DEF Events
<1>7. ASSUME NEW t \in Tasks, pc[t] \in {"wait", "write"} PROVE sent + 1 \in Data
  <2>1. Cardinality(Waiting) # 0
    BY <1>3, <1>7 DEF Waiting
  <2> QED
    BY <1>2, <1>5, <2>1 DEF Data
<1> QED
  BY <1>2, <1>4, <1>5, <1>6, <1>7

\* What a task's call finds in its state.
LEMMA Calling ==
  ASSUME IInv, NEW t \in Tasks, NEW from, NEW to, GoTo(t, from, to), to \in TaskSteps
  PROVE  /\ ~halted /\ pc[t] = from /\ pc' \in [Tasks -> TaskSteps]
         /\ pc'[t] = to /\ \A u \in Tasks \ {t} : pc'[u] = pc[u]
BY DEF IInv, Typed, GoTo

\* Every step of a task keeps the types and the counts.
LEMMA TaskTyped ==
  ASSUME IInv, NEW t \in Tasks, Report(t) \/ SendData(t) \/ TaskStep(t)
  PROVE  Typed' /\ Counted'
<1> USE EventPathAssumption
<1>0. Typed /\ Counted
  BY DEF IInv
<1>s. stored \in Nat /\ sent \in Nat /\ calls \in Nat /\ log \in Seq(Events) /\ Len(log) \in Nat
  BY <1>0 DEF Typed
<1>1. CASE Report(t) \/ SendData(t)
  <2>1. PICK to \in {"append", "wait"} :
          /\ GoTo(t, "idle", to) /\ calls' = calls + 1 /\ calls < MaxCalls
          /\ UNCHANGED <<door, carried, hub, stored, sent, announces>>
    BY <1>1 DEF Report, SendData, Call, history
  <2>2. pc' \in [Tasks -> TaskSteps]
    BY <2>1, Calling
  <2>3. Typed'
    BY <1>0, <2>1, <2>2 DEF Typed, door
  <2>4. Counted'
    BY <1>s, <2>1, CountKept DEF door, One
  <2> QED
    BY <2>3, <2>4
<1>2. CASE SendReady(t)
  <2>1. GoTo(t, "wait", "write") /\ UNCHANGED <<door, carried, calls, hub, stored, sent, announces>>
    BY <1>2 DEF SendReady, history
  <2>2. pc' \in [Tasks -> TaskSteps]
    BY <2>1, Calling
  <2>3. Typed'
    BY <1>0, <2>1, <2>2 DEF Typed, door
  <2>4. Counted'
    BY <1>s, <2>1, CountKept DEF door, One
  <2> QED
    BY <2>3, <2>4
<1>3. CASE SendWrite(t)
  <2>1. /\ GoTo(t, "write", "append") /\ sent' = sent + 1
        /\ register' = Filled(sent + 1) /\ carried' = [carried EXCEPT ![t] = sent + 1]
        /\ UNCHANGED <<mutex, log, halted, calls, hub, stored, announces>>
    BY <1>3 DEF SendWrite
  <2>2. pc[t] = "write" /\ pc' \in [Tasks -> TaskSteps]
    BY <2>1, Calling
  <2>3. sent + 1 \in Data
    BY <2>2, Bounded
  <2>4. register' \in RegisterType
    BY <2>1, <2>3 DEF Filled, RegisterType
  <2>5. carried' \in [Tasks -> Data \cup {NoData}]
    BY <1>0, <2>1, <2>3 DEF Typed
  <2>6. Typed'
    BY <1>0, <1>s, <2>1, <2>2, <2>4, <2>5 DEF Typed
  <2>7. Counted'
    BY <1>s, <2>1, CountKept DEF One
  <2> QED
    BY <2>6, <2>7
<1>4. CASE AppendCheck(t)
  <2>1. PICK to \in {"take", "idle"} :
          /\ GoTo(t, "append", to) /\ (to = "take" => Len(log) < Capacity)
          /\ UNCHANGED <<door, calls, hub, stored, sent, announces>>
    BY <1>4 DEF AppendCheck, Room, history
  <2>2. pc' \in [Tasks -> TaskSteps]
    BY <2>1, Calling
  <2>3. carried' \in [Tasks -> Data \cup {NoData}]
    BY <1>0, <1>4 DEF AppendCheck, Typed
  <2>4. Typed'
    BY <1>0, <2>1, <2>2, <2>3 DEF Typed, door
  <2>5. Counted'
    BY <1>s, <2>1, CountKept DEF door, One
  <2> QED
    BY <2>4, <2>5
<1>5. CASE AppendTake(t)
  <2>1. /\ GoTo(t, "take", "store") /\ mutex' = [avail |-> FALSE, holder |-> t]
        /\ UNCHANGED <<log, register, halted, carried, calls, hub, stored, sent, announces>>
    BY <1>5 DEF AppendTake, history
  <2>2. pc' \in [Tasks -> TaskSteps]
    BY <2>1, Calling
  <2>3. mutex' \in [avail : BOOLEAN, holder : Tasks \cup {NoTask}]
    BY <2>1
  <2>4. Typed'
    BY <1>0, <2>1, <2>2, <2>3 DEF Typed
  <2>5. Counted'
    BY <1>s, <2>1, CountKept DEF One
  <2> QED
    BY <2>4, <2>5
<1>6. CASE AppendStore(t)
  <2>1. /\ GoTo(t, "store", "idle") /\ mutex' = [avail |-> TRUE, holder |-> NoTask]
        /\ stored' = stored + 1 /\ log' = Append(log, stored + 1)
        /\ announces' = [announces EXCEPT ![stored + 1] = carried[t]]
        /\ carried' = [carried EXCEPT ![t] = NoData]
        /\ UNCHANGED <<register, halted, calls, hub, sent>>
    BY <1>6 DEF AppendStore
  <2>2. pc[t] = "store" /\ pc' \in [Tasks -> TaskSteps]
    BY <2>1, Calling
  <2>3. stored + 1 \in Events
    BY <2>2, Bounded
  <2>4. log' \in Seq(Events) /\ Len(log') = Len(log) + 1
    BY <1>s, <2>1, <2>3
  <2>5. announces' \in [Events -> Data \cup {NoData}] /\ carried' \in [Tasks -> Data \cup {NoData}]
    BY <1>0, <2>1 DEF Typed
  <2>6. mutex' \in [avail : BOOLEAN, holder : Tasks \cup {NoTask}]
    BY <2>1
  <2>7. Typed'
    BY <1>0, <1>s, <2>1, <2>2, <2>4, <2>5, <2>6 DEF Typed
  <2>8. Counted'
    BY <1>s, <2>1, <2>4, CountKept DEF One
  <2> QED
    BY <2>7, <2>8
<1> QED
  BY <1>1, <1>2, <1>3, <1>4, <1>5, <1>6 DEF TaskStep

\* The register stays one when a part is read.
LEMMA AdvancedType == ASSUME NEW r \in RegisterType PROVE Advanced(r) \in RegisterType
<1> USE EventPathAssumption
<1>1. CASE r.offset + 1 >= r.len
  <2>1. Advanced(r) = [data |-> r.data, len |-> 0, offset |-> 0, dirty |-> FALSE]
    BY <1>1 DEF Advanced, Empty
  <2> QED
    BY <2>1 DEF RegisterType
<1>2. CASE ~(r.offset + 1 >= r.len)
  <2>1. r.offset + 1 \in 0 .. Parts - 1
    BY <1>2 DEF RegisterType
  <2>2. Advanced(r) = [r EXCEPT !.offset = r.offset + 1]
    BY <1>2 DEF Advanced
  <2> QED
    BY <2>1, <2>2 DEF RegisterType
<1> QED
  BY <1>1, <1>2

\* Every step of the poll keeps the types and the counts.
LEMMA HubTyped ==
  ASSUME IInv, HubStep
  PROVE  Typed' /\ Counted'
<1>0. Typed /\ Counted /\ Len(log) \in Nat
  BY DEF IInv, Typed
<1>1. UNCHANGED <<pc, carried, calls, stored, sent, announces>>
  BY DEF HubStep, ReadCount, ReadEntry, ProcessEntry, ReadBeyond, ReadPart, Clear, Halt,
         CountFails, EntryFails, PartFails, ClearFails, Fault, tasks, history
<1>2. log' = log \/ log' = <<>>
  BY DEF HubStep, ReadCount, ReadEntry, ProcessEntry, ReadBeyond, ReadPart, Clear, Halt,
         CountFails, EntryFails, PartFails, ClearFails, Fault, door
<1>3. log' \in Seq(Events) /\ Len(log') \in Nat /\ Len(log') <= Len(log)
  <2>1. <<>> \in Seq(Events) /\ Len(<<>>) = 0
    OBVIOUS
  <2>2. CASE log' = log
    BY <1>0, <2>2 DEF Typed
  <2>3. CASE log' = <<>>
    BY <1>0, <2>1, <2>3
  <2> QED
    BY <1>2, <2>2, <2>3
<1>4. hub' \in HubType
  <2>1. CASE ReadCount
    BY <1>0, <2>1, Started DEF Typed
  <2>2. CASE Halt \/ CountFails
    BY <1>0, <2>2 DEF Halt, CountFails, Typed
  <2> QED
    BY <2>1, <2>2, Processes, ReadsPart, Skips, Ends DEF HubStep
<1>5. register' \in RegisterType
  <2>1. CASE ReadPart
    BY <1>0, <2>1, AdvancedType DEF ReadPart, Typed
  <2>2. CASE ~ReadPart
    <3>1. UNCHANGED register
      BY <2>2 DEF HubStep, ReadCount, ReadEntry, ProcessEntry, ReadBeyond, Clear, Halt,
                  CountFails, EntryFails, PartFails, ClearFails, Fault, door
    <3> QED
      BY <1>0, <3>1 DEF Typed
  <2> QED
    BY <2>1, <2>2
<1>6. halted' \in BOOLEAN
  <2>1. UNCHANGED halted \/ halted' = TRUE
    BY DEF HubStep, ReadCount, ReadEntry, ProcessEntry, ReadBeyond, ReadPart, Clear, Halt,
           CountFails, EntryFails, PartFails, ClearFails, Fault, door
  <2> QED
    BY <1>0, <2>1 DEF Typed
<1>7. mutex' \in [avail : BOOLEAN, holder : Tasks \cup {NoTask}]
  <2>1. \/ UNCHANGED mutex
        \/ mutex' = [mutex EXCEPT !.avail = TRUE]
        \/ mutex' = [mutex EXCEPT !.avail = FALSE]
    BY DEF HubStep, ReadCount, ReadEntry, ServeLog, ReadBeyond, ReadPart, Clear, Halt,
           CountFails, EntryFails, PartFails, ClearFails, Fault, door
  <2> QED
    BY <1>0, <2>1 DEF Typed
<1>8. Typed'
  BY <1>0, <1>1, <1>3, <1>4, <1>5, <1>6, <1>7 DEF Typed
<1>9. Counted'
  BY <1>1, <1>3, CountSame
<1> QED
  BY <1>8, <1>9

-----------------------------------------------------------------------------
(* The steps of a task leave the poll alone                                 *)

\* A task's steps before it stores an event.
Quiet(t) ==
  Report(t) \/ SendData(t) \/ SendReady(t) \/ SendWrite(t) \/ AppendCheck(t) \/ AppendTake(t)

LEMMA QuietKeeps ==
  ASSUME NEW t \in Tasks, Quiet(t)
  PROVE  /\ ~halted
         /\ UNCHANGED <<log, halted, hub, stored, announces, handled, late, unread>>
         /\ disturbed' = disturbed \/ disturbed' = disturbed \cup {"race"}
BY DEF Quiet, Report, SendData, Call, SendReady, SendWrite, AppendCheck, AppendTake, GoTo,
       door, history

LEMMA Stores ==
  ASSUME IInv, NEW t \in Tasks, AppendStore(t)
  PROVE  /\ ~halted /\ stored \in Nat /\ stored + 1 \in Events
         /\ stored' = stored + 1 /\ log' = Append(log, stored + 1)
         /\ log \in Seq(Events) /\ Len(log') = Len(log) + 1 /\ Len(log) \in Nat
         /\ DOMAIN log = 1 .. Len(log) /\ DOMAIN log' = 1 .. Len(log) + 1
         /\ \A i \in 1 .. Len(log) : log'[i] = log[i]
         /\ log'[Len(log) + 1] = stored + 1
         /\ UNCHANGED <<hub, halted, handled, unread, disturbed>>
         /\ late' = late \cup (IF hub.at = "count" THEN {} ELSE {stored + 1})
<1>1. /\ ~halted /\ pc[t] = "store" /\ stored' = stored + 1 /\ log' = Append(log, stored + 1)
      /\ UNCHANGED <<hub, halted, handled, unread, disturbed>>
      /\ late' = late \cup (IF hub.at = "count" THEN {} ELSE {stored + 1})
  BY DEF AppendStore, GoTo
<1>2. stored \in Nat /\ log \in Seq(Events)
  BY DEF IInv, Typed
<1>3. stored + 1 \in Events
  BY <1>1, Bounded
<1> QED
  BY <1>1, <1>2, <1>3

-----------------------------------------------------------------------------
(* Every step keeps the log in order, and the poll in it                    *)

LEMMA LogStep == IInv /\ [Next]_vars => LogInOrder' /\ PollInLog' /\ EventStored'
<1> SUFFICES ASSUME IInv, [Next]_vars PROVE LogInOrder' /\ PollInLog' /\ EventStored'
  OBVIOUS
<1>0. Typed /\ LogInOrder /\ PollInLog /\ EventStored
  BY DEF IInv
<1>s. /\ log \in Seq(Events) /\ Len(log) \in Nat /\ DOMAIN log = 1 .. Len(log) /\ stored \in Nat
      /\ hub.j \in Nat /\ hub.count \in Nat /\ hub.event \in Nat
  BY <1>0, HubFields DEF Typed, Events
<1>1. ASSUME UNCHANGED <<log, stored, halted, hub>>
      PROVE  LogInOrder' /\ PollInLog' /\ EventStored'
  BY <1>0, <1>1 DEF LogInOrder, PollInLog, EventStored
<1>2. ASSUME NEW t \in Tasks, Quiet(t) PROVE LogInOrder' /\ PollInLog' /\ EventStored'
  BY <1>1, <1>2, QuietKeeps
<1>3. ASSUME NEW t \in Tasks, AppendStore(t) PROVE LogInOrder' /\ PollInLog' /\ EventStored'
  <2>1. /\ stored' = stored + 1 /\ Len(log') = Len(log) + 1 /\ UNCHANGED <<hub, halted>>
        /\ DOMAIN log' = 1 .. Len(log) + 1
        /\ \A i \in 1 .. Len(log) : log'[i] = log[i]
        /\ log'[Len(log) + 1] = stored + 1
    BY <1>3, Stores
  <2>2. LogInOrder'
    <3> SUFFICES ASSUME NEW i \in 1 .. Len(log) + 1
                 PROVE  log'[i] = stored + 1 - (Len(log) + 1) + i
      BY <1>0, <1>s, <2>1 DEF LogInOrder
    <3>1. CASE i \in 1 .. Len(log)
      BY <1>0, <1>s, <2>1, <3>1 DEF LogInOrder
    <3>2. CASE i = Len(log) + 1
      BY <1>s, <2>1, <3>2
    <3> QED
      BY <1>s, <3>1, <3>2
  <2>3. PollInLog'
    <3>1. ASSUME ~halted, hub.at = "data" PROVE log'[hub.j + 1] = log[hub.j + 1]
      BY <1>s, <2>1, <3>1, EntryInLog
    <3> QED
      BY <1>0, <1>s, <2>1, <3>1 DEF PollInLog
  <2>4. EventStored'
    BY <1>0, <1>s, <2>1 DEF EventStored
  <2> QED
    BY <2>2, <2>3, <2>4
\* A step of the poll that leaves the log.
<1>4. ASSUME UNCHANGED <<log, stored>>, PollInLog', hub'.event <= stored,
             hub'.event = 0 => hub'.got = <<>>
      PROVE  LogInOrder' /\ PollInLog' /\ EventStored'
  BY <1>0, <1>4 DEF LogInOrder, EventStored
\* The poll goes on with the entry after this one.
<1>5. ASSUME ~halted, hub.at \in {"entry", "data"}, UNCHANGED <<log, halted>>,
             hub'.at = IF hub.j + 1 < hub.count THEN "entry" ELSE "clear",
             hub'.j = hub.j + 1, hub'.count = hub.count
      PROVE  PollInLog'
  BY <1>0, <1>s, <1>5 DEF PollInLog
<1>6. CASE ReadCount
  <2>1. UNCHANGED <<log, stored, halted>>
    BY <1>6 DEF ReadCount, history
  <2>2. CASE hub' = hub
    BY <1>1, <2>1, <2>2
  <2>3. CASE hub' # hub
    <3>1. /\ Len(log) > 0 /\ hub'.at = "entry" /\ hub'.count = Len(log) /\ hub'.j = 0
          /\ hub'.event = 0 /\ hub'.got = <<>>
      BY <1>0, <1>6, <2>3, Started
    <3>2. PollInLog'
      BY <1>s, <2>1, <3>1 DEF PollInLog
    <3> QED
      BY <1>4, <1>s, <2>1, <3>1, <3>2
  <2> QED
    BY <2>2, <2>3
<1>7. CASE ReadEntry
  <2>1. UNCHANGED <<log, stored, halted>>
    BY <1>7 DEF ReadEntry, ProcessEntry
  <2>2. /\ ~halted /\ hub.at = "entry" /\ hub'.count = hub.count
        /\ hub'.event = log[hub.j + 1] /\ hub'.got = <<>>
        /\ \/ /\ hub'.at = IF hub.j + 1 < hub.count THEN "entry" ELSE "clear"
              /\ hub'.j = hub.j + 1
           \/ hub'.at = "data" /\ hub'.j = hub.j
    BY <1>7, Processes
  <2>3. log[hub.j + 1] \in Nat \ {0} /\ log[hub.j + 1] <= stored
    BY <1>0, <1>s, <2>2, EntryInLog
  <2>4. PollInLog'
    <3>1. CASE hub'.at = "data" /\ hub'.j = hub.j
      BY <1>0, <2>1, <2>2, <3>1 DEF PollInLog
    <3>2. CASE /\ hub'.at = IF hub.j + 1 < hub.count THEN "entry" ELSE "clear"
               /\ hub'.j = hub.j + 1
      BY <1>5, <2>1, <2>2, <3>2
    <3> QED
      BY <2>2, <3>1, <3>2
  <2> QED
    BY <1>4, <2>1, <2>2, <2>3, <2>4
<1>8. CASE ReadPart
  <2>1. UNCHANGED <<log, stored, halted>>
    BY <1>8 DEF ReadPart, history
  <2>2. /\ ~halted /\ hub.at = "data" /\ hub'.count = hub.count /\ hub'.event = hub.event
        /\ \/ /\ hub'.at = IF hub.j + 1 < hub.count THEN "entry" ELSE "clear"
              /\ hub'.j = hub.j + 1
           \/ hub'.at = "data" /\ hub'.j = hub.j
    BY <1>8, ReadsPart
  <2>3. PollInLog'
    <3>1. CASE hub'.at = "data" /\ hub'.j = hub.j
      BY <1>0, <2>1, <2>2, <3>1 DEF PollInLog
    <3>2. CASE /\ hub'.at = IF hub.j + 1 < hub.count THEN "entry" ELSE "clear"
               /\ hub'.j = hub.j + 1
      BY <1>5, <2>1, <2>2, <3>2
    <3> QED
      BY <2>2, <3>1, <3>2
  <2>4. hub.event # 0 /\ hub.event <= stored
    <3>1. hub.event = log[hub.j + 1]
      BY <1>0, <2>2 DEF PollInLog
    <3> QED
      BY <1>0, <2>2, <3>1, EntryInLog DEF EventStored
  <2> QED
    BY <1>4, <2>1, <2>2, <2>3, <2>4
<1>9. CASE ReadBeyond \/ EntryFails \/ PartFails
  <2>1. UNCHANGED <<log, stored, halted>>
    BY <1>9 DEF ReadBeyond, EntryFails, PartFails, Fault, door
  <2>2. /\ ~halted /\ hub.at \in {"entry", "data"} /\ hub'.count = hub.count
        /\ hub'.event = hub.event /\ hub'.got = hub.got
        /\ hub'.at = IF hub.j + 1 < hub.count THEN "entry" ELSE "clear"
        /\ hub'.j = hub.j + 1
    BY <1>9, Skips
  <2>3. PollInLog'
    BY <1>5, <2>1, <2>2
  <2> QED
    BY <1>0, <1>4, <2>1, <2>2, <2>3 DEF EventStored
<1>10. CASE Clear \/ ClearFails
  <2>1. UNCHANGED <<stored, halted>> /\ (log' = log \/ log' = <<>>)
    BY <1>10 DEF Clear, ClearFails, Fault, door, history
  <2>2. /\ hub'.at = "count" /\ hub'.count = hub.count /\ hub'.j = hub.j
        /\ hub'.event = hub.event /\ hub'.got = hub.got
    BY <1>10, Ends
  <2>3. LogInOrder'
    BY <1>0, <1>s, <2>1 DEF LogInOrder
  <2> QED
    BY <1>0, <2>1, <2>2, <2>3 DEF PollInLog, EventStored
<1>11. CASE Halt
  <2>1. UNCHANGED <<stored, hub>> /\ (log' = log \/ log' = <<>>) /\ halted' = TRUE
    BY <1>11 DEF Halt, history
  <2>2. LogInOrder'
    <3>1. CASE log' = log
      BY <1>0, <2>1, <3>1 DEF LogInOrder
    <3>2. CASE log' = <<>>
      BY <1>s, <2>1, <3>2 DEF LogInOrder
    <3> QED
      BY <2>1, <3>1, <3>2
  <2> QED
    BY <1>0, <2>1, <2>2 DEF PollInLog, EventStored
<1>12. CASE CountFails
  BY <1>1, <1>12 DEF CountFails, Fault, door
<1>13. CASE UNCHANGED vars
  BY <1>1, <1>13 DEF vars, door, history
<1> QED
  BY <1>2, <1>3, <1>6, <1>7, <1>8, <1>9, <1>10, <1>11, <1>12, <1>13
  DEF Next, TaskStep, HubStep, Quiet

-----------------------------------------------------------------------------
(* An interrupt keeps the mutex only over an overrun log                    *)

LEMMA LeakStep == IInv /\ [Next]_vars => LeakFollowsOverrun'
<1> SUFFICES ASSUME IInv, [Next]_vars PROVE LeakFollowsOverrun'
  OBVIOUS
<1>0. Typed /\ LeakFollowsOverrun /\ PollInLog
  BY DEF IInv
<1>s. /\ Len(log) \in Nat /\ hub.j \in Nat /\ hub.count \in Nat /\ Capacity \in Nat
      /\ mutex \in [avail : BOOLEAN, holder : Tasks \cup {NoTask}]
  BY <1>0, HubFields, EventPathAssumption DEF Typed
<1>1. ASSUME UNCHANGED mutex, Len(log') \in Nat, Len(log') >= Len(log) PROVE LeakFollowsOverrun'
  BY <1>0, <1>1, <1>s DEF LeakFollowsOverrun
<1>2. ASSUME mutex'.avail \/ mutex'.holder # NoTask PROVE LeakFollowsOverrun'
  BY <1>2 DEF LeakFollowsOverrun
<1>3. ASSUME NEW t \in Tasks, AppendTake(t) PROVE LeakFollowsOverrun'
  <2>1. mutex'.holder = t
    BY <1>3 DEF AppendTake
  <2> QED
    BY <1>2, <2>1, EventPathAssumption
<1>4. ASSUME NEW t \in Tasks, AppendStore(t) PROVE LeakFollowsOverrun'
  BY <1>2, <1>4 DEF AppendStore
<1>5. ASSUME NEW t \in Tasks,
             Report(t) \/ SendData(t) \/ SendReady(t) \/ SendWrite(t) \/ AppendCheck(t)
      PROVE  LeakFollowsOverrun'
  BY <1>1, <1>5, <1>s DEF Report, SendData, Call, SendReady, SendWrite, AppendCheck, door
<1>6. CASE ReadCount \/ ReadEntry \/ Clear
  <2>1. mutex' = [mutex EXCEPT !.avail = TRUE]
    BY <1>6 DEF ReadCount, ReadEntry, Clear, ServeLog
  <2> QED
    BY <1>2, <1>s, <2>1
<1>7. CASE ReadBeyond
  <2>1. hub.j >= Capacity /\ hub.j < Len(log) /\ UNCHANGED log
    BY <1>0, <1>7, <1>s DEF ReadBeyond, At, PollInLog
  <2> QED
    BY <1>s, <2>1 DEF LeakFollowsOverrun
<1>8. CASE Halt
  <2>1. mutex.holder # NoTask /\ UNCHANGED mutex
    BY <1>8 DEF Halt
  <2> QED
    BY <1>2, <2>1
<1>9. CASE ReadPart \/ CountFails \/ EntryFails \/ PartFails \/ ClearFails
  BY <1>1, <1>9, <1>s DEF ReadPart, CountFails, EntryFails, PartFails, ClearFails, Fault, door
<1>10. CASE UNCHANGED vars
  BY <1>1, <1>10, <1>s DEF vars, door
<1> QED
  BY <1>3, <1>4, <1>5, <1>6, <1>7, <1>8, <1>9, <1>10 DEF Next, TaskStep, HubStep

-----------------------------------------------------------------------------
(* Every step accounts for the events                                       *)

\* One more event is processed.
LEMMA OneMore ==
  ASSUME IInv, NEW e \in Events, handled' = Append(handled, e)
  PROVE  /\ handled' \in Seq(Events) /\ Processed' = Processed \cup {e}
         /\ Len(handled) \in Nat /\ DOMAIN handled = 1 .. Len(handled)
         /\ DOMAIN handled' = 1 .. Len(handled) + 1
         /\ handled'[Len(handled) + 1] = e
         /\ \A i \in 1 .. Len(handled) : handled'[i] = handled[i]
<1>1. handled \in Seq(Events)
  BY DEF IInv, HistoryTyped
<1>2. /\ handled' \in Seq(Events)
      /\ Len(handled) \in Nat /\ DOMAIN handled = 1 .. Len(handled)
      /\ DOMAIN handled' = 1 .. Len(handled) + 1
      /\ handled'[Len(handled) + 1] = e
      /\ \A i \in 1 .. Len(handled) : handled'[i] = handled[i]
  BY <1>1
<1>3. Processed' = Processed \cup {e}
  BY <1>2 DEF Processed
<1> QED
  BY <1>2, <1>3

\* An entry of the log is one event.
LEMMA EntriesDiffer ==
  ASSUME IInv
  PROVE  /\ \A i \in DOMAIN log : i \in Nat \ {0} /\ log[i] \in Nat /\ log[i] <= stored
         /\ \A i, k \in DOMAIN log : log[i] = log[k] => i = k
<1>1. /\ LogInOrder /\ log \in Seq(Events) /\ DOMAIN log = 1 .. Len(log)
      /\ Len(log) \in Nat /\ stored \in Nat
  BY DEF IInv, Typed
<1> QED
  BY <1>1 DEF LogInOrder

LEMMA AccountStep ==
  IInv /\ [Next]_vars => HistoryTyped' /\ PollAccounts' /\ Accounted'
<1> SUFFICES ASSUME IInv, [Next]_vars PROVE HistoryTyped' /\ PollAccounts' /\ Accounted'
  OBVIOUS
<1>0. Typed /\ HistoryTyped /\ LogInOrder /\ PollInLog /\ PollAccounts /\ Accounted
  BY DEF IInv
<1>s. /\ log \in Seq(Events) /\ Len(log) \in Nat /\ DOMAIN log = 1 .. Len(log) /\ stored \in Nat
      /\ hub.j \in Nat /\ hub.count \in Nat /\ hub.at \in HubSteps
  BY <1>0, HubFields DEF Typed
<1> DEFINE Goal == HistoryTyped' /\ PollAccounts' /\ Accounted'
<1>1. ASSUME UNCHANGED <<log, stored, halted, hub, handled, late, unread>> PROVE Goal
  BY <1>0, <1>1
  DEF HistoryTyped, PollAccounts, Accounted, Recorded, InLog, Processed, Done
<1>2. ASSUME NEW t \in Tasks, Quiet(t) PROVE Goal
  BY <1>1, <1>2, QuietKeeps
<1>3. ASSUME NEW t \in Tasks, AppendStore(t) PROVE Goal
  <2>1. /\ ~halted /\ stored' = stored + 1 /\ stored + 1 \in Events
        /\ DOMAIN log' = 1 .. Len(log) + 1
        /\ \A i \in 1 .. Len(log) : log'[i] = log[i]
        /\ log'[Len(log) + 1] = stored + 1
        /\ UNCHANGED <<hub, halted, handled, unread>>
        /\ late' = late \cup (IF hub.at = "count" THEN {} ELSE {stored + 1})
    BY <1>3, Stores
  <2>2. Processed' = Processed /\ Done' = Done
    BY <2>1 DEF Processed, Done
  <2>3. HistoryTyped'
    BY <1>0, <2>1 DEF HistoryTyped
  <2>4. PollAccounts'
    <3> SUFFICES ASSUME hub.at # "count", NEW i \in 1 .. Len(log) + 1
                 PROVE  /\ i <= Done => log'[i] \in Processed \cup unread
                        /\ i > hub.count => log'[i] \in late'
      BY <2>1, <2>2 DEF PollAccounts
    <3>1. CASE i \in 1 .. Len(log)
      BY <1>0, <1>s, <2>1, <3>1 DEF PollAccounts
    <3>2. CASE i = Len(log) + 1
      <4>1. Done < i
        BY <1>0, <1>s, <2>1, <3>2 DEF Done, PollInLog
      <4>2. log'[i] \in late'
        BY <2>1, <3>2
      <4>3. Done \in Nat
        BY <1>s DEF Done
      <4> QED
        BY <1>s, <4>1, <4>2, <4>3
    <3> QED
      BY <1>s, <3>1, <3>2
  <2>5. Accounted'
    <3>1. InLog \subseteq InLog' /\ stored + 1 \in InLog'
      BY <1>s, <2>1 DEF InLog
    <3>2. Recorded' = Recorded \cup {stored + 1}
      BY <1>s, <2>1 DEF Recorded
    <3> QED
      BY <1>0, <2>1, <2>2, <3>1, <3>2 DEF Accounted
  <2> QED
    BY <2>3, <2>4, <2>5
\* A step of the poll that leaves the log: what it accounts for grows.
<1>4. ASSUME UNCHANGED <<log, stored, late, halted>>, HistoryTyped',
             Processed \cup unread \subseteq Processed' \cup unread',
             ~halted /\ hub'.at # "count" =>
               \A i \in 1 .. Len(log) :
                 /\ i <= Done' => log[i] \in Processed' \cup unread'
                 /\ i > hub'.count => log[i] \in late
      PROVE  Goal
  <2>1. InLog' = InLog /\ Recorded' = Recorded
    BY <1>4 DEF InLog, Recorded
  <2>2. PollAccounts'
    BY <1>4, <1>s DEF PollAccounts
  <2>3. Accounted'
    BY <1>0, <1>4, <2>1 DEF Accounted
  <2> QED
    BY <1>4, <2>2, <2>3
<1>5. CASE ReadCount
  <2>1. UNCHANGED <<log, stored, halted, handled, late, unread>>
    BY <1>5 DEF ReadCount, history
  <2>2. CASE hub' = hub
    BY <1>1, <2>1, <2>2
  <2>3. CASE hub' # hub
    <3>1. hub'.at = "entry" /\ hub'.count = Len(log) /\ hub'.j = 0
      BY <1>0, <1>5, <2>3, Started
    <3>2. Done' = 0 /\ Processed' = Processed /\ HistoryTyped'
      BY <1>0, <2>1, <3>1 DEF Done, Processed, HistoryTyped
    <3> QED
      BY <1>4, <1>s, <2>1, <3>1, <3>2
  <2> QED
    BY <2>2, <2>3
<1>6. CASE ReadEntry
  <2> DEFINE e == log[hub.j + 1]
  <2>1. UNCHANGED <<log, stored, late, unread, halted>>
    BY <1>6 DEF ReadEntry, ProcessEntry
  <2>2. /\ ~halted /\ hub.at = "entry" /\ handled' = Append(handled, e) /\ hub'.count = hub.count
        /\ \/ /\ hub'.at = IF hub.j + 1 < hub.count THEN "entry" ELSE "clear"
              /\ hub'.j = hub.j + 1
           \/ hub'.at = "data" /\ hub'.j = hub.j
    BY <1>6, Processes
  <2>3. e \in Events /\ Done = hub.j
    BY <2>2, EntryInLog
  <2>4. handled' \in Seq(Events) /\ Processed' = Processed \cup {e}
    BY <2>2, <2>3, OneMore
  <2>5. Done' = hub.j + 1
    BY <2>2 DEF Done
  <2>6. HistoryTyped'
    BY <1>0, <2>1, <2>4 DEF HistoryTyped
  <2>7. \A i \in 1 .. Len(log) : /\ i <= hub.j + 1 => log[i] \in Processed \cup {e} \cup unread
                                 /\ i > hub.count => log[i] \in late
    BY <1>0, <1>s, <2>2, <2>3 DEF PollAccounts
  <2> HIDE DEF e
  <2> QED
    BY <1>4, <2>1, <2>2, <2>4, <2>5, <2>6, <2>7
<1>7. CASE ReadBeyond \/ EntryFails
  <2> DEFINE e == log[hub.j + 1]
  <2>1. /\ UNCHANGED <<log, stored, late, handled, halted>> /\ hub.at = "entry"
        /\ unread' = unread \cup {e}
    BY <1>7 DEF ReadBeyond, EntryFails, Fault, door, At
  <2>2. /\ ~halted /\ hub'.count = hub.count /\ hub'.j = hub.j + 1
        /\ hub'.at = IF hub.j + 1 < hub.count THEN "entry" ELSE "clear"
    BY <1>7, Skips
  <2>3. e \in Events /\ Done = hub.j
    BY <2>1, <2>2, EntryInLog
  <2>4. Done' = hub.j + 1 /\ Processed' = Processed
    BY <2>1, <2>2 DEF Done, Processed
  <2>5. HistoryTyped'
    BY <1>0, <2>1, <2>3 DEF HistoryTyped
  <2>6. \A i \in 1 .. Len(log) : /\ i <= hub.j + 1 => log[i] \in Processed \cup unread \cup {e}
                                 /\ i > hub.count => log[i] \in late
    BY <1>0, <1>s, <2>1, <2>2, <2>3 DEF PollAccounts
  <2> HIDE DEF e
  <2> QED
    BY <1>4, <2>1, <2>2, <2>4, <2>5, <2>6
<1>8. ASSUME UNCHANGED <<log, stored, late, unread, handled, halted>>, ~halted, hub.at = "data",
             hub'.count = hub.count,
             \/ /\ hub'.at = IF hub.j + 1 < hub.count THEN "entry" ELSE "clear"
                /\ hub'.j = hub.j + 1
             \/ hub'.at = "data" /\ hub'.j = hub.j
      PROVE  Goal
  <2>1. Done' = Done /\ Processed' = Processed /\ HistoryTyped'
    BY <1>0, <1>8 DEF Done, Processed, HistoryTyped
  <2>2. \A i \in 1 .. Len(log) : /\ i <= Done => log[i] \in Processed \cup unread
                                 /\ i > hub.count => log[i] \in late
    BY <1>0, <1>8, <1>s DEF PollAccounts
  <2> QED
    BY <1>4, <1>8, <2>1, <2>2
<1>9. CASE ReadPart
  <2>1. UNCHANGED <<log, stored, late, unread, handled, halted>>
    BY <1>9 DEF ReadPart, history
  <2> QED
    BY <1>8, <1>9, <2>1, ReadsPart
<1>10. CASE PartFails
  <2>1. UNCHANGED <<log, stored, late, unread, handled, halted>> /\ hub.at = "data"
    BY <1>10 DEF PartFails, Fault, door, At
  <2> QED
    BY <1>8, <1>10, <2>1, Skips
<1>11. CASE ClearFails
  <2>1. UNCHANGED <<log, stored, late, unread, handled, halted>>
    BY <1>11 DEF ClearFails, Fault, door
  <2>2. hub'.at = "count"
    BY <1>11, Ends
  <2>3. Processed' = Processed /\ HistoryTyped'
    BY <1>0, <2>1 DEF Processed, HistoryTyped
  <2> QED
    BY <1>4, <2>1, <2>2, <2>3
\* The log is cleared: every entry is accounted for.
<1>12. ASSUME ~halted, hub.at = "clear", log' = <<>>, hub'.at = "count" \/ halted',
              UNCHANGED <<stored, late, unread, handled>>
       PROVE  Goal
  <2>1. \A i \in DOMAIN log : log[i] \in Processed \cup unread \cup late
    <3> SUFFICES ASSUME NEW i \in DOMAIN log PROVE log[i] \in Processed \cup unread \cup late
      OBVIOUS
    <3>1. Done = hub.count
      BY <1>0, <1>12 DEF PollInLog, Done
    <3> QED
      BY <1>0, <1>12, <1>s, <3>1 DEF PollAccounts
  <2>2. Recorded' = Recorded /\ Processed' = Processed
    BY <1>12 DEF Recorded, Processed
  <2>3. Accounted'
    BY <1>0, <1>12, <2>1, <2>2 DEF Accounted, InLog
  <2>4. HistoryTyped' /\ PollAccounts'
    BY <1>0, <1>12 DEF HistoryTyped, PollAccounts
  <2> QED
    BY <2>3, <2>4
<1>13. CASE Clear
  <2>1. log' = <<>> /\ UNCHANGED <<stored, late, unread, handled>>
    BY <1>13 DEF Clear, history
  <2> QED
    BY <1>12, <1>13, <2>1, Ends
<1>14. CASE Halt
  <2>1. /\ ~halted /\ halted' = TRUE /\ UNCHANGED <<hub, stored, late, unread, handled>>
        /\ log' = IF hub.at = "clear" THEN <<>> ELSE log
    BY <1>14 DEF Halt, At, history
  <2>2. CASE hub.at = "clear"
    BY <1>12, <2>1, <2>2
  <2>3. CASE hub.at # "clear"
    BY <1>0, <2>1, <2>3
    DEF HistoryTyped, PollAccounts, Accounted, Recorded, InLog, Processed
  <2> QED
    BY <2>2, <2>3
<1>15. CASE CountFails
  BY <1>1, <1>15 DEF CountFails, Fault, door
<1>16. CASE UNCHANGED vars
  BY <1>1, <1>16 DEF vars, door, history
<1> QED
  BY <1>2, <1>3, <1>5, <1>6, <1>7, <1>9, <1>10, <1>11, <1>13, <1>14, <1>15, <1>16
  DEF Next, TaskStep, HubStep, Quiet

-----------------------------------------------------------------------------
(* Every step keeps the order of what was processed                         *)

LEMMA OrderStep == IInv /\ [Next]_vars => PollAhead' /\ OnceInOrder'
<1> SUFFICES ASSUME IInv, [Next]_vars PROVE PollAhead' /\ OnceInOrder'
  OBVIOUS
<1>0. Typed /\ HistoryTyped /\ LogInOrder /\ PollInLog /\ PollAhead /\ OnceInOrder
  BY DEF IInv
<1>p. /\ Len(log) \in Nat /\ stored \in Nat /\ hub.j \in Nat /\ hub.count \in Nat
      /\ hub.at \in HubSteps
  BY <1>0, HubFields DEF Typed
<1>h. /\ handled \in Seq(Events) /\ DOMAIN handled = 1 .. Len(handled) /\ Len(handled) \in Nat
      /\ \A i \in DOMAIN handled : handled[i] \in Nat
  <2>1. handled \in Seq(Events)
    BY <1>0 DEF HistoryTyped
  <2>2. DOMAIN handled = 1 .. Len(handled) /\ Len(handled) \in Nat
    BY <2>1
  <2>3. \A i \in DOMAIN handled : handled[i] \in Events
    BY <2>1
  <2>4. Events \subseteq Nat
    BY DEF Events
  <2> QED
    BY <2>1, <2>2, <2>3, <2>4
<1>s. /\ Len(log) \in Nat /\ stored \in Nat /\ hub.j \in Nat /\ hub.count \in Nat
      /\ hub.at \in HubSteps /\ Done \in Nat
      /\ handled \in Seq(Events) /\ DOMAIN handled = 1 .. Len(handled) /\ Len(handled) \in Nat
      /\ \A i \in DOMAIN handled : handled[i] \in Nat
  BY <1>p, <1>h DEF Done
<1> DEFINE Goal == PollAhead' /\ OnceInOrder'
           Bound == stored - Len(log) + Done
\* Nothing is processed, and the poll does not fall behind.
<1>1. ASSUME UNCHANGED handled, "clear" \in disturbed => "clear" \in disturbed',
             \/ halted'
             \/ "clear" \in disturbed'
             \/ ~halted /\ stored' - Len(log') + Done' >= Bound
                        /\ stored' - Len(log') + Done' \in Int
      PROVE  Goal
  <2>1. OnceInOrder'
    BY <1>0, <1>1 DEF OnceInOrder
  <2>2. PollAhead'
    <3>1. ASSUME ~halted, stored' - Len(log') + Done' >= Bound, "clear" \notin disturbed',
                 stored' - Len(log') + Done' \in Int,
                 NEW i \in DOMAIN handled
          PROVE  handled[i] <= stored' - Len(log') + Done'
      <4> DEFINE b == stored' - Len(log') + Done'
      <4>1. handled[i] <= Bound
        BY <1>0, <1>1, <3>1 DEF PollAhead
      <4>2. b \in Int /\ Bound \in Int /\ b >= Bound /\ handled[i] \in Nat
        BY <1>s, <3>1
      <4> HIDE DEF b
      <4>3. handled[i] <= b
        BY <4>1, <4>2
      <4> QED
        BY <4>3 DEF b
    <3> QED
      BY <1>1, <3>1 DEF PollAhead
  <2> QED
    BY <2>1, <2>2
<1>2. ASSUME UNCHANGED <<log, stored, hub, halted, handled>>,
             "clear" \in disturbed => "clear" \in disturbed',
             "clear" \in disturbed' => "clear" \in disturbed
      PROVE  Goal
  BY <1>0, <1>2 DEF PollAhead, OnceInOrder, Done
<1>3. ASSUME NEW t \in Tasks, Quiet(t) PROVE Goal
  BY <1>2, <1>3, QuietKeeps
<1>4. ASSUME NEW t \in Tasks, AppendStore(t) PROVE Goal
  <2>1. /\ ~halted /\ stored' = stored + 1 /\ Len(log') = Len(log) + 1
        /\ UNCHANGED <<hub, halted, handled, disturbed>>
    BY <1>4, Stores
  <2>2. Done' = Done
    BY <2>1 DEF Done
  <2> QED
    BY <1>1, <1>s, <2>1, <2>2
<1>5. CASE ReadCount
  <2>1. UNCHANGED <<log, stored, halted, handled, disturbed>> /\ ~halted /\ hub.at = "count"
    BY <1>5 DEF ReadCount, At, history
  <2>2. CASE hub' = hub
    BY <1>2, <2>1, <2>2
  <2>3. CASE hub' # hub
    <3>1. hub'.at = "entry" /\ hub'.j = 0
      BY <1>0, <1>5, <2>3, Started
    <3>2. Done = 0 /\ Done' = 0
      BY <2>1, <3>1 DEF Done
    <3> QED
      BY <1>1, <1>s, <2>1, <3>2
  <2> QED
    BY <2>2, <2>3
<1>6. CASE ReadEntry
  <2> DEFINE e == log[hub.j + 1]
             n == Len(handled)
  <2>1. UNCHANGED <<log, stored, halted, disturbed>>
    BY <1>6 DEF ReadEntry, ProcessEntry
  <2>2. /\ ~halted /\ hub.at = "entry" /\ handled' = Append(handled, e)
        /\ \/ /\ hub'.at = IF hub.j + 1 < hub.count THEN "entry" ELSE "clear"
              /\ hub'.j = hub.j + 1
           \/ hub'.at = "data" /\ hub'.j = hub.j
    BY <1>6, Processes
  <2>3. e \in Events /\ e = stored - Len(log) + hub.j + 1 /\ Done = hub.j
    BY <2>2, EntryInLog
  <2>4. Done' = hub.j + 1
    BY <2>2 DEF Done
  <2>5. /\ DOMAIN handled' = 1 .. n + 1 /\ handled'[n + 1] = e
        /\ \A i \in 1 .. n : handled'[i] = handled[i]
    BY <2>2, <2>3, OneMore
  <2>6. e \in Nat /\ e = Bound + 1
    BY <1>s, <2>3 DEF Events
  <2>7. "clear" \notin disturbed => \A i \in 1 .. n : handled[i] < e
    <3> SUFFICES ASSUME "clear" \notin disturbed, NEW i \in DOMAIN handled
                 PROVE  handled[i] < e
      BY <1>s
    <3> DEFINE b == Bound
    <3>1. handled[i] <= b /\ b \in Int /\ e = b + 1 /\ handled[i] \in Nat
      BY <1>0, <1>s, <2>2, <2>6 DEF PollAhead
    <3> HIDE DEF b, e
    <3> QED
      BY <3>1
  <2>8. PollAhead'
    <3> SUFFICES ASSUME "clear" \notin disturbed, NEW i \in 1 .. n + 1
                 PROVE  handled'[i] <= e
      BY <1>s, <2>1, <2>3, <2>4, <2>5 DEF PollAhead
    <3> QED
      BY <1>s, <2>5, <2>6, <2>7
  <2>9. OnceInOrder'
    <3> SUFFICES ASSUME "clear" \notin disturbed, NEW i \in 1 .. n + 1, NEW k \in 1 .. n + 1, i < k
                 PROVE  handled'[i] < handled'[k]
      BY <2>1, <2>5 DEF OnceInOrder
    <3>1. CASE k \in 1 .. n
      <4>1. i \in 1 .. n
        BY <1>s, <3>1
      <4> QED
        BY <1>0, <1>s, <2>5, <3>1, <4>1 DEF OnceInOrder
    <3>2. CASE k = n + 1
      <4>1. i \in 1 .. n
        BY <1>s, <3>2
      <4> QED
        BY <2>5, <2>7, <3>2, <4>1
    <3> QED
      BY <1>s, <3>1, <3>2
  <2> QED
    BY <2>8, <2>9
<1>7. CASE ReadPart \/ ReadBeyond \/ EntryFails \/ PartFails
  <2>1. /\ UNCHANGED <<log, stored, halted, handled>>
        /\ "clear" \in disturbed => "clear" \in disturbed'
    BY <1>7 DEF ReadPart, ReadBeyond, EntryFails, PartFails, Fault, door, history
  <2>2. /\ ~halted /\ hub.at \in {"entry", "data"}
        /\ \/ /\ hub'.at = IF hub.j + 1 < hub.count THEN "entry" ELSE "clear"
              /\ hub'.j = hub.j + 1
           \/ hub.at = "data" /\ hub'.at = "data" /\ hub'.j = hub.j
    BY <1>7, ReadsPart, Skips
  <2>3. Done' >= Done /\ Done' \in Nat
    BY <1>s, <2>2 DEF Done
  <2> DEFINE b == Done'
  <2> HIDE DEF b
  <2>4. b >= Done /\ b \in Nat
    BY <2>3 DEF b
  <2>5. stored - Len(log) + b >= Bound /\ stored - Len(log) + b \in Int
    BY <1>s, <2>4
  <2> QED
    BY <1>1, <2>1, <2>2, <2>5 DEF b
<1>8. CASE Clear
  <2>1. /\ log' = <<>> /\ UNCHANGED <<stored, halted, handled, disturbed>>
        /\ ~halted /\ hub.at = "clear" /\ hub'.at = "count"
    BY <1>8, Ends DEF Clear, history
  <2>2. Done' = 0 /\ Len(log') = 0
    BY <2>1 DEF Done
  <2>3. Done <= Len(log)
    BY <1>0, <1>s, <2>1 DEF Done, PollInLog
  <2> QED
    BY <1>1, <1>s, <2>1, <2>2, <2>3
<1>9. CASE ClearFails
  <2>1. UNCHANGED handled /\ disturbed' = disturbed \cup {"clear"}
    BY <1>9 DEF ClearFails, Fault
  <2> QED
    BY <1>1, <2>1
<1>10. CASE Halt
  <2>1. UNCHANGED <<handled, disturbed>> /\ halted' = TRUE
    BY <1>10 DEF Halt, history
  <2> QED
    BY <1>1, <2>1
<1>11. CASE CountFails
  BY <1>2, <1>11 DEF CountFails, Fault, door
<1>12. CASE UNCHANGED vars
  BY <1>2, <1>12 DEF vars, door, history
<1> QED
  BY <1>3, <1>4, <1>5, <1>6, <1>7, <1>8, <1>9, <1>10, <1>11, <1>12
  DEF Next, TaskStep, HubStep, Quiet

-----------------------------------------------------------------------------
(* Every step keeps the log and the register in agreement                   *)

\* Undisturbed now, undisturbed before: the exchange of data stays upset.
LEMMA StaysUpset == IInv /\ [Next]_vars => disturbed \subseteq disturbed'
<1> SUFFICES ASSUME IInv, [Next]_vars PROVE disturbed \subseteq disturbed'
  OBVIOUS
<1>1. ASSUME NEW t \in Tasks, Quiet(t) PROVE disturbed \subseteq disturbed'
  BY <1>1, QuietKeeps
<1>2. ASSUME NEW t \in Tasks, AppendStore(t) PROVE disturbed \subseteq disturbed'
  BY <1>2, Stores
<1>3. CASE HubStep
  BY <1>3 DEF HubStep, ReadCount, ReadEntry, ProcessEntry, ReadBeyond, ReadPart, Clear, Halt,
         CountFails, EntryFails, PartFails, ClearFails, Fault, history
<1>4. CASE UNCHANGED vars
  BY <1>4 DEF vars, history
<1> QED
  BY <1>1, <1>2, <1>3, <1>4 DEF Next, TaskStep, Quiet

\* One announcement is under way, whatever the state before.
LEMMA AnnouncementStep == IInv /\ [Next]_vars => OneAnnouncement'
<1> SUFFICES ASSUME IInv, [Next]_vars, disturbed' = {}, ~halted' PROVE OneAnnouncement'
  BY DEF OneAnnouncement
<1>0. /\ Typed /\ LogInOrder /\ PollInLog /\ EventStored /\ OneAnnouncement
      /\ disturbed = {}
  BY StaysUpset DEF IInv
<1>s. /\ log \in Seq(Events) /\ Len(log) \in Nat /\ DOMAIN log = 1 .. Len(log) /\ stored \in Nat
      /\ hub.j \in Nat /\ hub.count \in Nat /\ hub.at \in HubSteps /\ Done \in Nat
      /\ announces \in [Events -> Data \cup {NoData}]
      /\ carried \in [Tasks -> Data \cup {NoData}]
  BY <1>0, HubFields DEF Typed, Done
\* Nothing new is announced, and the poll is not at the data.
<1>1. ASSUME ~halted, UNCHANGED <<register, announces>>, \A i \in Ahead' : log'[i] = log[i],
             Ahead' \subseteq Ahead, Carriers' \subseteq Carriers,
             \A t \in Carriers' : carried'[t] = carried[t],
             hub'.at # "data" \/ UNCHANGED hub
      PROVE  OneAnnouncement'
  BY <1>0, <1>1 DEF OneAnnouncement, Waits
<1>2. ASSUME ~halted, UNCHANGED <<register, announces, log, hub, carried>> PROVE OneAnnouncement'
  <2>1. Ahead' = Ahead /\ Carriers' = Carriers
    BY <1>2 DEF Ahead, Carriers, Done
  <2> QED
    BY <1>1, <1>2, <2>1
\* A step of the poll that leaves the tasks, the log and the register.
<1>3. ASSUME ~halted, UNCHANGED <<register, announces, log, carried>>,
             hub'.at # "data", Done' >= Done, Done' \in Nat
      PROVE  OneAnnouncement'
  <2> DEFINE m == Done'
  <2>1. m >= Done /\ m \in Nat
    BY <1>3
  <2>2. Ahead' = {i \in DOMAIN log : i > m /\ announces[log[i]] # NoData}
    BY <1>3 DEF Ahead
  <2> HIDE DEF m
  <2>3. Ahead' \subseteq Ahead
    BY <1>s, <2>1, <2>2 DEF Ahead
  <2>4. Carriers' = Carriers
    BY <1>3 DEF Carriers
  <2> QED
    BY <1>1, <1>3, <2>3, <2>4
<1>4. ASSUME NEW t \in Tasks, Report(t) \/ SendData(t) \/ SendReady(t) \/ AppendTake(t)
      PROVE  OneAnnouncement'
  BY <1>2, <1>4 DEF Report, SendData, Call, SendReady, AppendTake, GoTo, door, history
<1>5. ASSUME NEW t \in Tasks, AppendCheck(t) PROVE OneAnnouncement'
  <2>1. /\ ~halted /\ UNCHANGED <<register, announces, log, hub>>
        /\ carried' = carried \/ carried' = [carried EXCEPT ![t] = NoData]
    BY <1>5 DEF AppendCheck, GoTo, door, history
  <2>2. Ahead' = Ahead
    BY <2>1 DEF Ahead, Done
  <2>3. Carriers' \subseteq Carriers /\ \A u \in Carriers' : carried'[u] = carried[u]
    BY <1>s, <2>1 DEF Carriers
  <2> QED
    BY <1>1, <2>1, <2>2, <2>3
<1>6. ASSUME NEW t \in Tasks, SendWrite(t) PROVE OneAnnouncement'
  <2>1. /\ ~halted /\ UNCHANGED <<announces, log, hub>> /\ ~register.dirty
        /\ register' = Filled(sent + 1) /\ carried' = [carried EXCEPT ![t] = sent + 1]
    BY <1>6 DEF SendWrite, GoTo
  <2>2. Ahead = {} /\ Carriers = {} /\ hub.at # "data"
    BY <1>0, <2>1 DEF OneAnnouncement, Waits
  <2>3. Ahead' = {}
    BY <2>1, <2>2 DEF Ahead, Done
  <2>4. Carriers' \subseteq {t} /\ carried'[t] = sent + 1
    BY <1>s, <2>1, <2>2 DEF Carriers
  <2>5. \A u \in Carriers' : Waits(carried[u])'
    BY <1>6, <2>1, <2>4 DEF Waits, Filled
  <2> QED
    BY <2>1, <2>2, <2>3, <2>4, <2>5 DEF OneAnnouncement
<1>7. ASSUME NEW t \in Tasks, AppendStore(t) PROVE OneAnnouncement'
  <2> DEFINE n == Len(log) + 1
  <2>1. /\ ~halted /\ stored + 1 \in Events
        /\ DOMAIN log' = 1 .. n /\ \A i \in 1 .. Len(log) : log'[i] = log[i]
        /\ log'[n] = stored + 1 /\ UNCHANGED hub
    BY <1>7, Stores
  <2>2. /\ announces' = [announces EXCEPT ![stored + 1] = carried[t]]
        /\ carried' = [carried EXCEPT ![t] = NoData] /\ UNCHANGED register
    BY <1>7 DEF AppendStore
  <2>3. \A i \in 1 .. Len(log) : announces'[log'[i]] = announces[log[i]]
    <3>1. \A i \in 1 .. Len(log) : log[i] \in Events /\ log[i] <= stored
      BY <1>s, EntriesDiffer
    <3> QED
      BY <1>s, <2>1, <2>2, <3>1 DEF Events
  <2>4. announces'[log'[n]] = carried[t]
    BY <1>s, <2>1, <2>2
  <2>5. Done' = Done /\ Done < n
    BY <1>0, <1>s, <2>1 DEF Done, PollInLog
  <2>6. Ahead' = {i \in 1 .. n : i > Done /\ announces'[log'[i]] # NoData}
    BY <2>1, <2>5 DEF Ahead
  <2>7. Ahead' \subseteq Ahead \cup {n} /\ (n \in Ahead' <=> carried[t] # NoData)
    BY <1>s, <2>3, <2>4, <2>5, <2>6 DEF Ahead
  <2>8. Carriers' = Carriers \ {t} /\ \A u \in Carriers' : carried'[u] = carried[u]
    BY <1>s, <2>2 DEF Carriers
  <2>9. \A d : Waits(d)' <=> Waits(d)
    BY <2>2 DEF Waits
  <2>10. CASE carried[t] = NoData
    <3>1. Ahead' \subseteq Ahead
      BY <2>7, <2>10
    <3>2. \A i \in Ahead' : announces'[log'[i]] = announces[log[i]]
      BY <2>3, <3>1, <1>s DEF Ahead
    <3>3. hub.at = "data" => announces'[hub.event] = announces[hub.event]
      BY <1>0, <1>s, <2>1, <2>3, EntryInLog DEF PollInLog
    <3>4. \A i \in Ahead' : Waits(announces[log[i]])'
      BY <1>0, <2>1, <2>2, <3>1, <3>2 DEF OneAnnouncement, Waits
    <3>5. \A u \in Carriers' : Waits(carried[u])'
      BY <1>0, <2>1, <2>2, <2>8 DEF OneAnnouncement, Waits
    <3> QED
      BY <1>0, <2>1, <2>2, <2>8, <3>1, <3>3, <3>4, <3>5 DEF OneAnnouncement
  <2>11. CASE carried[t] # NoData
    <3>1. t \in Carriers
      BY <2>11 DEF Carriers
    <3>2. Ahead = {} /\ Carriers \subseteq {t} /\ Waits(carried[t]) /\ hub.at # "data"
      BY <1>0, <2>1, <3>1 DEF OneAnnouncement
    <3>3. Ahead' \subseteq {n} /\ Carriers' = {}
      BY <2>7, <2>8, <3>2
    <3>4. \A i \in Ahead' : Waits(announces[log[i]])'
      BY <2>2, <2>4, <3>2, <3>3 DEF Waits
    <3> QED
      BY <2>1, <3>2, <3>3, <3>4 DEF OneAnnouncement
  <2> QED
    BY <2>10, <2>11
<1>8. CASE ReadCount
  <2>1. ~halted /\ hub.at = "count" /\ UNCHANGED <<register, announces, log, carried>>
    BY <1>8 DEF ReadCount, At, tasks, history
  <2>2. CASE hub' = hub
    BY <1>2, <2>1, <2>2
  <2>3. CASE hub' # hub
    <3>1. hub'.at = "entry" /\ hub'.j = 0
      BY <1>0, <1>8, <2>3, Started
    <3>2. Done = 0 /\ Done' = 0
      BY <2>1, <3>1 DEF Done
    <3> QED
      BY <1>3, <2>1, <3>1, <3>2
  <2> QED
    BY <2>2, <2>3
<1>9. CASE ReadEntry
  <2> DEFINE e == log[hub.j + 1]
  <2>1. UNCHANGED <<register, announces, log, carried>>
    BY <1>9 DEF ReadEntry, ProcessEntry, tasks
  <2>2. /\ ~halted /\ hub.at = "entry" /\ hub'.event = e /\ hub'.got = <<>>
        /\ \/ /\ hub'.at \in {"entry", "clear"} /\ hub'.j = hub.j + 1
           \/ hub'.at = "data" /\ hub'.j = hub.j /\ announces[e] # NoData
    BY <1>9, Processes
  <2>3. hub.j + 1 \in DOMAIN log /\ Done = hub.j
    BY <2>2, EntryInLog
  <2>4. Done' = hub.j + 1
    BY <2>2 DEF Done
  <2>5. CASE hub'.at # "data"
    <3>1. Done' >= Done /\ Done' \in Nat
      BY <1>s, <2>3, <2>4
    <3> QED
      BY <1>3, <2>1, <2>2, <2>5, <3>1
  <2>6. CASE hub'.at = "data"
    <3>1. hub.j + 1 \in Ahead
      BY <1>s, <2>2, <2>3, <2>6 DEF Ahead
    <3>2. Waits(announces[e]) /\ Carriers = {} /\ \A i \in Ahead : i = hub.j + 1
      BY <1>0, <2>2, <3>1 DEF OneAnnouncement
    <3>3. Ahead' = {}
      <4>1. Ahead' = {i \in DOMAIN log : i > hub.j + 1 /\ announces[log[i]] # NoData}
        BY <2>1, <2>4 DEF Ahead
      <4> QED
        BY <1>s, <2>3, <3>2, <4>1 DEF Ahead
    <3>4. Carriers' = {}
      BY <2>1, <3>2 DEF Carriers
    <3>5. /\ announces'[hub'.event] = register'.data /\ register'.dirty /\ register'.len = Parts
          /\ register'.offset = Len(hub'.got)
      BY <2>1, <2>2, <3>2 DEF Waits
    <3> QED
      BY <3>3, <3>4, <3>5 DEF OneAnnouncement
  <2> QED
    BY <2>5, <2>6
<1>10. CASE ReadPart
  <2>1. UNCHANGED <<announces, log, carried>> /\ register' = Advanced(register)
    BY <1>10 DEF ReadPart, tasks, history
  <2>2. /\ ~halted /\ hub.at = "data" /\ hub'.event = hub.event
        /\ hub'.got = Append(hub.got, [data |-> register.data, part |-> register.offset])
        /\ \/ /\ Len(hub.got) + 1 = Parts /\ hub'.at \in {"entry", "clear"}
              /\ hub'.j = hub.j + 1
           \/ /\ Len(hub.got) + 1 # Parts
              /\ hub'.at = "data" /\ hub'.j = hub.j
    BY <1>10, ReadsPart
  <2>3. /\ Ahead = {} /\ Carriers = {} /\ register.dirty /\ register.len = Parts
        /\ announces[hub.event] = register.data /\ register.offset = Len(hub.got)
    BY <1>0, <2>2 DEF OneAnnouncement
  <2>4. Done' = Done
    BY <2>2 DEF Done
  <2>5. Ahead' = {} /\ Carriers' = {}
    BY <2>1, <2>3, <2>4 DEF Ahead, Carriers
  <2>6. ASSUME hub'.at = "data"
        PROVE  /\ announces'[hub'.event] = register'.data /\ register'.dirty
               /\ register'.len = Parts /\ register'.offset = Len(hub'.got)
    <3>1. /\ register \in RegisterType /\ hub.got \in Seq(PartsRead)
          /\ [data |-> register.data, part |-> register.offset] \in PartsRead
      BY <1>0, HubFields DEF Typed, RegisterType, PartsRead
    <3>2. Len(hub'.got) = Len(hub.got) + 1
      BY <2>2, <3>1
    <3>3. register.offset \in 0 .. Parts - 1 /\ register.offset + 1 # Parts
      BY <2>2, <2>3, <2>6, <3>1 DEF RegisterType
    <3>4. register' = [register EXCEPT !.offset = register.offset + 1]
      BY <2>1, <2>3, <3>3, EventPathAssumption DEF Advanced
    <3> QED
      BY <2>1, <2>2, <2>3, <3>1, <3>2, <3>4 DEF RegisterType
  <2> QED
    BY <2>5, <2>6 DEF OneAnnouncement
<1>11. CASE ReadBeyond \/ EntryFails
  <2>1. UNCHANGED <<register, announces, log, carried>> /\ hub.at = "entry"
    BY <1>11 DEF ReadBeyond, EntryFails, Fault, At, door, tasks
  <2>2. ~halted /\ hub'.at \in {"entry", "clear"} /\ hub'.j = hub.j + 1
    BY <1>11, Skips
  <2>3. Done = hub.j /\ Done' = hub.j + 1
    BY <2>1, <2>2 DEF Done
  <2>4. Done' >= Done /\ Done' \in Nat
    BY <1>s, <2>3
  <2> QED
    BY <1>3, <2>1, <2>2, <2>4
<1>12. CASE Clear
  <2>1. /\ ~halted /\ hub'.at = "count" /\ log' = <<>> /\ UNCHANGED <<register, announces, carried>>
    BY <1>12, Ends DEF Clear, tasks, history
  <2>2. Ahead' = {} /\ Carriers' = Carriers
    BY <2>1 DEF Ahead, Carriers
  <2> QED
    BY <1>1, <2>1, <2>2
<1>13. CASE PartFails \/ ClearFails
  BY <1>13 DEF PartFails, ClearFails
<1>14. CASE Halt
  BY <1>14 DEF Halt
<1>15. CASE CountFails
  BY <1>2, <1>15 DEF CountFails, Fault, At, door, tasks
<1>16. CASE UNCHANGED vars
  BY <1>2, <1>16 DEF vars, door, tasks, history
<1> QED
  BY <1>4, <1>5, <1>6, <1>7, <1>8, <1>9, <1>10, <1>11, <1>12, <1>13, <1>14, <1>15, <1>16
  DEF Next, TaskStep, HubStep

\* What the poll has read is what was announced.
LEMMA MatchStep == IInv /\ [Next]_vars => DataMatches'
<1> SUFFICES ASSUME IInv, [Next]_vars, disturbed' = {}
             PROVE  \A i \in DOMAIN hub'.got :
                      hub'.got[i] = [data |-> announces'[hub'.event], part |-> i - 1]
  BY DEF DataMatches
<1> DEFINE Goal == \A i \in DOMAIN hub'.got :
                     hub'.got[i] = [data |-> announces'[hub'.event], part |-> i - 1]
<1>0. /\ Typed /\ PollInLog /\ EventStored /\ OneAnnouncement /\ disturbed = {}
      /\ \A i \in DOMAIN hub.got : hub.got[i] = [data |-> announces[hub.event], part |-> i - 1]
  BY StaysUpset DEF IInv, DataMatches
<1>s. /\ hub.event \in Events \cup {0} /\ hub.got \in Seq(PartsRead) /\ Len(hub.got) \in Nat
      /\ DOMAIN hub.got = 1 .. Len(hub.got) /\ stored \in Nat
      /\ announces \in [Events -> Data \cup {NoData}]
  BY <1>0, HubFields DEF Typed
<1>1. ASSUME UNCHANGED announces, hub'.got = hub.got, hub'.event = hub.event PROVE Goal
  BY <1>0, <1>1
<1>2. ASSUME hub'.got = <<>> PROVE Goal
  BY <1>2
<1>3. ASSUME NEW t \in Tasks, Quiet(t) PROVE Goal
  BY <1>1, <1>3, QuietKeeps
<1>4. ASSUME NEW t \in Tasks, AppendStore(t) PROVE Goal
  <2>1. UNCHANGED hub /\ announces' = [announces EXCEPT ![stored + 1] = carried[t]]
    BY <1>4 DEF AppendStore
  <2>2. CASE hub.event = 0
    <3>1. hub'.got = <<>>
      BY <1>0, <2>1, <2>2 DEF EventStored
    <3> QED
      BY <1>2, <3>1
  <2>3. CASE hub.event # 0
    <3>1. hub.event \in Events /\ hub.event \in Nat /\ hub.event <= stored
      BY <1>0, <1>s, <2>3 DEF EventStored, Events
    <3>2. announces'[hub.event] = announces[hub.event]
      BY <1>s, <2>1, <3>1
    <3> QED
      BY <1>0, <2>1, <3>2
  <2> QED
    BY <2>2, <2>3
<1>5. CASE ReadCount
  <2>1. UNCHANGED announces
    BY <1>5 DEF ReadCount, history
  <2> QED
    BY <1>0, <1>1, <1>2, <1>5, <2>1, Started
<1>6. CASE ReadEntry
  BY <1>2, <1>6, Processes
<1>7. CASE ReadPart
  <2> DEFINE part == [data |-> register.data, part |-> register.offset]
  <2>1. /\ ~halted /\ hub.at = "data" /\ hub'.event = hub.event
        /\ hub'.got = Append(hub.got, part) /\ UNCHANGED announces
    BY <1>7, ReadsPart DEF ReadPart, history
  <2>2. part = [data |-> announces[hub.event], part |-> Len(hub.got)]
    BY <1>0, <2>1 DEF OneAnnouncement
  <2>3. part \in PartsRead
    BY <1>0 DEF Typed, RegisterType, PartsRead
  <2> HIDE DEF part
  <2>4. /\ DOMAIN hub'.got = 1 .. Len(hub.got) + 1
        /\ hub'.got[Len(hub.got) + 1] = part
        /\ \A i \in 1 .. Len(hub.got) : hub'.got[i] = hub.got[i]
    BY <1>s, <2>1, <2>3
  <2> SUFFICES ASSUME NEW i \in 1 .. Len(hub.got) + 1
               PROVE  hub'.got[i] = [data |-> announces[hub.event], part |-> i - 1]
    BY <2>1, <2>4
  <2>5. CASE i \in 1 .. Len(hub.got)
    BY <1>0, <1>s, <2>4, <2>5
  <2>6. CASE i = Len(hub.got) + 1
    <3>1. i - 1 = Len(hub.got)
      BY <1>s, <2>6
    <3> QED
      BY <2>2, <2>4, <2>6, <3>1
  <2> QED
    BY <1>s, <2>5, <2>6
<1>8. CASE ReadBeyond \/ EntryFails \/ PartFails
  <2>1. UNCHANGED announces
    BY <1>8 DEF ReadBeyond, EntryFails, PartFails, Fault
  <2> QED
    BY <1>1, <1>8, <2>1, Skips
<1>9. CASE Clear \/ ClearFails
  <2>1. UNCHANGED announces
    BY <1>9 DEF Clear, ClearFails, Fault, history
  <2> QED
    BY <1>1, <1>9, <2>1, Ends
<1>10. CASE Halt \/ CountFails
  <2>1. UNCHANGED <<announces, hub>>
    BY <1>10 DEF Halt, CountFails, Fault, history
  <2> QED
    BY <1>1, <2>1
<1>11. CASE UNCHANGED vars
  BY <1>1, <1>11 DEF vars, history
<1> QED
  BY <1>3, <1>4, <1>5, <1>6, <1>7, <1>8, <1>9, <1>10, <1>11
  DEF Next, TaskStep, HubStep, Quiet

-----------------------------------------------------------------------------
(* The theorems                                                             *)

LEMMA TypedStep == IInv /\ [Next]_vars => Typed' /\ Counted'
<1> SUFFICES ASSUME IInv, [Next]_vars PROVE Typed' /\ Counted'
  OBVIOUS
<1>1. ASSUME NEW t \in Tasks, Report(t) \/ SendData(t) \/ TaskStep(t) PROVE Typed' /\ Counted'
  BY <1>1, TaskTyped
<1>2. CASE HubStep
  BY <1>2, HubTyped
<1>3. CASE UNCHANGED vars
  <2>1. Typed /\ Len(log) \in Nat
    BY DEF IInv, Typed
  <2>2. Typed'
    BY <1>3, <2>1 DEF vars, door, tasks, history, Typed
  <2>3. Counted'
    BY <1>3, <2>1, CountSame DEF vars, door, tasks, history
  <2> QED
    BY <2>2, <2>3
<1> QED
  BY <1>1, <1>2, <1>3 DEF Next

THEOREM Invariance == Spec => []IInv
<1>1. Init => IInv
  BY InitIInv
<1>2. IInv /\ [Next]_vars => IInv'
  <2> SUFFICES ASSUME IInv, [Next]_vars PROVE IInv'
    OBVIOUS
  <2>1. Typed' /\ Counted'
    BY TypedStep
  <2>2. LogInOrder' /\ PollInLog' /\ EventStored' /\ LeakFollowsOverrun'
    BY LogStep, LeakStep
  <2>3. HistoryTyped' /\ PollAccounts' /\ Accounted'
    BY AccountStep
  <2>4. PollAhead' /\ OnceInOrder'
    BY OrderStep
  <2>5. OneAnnouncement' /\ DataMatches'
    BY AnnouncementStep, MatchStep
  <2> QED
    BY <2>1, <2>2, <2>3, <2>4, <2>5 DEF IInv
<1> QED
  BY <1>1, <1>2, PTL DEF Spec

\* An event is lost only between the hub's look at the length and its clear,
\* or by a read of it that went wrong (event_log_append, event_log_clear,
\* i2c_poll_event_logs).
THEOREM EventsAccounted == Spec => []Accounted
<1>1. IInv => Accounted
  BY DEF IInv
<1> QED
  BY <1>1, Invariance, PTL

\* The hub processes an event once, in the order of storage, until a clear of
\* its fails (i2c_poll_event_logs).
THEOREM EventsInOrder == Spec => []OnceInOrder
<1>1. IInv => OnceInOrder
  BY DEF IInv
<1> QED
  BY <1>1, Invariance, PTL

\* The unlocked look at the length lets the log outgrow its buffer by one
\* event for each task but one at most, and only then may an interrupt keep
\* the mutex (event_log_append, event_log_get_entry).
THEOREM LogBounded == Spec => []LogWithinBounds
<1>1. IInv => LogWithinBounds
  <2> SUFFICES ASSUME IInv PROVE LogWithinBounds
    OBVIOUS
  <2>1. Typed /\ Counted /\ LeakFollowsOverrun
    BY DEF IInv
  <2>2. Cardinality(Appending) \in Nat /\ Cardinality(Tasks) \in Nat /\ Len(log) \in Nat
    BY <2>1, Some DEF Appending, Typed
  <2>3. Len(log) <= Overrun
    BY <2>1, <2>2, EventPathAssumption DEF Counted, Overrun
  <2> QED
    BY <2>1, <2>3 DEF LogWithinBounds, LeakFollowsOverrun
<1> QED
  BY <1>1, Invariance, PTL

\* The parts read after a DATA_READY are those of the data it announces,
\* unless two tasks raced for the register, a part could not be read, or a
\* clear failed (i2c_send_data, process_i2c_tx, i2c_poll_event_logs).
THEOREM DataAgrees == Spec => []DataMatches
<1>1. IInv => DataMatches
  BY DEF IInv
<1> QED
  BY <1>1, Invariance, PTL

InBounds == faults \in 0 .. MaxFaults

\* Every variable keeps its type, for any number of tasks, reports and faults.
THEOREM TypeCorrect == Spec => []TypeOK
<1>1. Init => InBounds
  BY EventPathAssumption DEF Init, InBounds
<1>2. InBounds /\ [Next]_vars => InBounds'
  <2> SUFFICES ASSUME InBounds, [Next]_vars PROVE InBounds'
    OBVIOUS
  <2>1. UNCHANGED faults \/ (faults' = faults + 1 /\ faults < MaxFaults)
    BY DEF Next, TaskStep, HubStep, Report, SendData, Call, SendReady, SendWrite, AppendCheck,
           AppendTake, AppendStore, ReadCount, ReadEntry, ProcessEntry, ReadBeyond, ReadPart,
           Clear, Halt, CountFails, EntryFails, PartFails, ClearFails, Fault, vars
  <2> QED
    BY <2>1, EventPathAssumption DEF InBounds
<1>3. IInv /\ stored >= 3 /\ InBounds => TypeOK
  <2> SUFFICES ASSUME IInv, stored >= 3, InBounds PROVE TypeOK
    OBVIOUS
  <2>1. Typed /\ HistoryTyped /\ PollInLog
    BY DEF IInv
  <2>2. stored \in 3 .. MaxCalls + 3 /\ sent \in 1 .. MaxCalls + 1
    BY Bounded, EventPathAssumption
  <2>3. hub.j \in 0 .. hub.count /\ hub.count \in Nat
    BY <2>1, HubFields DEF PollInLog
  <2> QED
    BY <2>1, <2>2, <2>3, HubFields
    DEF TypeOK, InBounds, Typed, HistoryTyped, RegisterType, PartsRead
<1>4. Init => stored >= 3
  BY DEF Init
<1>5. IInv /\ stored >= 3 /\ [Next]_vars => (stored >= 3)'
  <2> SUFFICES ASSUME IInv, stored >= 3, [Next]_vars PROVE stored' >= 3
    OBVIOUS
  <2>1. stored' = stored \/ stored' = stored + 1
    BY DEF Next, TaskStep, HubStep, Report, SendData, Call, SendReady, SendWrite, AppendCheck,
           AppendTake, AppendStore, ReadCount, ReadEntry, ProcessEntry, ReadBeyond, ReadPart,
           Clear, Halt, CountFails, EntryFails, PartFails, ClearFails, Fault, history, vars
  <2>2. stored \in Nat
    BY DEF IInv, Typed
  <2> QED
    BY <2>1, <2>2
<1>6. Spec => []InBounds
  BY <1>1, <1>2, PTL DEF Spec
<1>7. Spec => [](stored >= 3)
  BY <1>4, <1>5, Invariance, PTL DEF Spec
<1> QED
  BY <1>3, <1>6, <1>7, Invariance, PTL
=============================================================================
