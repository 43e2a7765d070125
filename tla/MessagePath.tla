---------------------------- MODULE MessagePath ----------------------------
(***************************************************************************)
(* hub_common_ipc.c, door_manager_ipc.c, intercom_server_ipc.c,            *)
(* db_service_ipc.c: the way of a packet between two processes of the hub. *)
(*                                                                         *)
(* A process keeps its packets in a queue of its own memory; its output    *)
(* thread moves them one by one into the POSIX queue that is the inbox of  *)
(* the other process, whose input thread takes them out.  A copy of every  *)
(* packet goes to the database.  POSIX queues outlive the processes, which *)
(* the control daemon launches again when they end.                        *)
(*                                                                         *)
(* The processes race to create the queues, and the one that creates a     *)
(* queue opens it for reading only.                                        *)
(***************************************************************************)
EXTENDS Integers, Sequences, FiniteSets, SequencesExt

CONSTANTS
  DoorManager, IntercomServer, Database,  \* the processes at the queues' ends
  Others,            \* those that only open the queues: the web server
  InboxCapacity,     \* MQ_MSG_COUNT_MAX
  InternalCapacity,  \* of the in-process queues
  MaxPackets,        \* bound: how many packets each sender produces
  MaxCrashes,        \* bound: processes that end
  Nothing            \* no packet

ASSUME MessagePathAssumption ==
  /\ DoorManager # IntercomServer /\ DoorManager # Database /\ IntercomServer # Database
  /\ {DoorManager, IntercomServer, Database} \cap Others = {}
  /\ InboxCapacity \in Nat \ {0} /\ InternalCapacity \in Nat \ {0}
  /\ MaxPackets \in [{DoorManager, IntercomServer} -> Nat] /\ MaxCrashes \in Nat
  /\ Nothing \notin Nat

Processes == {DoorManager, IntercomServer, Database} \cup Others
Senders == {DoorManager, IntercomServer}
Inboxes == {DoorManager, IntercomServer, Database}   \* named for their owners

Peer(s) == IF s = DoorManager THEN IntercomServer ELSE DoorManager

VARIABLES
  created,    \* the POSIX queues that exist
  opened,     \* how many of the queues each process has opened, -1: not running
  handle,     \* what each process may do with each queue
  inbox,      \* contents of the POSIX queues
  internal,   \* contents of the in-process queue of each sender
  making,     \* the packet whose copy is made, then queued
  hand,       \* the packet the output thread is about to send
  produced,   \* how many packets each sender has produced
  delivered,  \* history: what each owner took out of its inbox
  lost,       \* history: packets of each sender dropped or lost in a crash
  crashes

processVars == <<created, opened, handle>>
senderVars == <<internal, making, hand, produced, lost>>
pathVars == <<processVars, inbox, senderVars, delivered, crashes>>

PathInit ==
  /\ created = {}
  /\ opened = [p \in Processes |-> 0]
  /\ handle = [p \in Processes |-> [q \in Inboxes |-> "none"]]
  /\ inbox = [q \in Inboxes |-> <<>>]
  /\ internal = [s \in Senders |-> <<>>]
  /\ making = [s \in Senders |-> Nothing]
  /\ hand = [s \in Senders |-> Nothing]
  /\ produced = [s \in Senders |-> 0]
  /\ delivered = [q \in Inboxes |-> <<>>]
  /\ lost = [s \in Senders |-> {}]
  /\ crashes = 0

-----------------------------------------------------------------------------
(* ipc_init_inbox_handles                                                  *)

OpeningOrder == <<IntercomServer, DoorManager, Database>>

Running(p) == opened[p] = Len(OpeningOrder)

\* A queue that exists is opened for both directions; one that does not is
\* created, and O_CREAT | O_EXCL alone means for reading.
OpenQueue(p) ==
  LET q == OpeningOrder[opened[p] + 1] IN
  /\ opened[p] \in 0 .. Len(OpeningOrder) - 1
  /\ opened' = [opened EXCEPT ![p] = @ + 1]
  /\ created' = created \cup {q}
  /\ handle' = [handle EXCEPT ![p][q] = IF q \in created THEN "both" ELSE "read"]
  /\ UNCHANGED <<inbox, senderVars, delivered, crashes>>

-----------------------------------------------------------------------------
(* Producers: the bus thread, the connection threads                       *)

\* mq_timedsend with a time long past: it fails at once if it cannot send.
CanSend(p, q) == handle[p][q] = "both" /\ Len(inbox[q]) < InboxCapacity

\* ipc_send_packet_copy_to_db: five attempts without a wait between them.
Copy(s) ==
  /\ Running(s) /\ making[s] = Nothing
  /\ produced[s] < MaxPackets[s]
  /\ making' = [making EXCEPT ![s] = produced[s] + 1]
  /\ produced' = [produced EXCEPT ![s] = @ + 1]
  /\ inbox' = IF CanSend(s, Database)
              THEN [inbox EXCEPT ![Database] = Append(@, <<s, produced[s] + 1>>)]
              ELSE inbox
  /\ UNCHANGED <<processVars, internal, hand, lost, delivered, crashes>>

\* Mutant: in a full queue the oldest packet makes room.
EnqueueOverOldest(s) ==
  /\ making[s] # Nothing
  /\ making' = [making EXCEPT ![s] = Nothing]
  /\ IF Len(internal[s]) < InternalCapacity
     THEN internal' = [internal EXCEPT ![s] = Append(@, making[s])] /\ UNCHANGED lost
     ELSE /\ lost' = [lost EXCEPT ![s] = @ \cup {Head(internal[s])}]
          /\ internal' = [internal EXCEPT ![s] = Append(Tail(@), making[s])]
  /\ UNCHANGED <<processVars, inbox, hand, produced, delivered, crashes>>

\* hub_queue_enqueue; nobody looks at its result.
Enqueue(s) ==
  /\ making[s] # Nothing
  /\ making' = [making EXCEPT ![s] = Nothing]
  /\ IF Len(internal[s]) < InternalCapacity
     THEN internal' = [internal EXCEPT ![s] = Append(@, making[s])] /\ UNCHANGED lost
     ELSE lost' = [lost EXCEPT ![s] = @ \cup {making[s]}] /\ UNCHANGED internal
  /\ UNCHANGED <<processVars, inbox, hand, produced, delivered, crashes>>

-----------------------------------------------------------------------------
(* ipc_out_loop                                                            *)

TakeOut(s) ==
  /\ Running(s) /\ hand[s] = Nothing /\ internal[s] # <<>>
  /\ hand' = [hand EXCEPT ![s] = Head(internal[s])]
  /\ internal' = [internal EXCEPT ![s] = Tail(@)]
  /\ UNCHANGED <<processVars, inbox, making, produced, lost, delivered, crashes>>

\* Mutant: one attempt, successful or not.
SendOnce(s) ==
  /\ hand[s] # Nothing
  /\ inbox' = IF CanSend(s, Peer(s))
              THEN [inbox EXCEPT ![Peer(s)] = Append(@, <<s, hand[s]>>)]
              ELSE inbox
  /\ hand' = [hand EXCEPT ![s] = Nothing]
  /\ UNCHANGED <<processVars, internal, making, produced, lost, delivered, crashes>>

\* Mutant: the packet is kept for another attempt although it was sent.
SendAgain(s) ==
  /\ hand[s] # Nothing /\ CanSend(s, Peer(s))
  /\ inbox' = [inbox EXCEPT ![Peer(s)] = Append(@, <<s, hand[s]>>)]
  /\ hand' \in {hand, [hand EXCEPT ![s] = Nothing]}
  /\ UNCHANGED <<processVars, internal, making, produced, lost, delivered, crashes>>

\* The attempt that succeeds; the ones before it change nothing.
Send(s) ==
  /\ hand[s] # Nothing /\ CanSend(s, Peer(s))
  /\ inbox' = [inbox EXCEPT ![Peer(s)] = Append(@, <<s, hand[s]>>)]
  /\ hand' = [hand EXCEPT ![s] = Nothing]
  /\ UNCHANGED <<processVars, internal, making, produced, lost, delivered, crashes>>

\* ipc_in_loop; reading is what every handle is good for.
TakeIn(q) ==
  /\ Running(q) /\ inbox[q] # <<>>
  /\ delivered' = [delivered EXCEPT ![q] = Append(@, Head(inbox[q]))]
  /\ inbox' = [inbox EXCEPT ![q] = Tail(@)]
  /\ UNCHANGED <<processVars, senderVars, crashes>>

-----------------------------------------------------------------------------
(* Processes end and are launched again                                    *)

\* What a sender holds in its own memory.
Held(s) ==
  ToSet(internal[s]) \cup ({making[s], hand[s]} \ {Nothing})

Crash(p) ==
  /\ opened[p] >= 0 /\ crashes < MaxCrashes
  /\ crashes' = crashes + 1
  /\ opened' = [opened EXCEPT ![p] = -1]
  /\ handle' = [handle EXCEPT ![p] = [q \in Inboxes |-> "none"]]
  /\ IF p \in Senders
     THEN /\ lost' = [lost EXCEPT ![p] = @ \cup Held(p)]
          /\ internal' = [internal EXCEPT ![p] = <<>>]
          /\ making' = [making EXCEPT ![p] = Nothing]
          /\ hand' = [hand EXCEPT ![p] = Nothing]
     ELSE UNCHANGED <<lost, internal, making, hand>>
  /\ UNCHANGED <<created, inbox, produced, delivered>>

\* processes_control_loop
Relaunch(p) ==
  /\ opened[p] = -1
  /\ opened' = [opened EXCEPT ![p] = 0]
  /\ UNCHANGED <<created, handle, inbox, senderVars, delivered, crashes>>

-----------------------------------------------------------------------------

Process(p) == OpenQueue(p) \/ Relaunch(p)
Output(s) == TakeOut(s) \/ Send(s)

PathNext ==
  \/ \E p \in Processes : Process(p) \/ Crash(p)
  \/ \E s \in Senders : Copy(s) \/ Enqueue(s) \/ Output(s)
  \/ \E q \in Inboxes : TakeIn(q)

PathSpec == PathInit /\ [][PathNext]_pathVars

\* Processes are launched and start; their threads run.  Nobody owes a packet.
PathFairSpec ==
  /\ PathSpec
  /\ \A p \in Processes : WF_pathVars(Process(p))
  /\ \A s \in Senders : WF_pathVars(Enqueue(s)) /\ WF_pathVars(Output(s))
  /\ \A q \in Inboxes : WF_pathVars(TakeIn(q))

-----------------------------------------------------------------------------
(* Properties                                                              *)

\* The types, with both kinds of queues within their capacities and at most
\* one process, the one that created it, without the right to send to a queue.
PathTypeOK ==
  /\ created \subseteq Inboxes
  /\ opened \in [Processes -> -1 .. Len(OpeningOrder)]
  /\ handle \in [Processes -> [Inboxes -> {"none", "read", "both"}]]
  /\ \A q \in Inboxes :
       /\ Cardinality({p \in Processes : handle[p][q] = "read"}) <= 1
       /\ Len(inbox[q]) <= InboxCapacity
       /\ \A i \in DOMAIN inbox[q] : inbox[q][i] \in Senders \X Nat
  /\ \A s \in Senders :
       /\ Len(internal[s]) <= InternalCapacity
       /\ Held(s) \cup lost[s] \subseteq 1 .. produced[s]
       /\ produced[s] \in 0 .. MaxPackets[s]
  /\ crashes \in 0 .. MaxCrashes

\* The packets of sender s: those its peer has taken out, and those under way
\* from the peer's inbox to the copy being made, from the oldest to the newest.
Numbers(packets) == [i \in DOMAIN packets |-> packets[i][2]]
One(p) == IF p = Nothing THEN <<>> ELSE <<p>>

Got(s) == Numbers(delivered[Peer(s)])
Way(s) ==
  Numbers(inbox[Peer(s)]) \o (One(hand[s]) \o (internal[s] \o One(making[s])))
Path(s) == Got(s) \o Way(s)

\* The racing processes, their retries and their ends are, in each direction, a
\* channel that keeps the order and loses only its newest packets.
FromDoors ==
  INSTANCE LossyChannel
  WITH sent <- produced[DoorManager], way <- Way(DoorManager),
       got <- Got(DoorManager), lost <- lost[DoorManager]
FromIntercoms ==
  INSTANCE LossyChannel
  WITH sent <- produced[IntercomServer], way <- Way(IntercomServer),
       got <- Got(IntercomServer), lost <- lost[IntercomServer]
ImplementsChannels == FromDoors!Spec /\ FromIntercoms!Spec

\* Packets arrive in the order in which they were handed over, none twice,
\* also when processes end and start again on queues that outlive them.
DeliveredInOrder ==
  \A s \in Senders :
    \A i, j \in DOMAIN Path(s) : i < j => Path(s)[i] < Path(s)[j]

\* No packet disappears but by a full in-process queue or in the memory of a
\* process that ended.
NothingVanishes ==
  \A s \in Senders : 1 .. produced[s] = ToSet(Path(s)) \cup lost[s]

MaySend(s) == handle[s][Peer(s)] = "both"

\* A packet that waits for its sender's output thread is delivered, unless
\* the sender ends or has no right to send.
WritableIsForwarded ==
  \A s \in Senders : \A n \in 1 .. MaxPackets[s] :
    n = hand[s] \/ n \in ToSet(internal[s])
      ~> <<s, n>> \in ToSet(delivered[Peer(s)]) \/ n \in lost[s] \/ ~MaySend(s)

\* "Reads messages from the internal queue, and forwards them": without the
\* reservation about the right to send.
TakenIsForwarded == \A s \in Senders : hand[s] # Nothing ~> hand[s] = Nothing
=============================================================================
