---------------------------- MODULE BoundedFifo ----------------------------
(***************************************************************************)
(* What a packet queue of the hub promises its callers: a first-in         *)
(* first-out queue of at most Capacity packets whose four outcomes (a      *)
(* packet accepted, a packet refused, a packet handed out, nothing to hand *)
(* out) each happen at one instant.  HubQueue.tla is shown to implement    *)
(* this specification.                                                     *)
(***************************************************************************)
EXTENDS Naturals, Sequences

CONSTANTS
  Threads,    \* the callers
  Packets,    \* the packets that may be queued
  NoPacket,   \* the content of a caller's buffer before its first dequeue
  Capacity    \* the most packets the queue holds

VARIABLES
  fifo,       \* the queued packets, oldest first
  got,        \* got[t]: the packet thread t dequeued last
  outcome     \* outcome[t]: how t's last call ended

vars == <<fifo, got, outcome>>

Init ==
  /\ fifo = <<>>
  /\ got = [t \in Threads |-> NoPacket]
  /\ outcome = [t \in Threads |-> "none"]

\* A packet is accepted at the back.
Put(t, p) ==
  /\ Len(fifo) < Capacity
  /\ fifo' = Append(fifo, p)
  /\ outcome' = [outcome EXCEPT ![t] = "accepted"]
  /\ UNCHANGED got

\* A packet is refused, and only because the queue is full.
Refuse(t) ==
  /\ Len(fifo) = Capacity
  /\ outcome' = [outcome EXCEPT ![t] = "refused"]
  /\ UNCHANGED <<fifo, got>>

\* The oldest packet is handed out.
Take(t) ==
  /\ fifo # <<>>
  /\ got' = [got EXCEPT ![t] = Head(fifo)]
  /\ fifo' = Tail(fifo)
  /\ outcome' = [outcome EXCEPT ![t] = "taken"]

\* Nothing is handed out, and only because nothing is queued.
FindEmpty(t) ==
  /\ fifo = <<>>
  /\ outcome' = [outcome EXCEPT ![t] = "empty"]
  /\ UNCHANGED <<fifo, got>>

Next ==
  \E t \in Threads :
    \/ \E p \in Packets : Put(t, p)
    \/ Refuse(t)
    \/ Take(t)
    \/ FindEmpty(t)

Spec == Init /\ [][Next]_vars
=============================================================================
