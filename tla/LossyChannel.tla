---------------------------- MODULE LossyChannel ----------------------------
(***************************************************************************)
(* What the hub promises for the packets of one process to another: they   *)
(* are numbered as they are made and arrive in that order, each once; what *)
(* is lost on the way is lost from its near end, the newest first.         *)
(***************************************************************************)
EXTENDS Integers, Sequences

VARIABLES
  sent,   \* how many packets were made
  way,    \* the packets under way, the oldest first
  got,    \* the packets that arrived
  lost    \* those that never will

channelVars == <<sent, way, got, lost>>

Init == sent = 0 /\ way = <<>> /\ got = <<>> /\ lost = {}

Put ==
  /\ sent' = sent + 1 /\ way' = Append(way, sent + 1)
  /\ UNCHANGED <<got, lost>>

\* The first n packets stay.
LoseNewest(n) ==
  /\ way' = SubSeq(way, 1, n)
  /\ lost' = lost \cup {way[i] : i \in n + 1 .. Len(way)}
  /\ UNCHANGED <<sent, got>>

Deliver ==
  /\ way # <<>>
  /\ got' = Append(got, Head(way)) /\ way' = Tail(way)
  /\ UNCHANGED <<sent, lost>>

Next ==
  \/ Put \/ Deliver
  \/ \E n \in 0 .. Len(way) - 1 : LoseNewest(n)

Spec == Init /\ [][Next]_channelVars
=============================================================================
