----------------------------- MODULE MCHubQueue -----------------------------
(* Two threads, of which one waits while the other is inside, and two        *)
(* packets, whose order can be told apart.                                   *)
EXTENDS HubQueue

CONSTANTS t1, t2, p1, p2

MCThreads == {t1, t2}
MCPackets == {p1, p2}
=============================================================================
