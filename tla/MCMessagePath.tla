--------------------------- MODULE MCMessagePath ---------------------------
(* Two packets in one direction and one in the other, and queues of one      *)
(* place, so that an inbox is full while the in-process queue overflows      *)
(* behind it; one process ends at any moment.                                *)
EXTENDS MessagePath
MCPackets == [s \in {DoorManager, IntercomServer} |-> IF s = DoorManager THEN 2 ELSE 1]
MCOthers == {}
=============================================================================
