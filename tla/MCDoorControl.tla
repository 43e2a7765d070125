--------------------------- MODULE MCDoorControl ---------------------------
(* One task that carries out commands and the door's own task are enough for *)
(* two movements to overlap; three steps are enough to retreat, to be        *)
(* overtaken halfway and to reach the step without an entry.                 *)
EXTENDS DoorControl
CONSTANT Comms
MCCallers == {Comms}
=============================================================================
