--------------------------- MODULE MCDoorManager ---------------------------
(* Which doors are on the bus: none, the first, or all but the first, which  *)
(* leaves a gap; only the last of these; or every one of them.               *)
EXTENDS DoorManager

WithAndWithoutGap == {{}, {0}, {1, 2}}
FirstMissing == {Doors \ {0}}
AllDoors == {Doors}
=============================================================================
