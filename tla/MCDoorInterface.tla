-------------------------- MODULE MCDoorInterface --------------------------
(* One address and one name besides those a unit starts with, and two power  *)
(* failures: a save is cut short, and so is the next start or save.          *)
EXTENDS DoorInterface
CONSTANTS a1, a2, n1, n2
MCAddresses == {a1, a2}
MCNames == {n1, n2}
=============================================================================
