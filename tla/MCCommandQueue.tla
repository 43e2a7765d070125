--------------------------- MODULE MCCommandQueue ---------------------------
(* Rings of two and three slots, so that they fill up and wrap around within *)
(* a few commands.                                                           *)
EXTENDS CommandQueue
=============================================================================
