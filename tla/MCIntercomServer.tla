-------------------------- MODULE MCIntercomServer --------------------------
(* Few slots, so that they run out; outboxes of one packet, so that they     *)
(* fill up.                                                                  *)
EXTENDS IntercomServer
=============================================================================
