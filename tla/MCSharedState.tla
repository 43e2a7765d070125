--------------------------- MODULE MCSharedState ---------------------------
(* An owner and two users, one of which only tries the list and reads the    *)
(* log; a ring that is full at the second message.                           *)
EXTENDS SharedState
MCUsers == {"blocker", "web"}
MCWeb == {"web"}
MCKinds == {"list", "log"}
=============================================================================
