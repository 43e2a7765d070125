-------------------------- MODULE MCIntercomClient --------------------------
(* One door and a second that comes, which fill the list's two usable cells, *)
(* ticks of five seconds, the turn from January to February, which sets the  *)
(* client's clock back, and the days until it has caught up.                 *)
EXTENDS IntercomClient
=============================================================================
