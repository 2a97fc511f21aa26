------------------------------ MODULE MCRetry ------------------------------
(* The requests of the SDK, one of each kind, against every header. *)
EXTENDS Retry

KindsOfRequest ==
  {[method |-> "GET", action |-> "read"],
   [method |-> "POST", action |-> "ping-heartbeat"],
   [method |-> "POST", action |-> "ping"],
   [method |-> "POST", action |-> "validate"],
   [method |-> "POST", action |-> "create"],
   [method |-> "POST", action |-> "increment"],
   [method |-> "PATCH", action |-> "update"],
   [method |-> "DELETE", action |-> "delete"]}

Headers == {-1, 0, 1, 60, 3600}
=============================================================================
