---------------------------- MODULE MCHeartbeat ----------------------------
(* Windows at, around and far from the floor of one second; Tick = 2. *)
EXTENDS Heartbeat

OnlyPings == {Ping}
Windows == {Unset, 0, 1, 2, 3, 7}
ByHand == {0, 1, 5}
Quick == {0, 1}
Instant == {0}
Hints == {-1, 0, 60}
=============================================================================
