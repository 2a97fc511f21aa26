----------------------------- MODULE MCOffline -----------------------------
(* Two rotations, files that live one second or for ever, clocks from one    *)
(* second behind to two ahead, and a tolerance of one.                        *)
EXTENDS OfflineVerify

Lifetimes == {1, NoExpiry}
Clocks == {-1, 0, 1, 2}
=============================================================================
