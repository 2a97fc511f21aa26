---------------------------- MODULE MCActivation ----------------------------
(* Small instances of Activation: two or three applications, two licenses. *)
EXTENDS Activation

CONSTANTS c1, c2, c3, l1, l2, f1, f2

(* The two licenses share a policy with a policy-wide uniqueness scope. *)
PolicyScope == [l \in License |-> License]

(* l1 has a permissive overage strategy, l2 a strict one. *)
OneSeat == [l \in License |-> 1]
Overage == [l \in License |-> IF l = l1 THEN 2 ELSE 1]

(* A search for f1 also hits machines whose name or fingerprint contains it. *)
Overlap == [f \in Fingerprint |-> IF f = f1 THEN {f1, f2} ELSE {f}]

RoomForAll == [l \in License |-> 3]

ClientRank == [c \in Client |-> IF c = c1 THEN 1 ELSE IF c = c2 THEN 2 ELSE 3]
=============================================================================
