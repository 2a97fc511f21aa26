----------------------------- MODULE MCProcess -----------------------------
(* Two applications and two pids, alike under every permutation. *)
EXTENDS ProcessLifecycle, TLC

CONSTANTS a1, a2, p1, p2

Alike == Permutations(App) \cup Permutations(Pid)
=============================================================================
