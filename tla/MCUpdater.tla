----------------------------- MODULE MCUpdater -----------------------------
(* Four artifacts on pages of two; trips of two ticks, URLs of three to six. *)
EXTENDS Updater

Artifacts == 1..4
AskedLimits == {Omitted, 0, 1, 3}
Answers == {"past", "empty"}
Lifetimes == {Omitted, 2, 3, 6, 7}
Reads == {Presign}
Hints == {-1, 0}
=============================================================================
