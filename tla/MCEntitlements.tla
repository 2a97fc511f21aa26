--------------------------- MODULE MCEntitlements ---------------------------
(* Two codes and pages of one, so that a listing may be cut; two threads.    *)
EXTENDS Entitlements, TLC

CONSTANTS t1, t2, e1, e2

Threads == {t1, t2}
Codes == {e1, e2}
Symmetric == Permutations(Threads) \cup Permutations(Codes)
=============================================================================
