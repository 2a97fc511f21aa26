------------------------------ MODULE Listing ------------------------------
(***************************************************************************)
(* What a listing read page by page promises, however it is paged, while    *)
(* rows come and go.  No row is read twice.  A listing that is "complete"   *)
(* has read every row that was there all along.  One that is "cut" ended as *)
(* if it were complete and is not: a row that was read has gone, or the     *)
(* caller asked for pages the server does not give.                        *)
(***************************************************************************)
CONSTANTS
  Key,      \* the rows there may be
  Greedy    \* may callers ask for more than the server puts on a page?

VARIABLES
  rows,     \* the rows that are there
  there,    \* those that have been there since the listing began
  page,     \* the page read last
  seen,     \* all that was read
  status    \* "idle", "open", "complete", "cut", "failed"

vars == <<rows, there, page, seen, status>>

Init ==
  /\ rows \in SUBSET Key
  /\ there = {} /\ page = {} /\ seen = {} /\ status = "idle"

Begin ==
  /\ status # "open"
  /\ status' = "open" /\ there' = rows
  /\ page' = {} /\ seen' = {}
  /\ UNCHANGED rows

Read ==
  /\ status = "open"
  /\ page' \subseteq rows /\ page' \cap seen = {}
  /\ seen' = seen \cup page'
  /\ \/ status' = "open"
     \/ status' = "complete" /\ there \subseteq seen'
     \/ status' = "cut" /\ Greedy
  /\ UNCHANGED <<rows, there>>

Cut ==
  /\ status = "open" /\ ~(seen \subseteq rows)
  /\ status' = "cut"
  /\ UNCHANGED <<rows, there, page, seen>>

Fail ==
  /\ status = "open"
  /\ status' = "failed"
  /\ UNCHANGED <<rows, there, page, seen>>

(* The pages that were read are dropped. *)
Forget ==
  /\ status # "open"
  /\ status' = "idle"
  /\ there' = {} /\ page' = {} /\ seen' = {}
  /\ UNCHANGED rows

Change ==
  /\ rows' \subseteq Key
  /\ there' = there \cap rows'
  /\ UNCHANGED <<page, seen, status>>

Next == Begin \/ Read \/ Cut \/ Fail \/ Forget \/ Change

Spec == Init /\ [][Next]_vars
=============================================================================
