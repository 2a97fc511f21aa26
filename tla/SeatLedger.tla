----------------------------- MODULE SeatLedger -----------------------------
(***************************************************************************)
(* What an activation promises, whatever requests it takes to keep it.     *)
(*                                                                         *)
(* A seat is the row some call asked for.  A call takes at most one seat,  *)
(* its own; it ends by keeping that seat, by giving it back, by adopting   *)
(* a seat that is there and serves the same license and fingerprint, or    *)
(* by being denied without ever having taken one.  Only a call that failed *)
(* leaves anything behind.                                                 *)
(***************************************************************************)
EXTENDS Naturals

CONSTANTS Client, Row, NoRow

VARIABLES
  seats,    \* the seats taken
  loose,    \* what failed calls may still do to the ledger
  ask,      \* ask[c]: the seat the current or last call of c asked for
  status,   \* status[c]: open, held (own seat taken), machine, refused, failed
  given     \* given[c]: the seat returned to the caller

vars == <<seats, loose, ask, status, given>>

Serves(s, r) == s.license = r.license /\ s.fingerprint = r.fingerprint

Init ==
  /\ seats = {} /\ loose = {}
  /\ ask = [c \in Client |-> NoRow]
  /\ status = [c \in Client |-> "idle"]
  /\ given = [c \in Client |-> NoRow]

End(c, how, s) ==
  /\ status' = [status EXCEPT ![c] = how]
  /\ given' = [given EXCEPT ![c] = s]

(* A call asks for a seat nobody asked for before. *)
Open(c) ==
  /\ status[c] \notin {"open", "held"}
  /\ ask'[c] \in Row /\ ask'[c].by = c
  /\ ask[c] = NoRow \/ ask'[c].nth > ask[c].nth
  /\ ask' = [ask EXCEPT ![c] = ask'[c]]
  /\ End(c, "open", NoRow)
  /\ UNCHANGED <<seats, loose>>

Take(c) ==
  /\ status[c] = "open" /\ ask[c] \notin seats
  /\ seats' = seats \cup {ask[c]}
  /\ End(c, "held", NoRow)
  /\ UNCHANGED <<loose, ask>>

Keep(c) ==
  /\ status[c] = "held"
  /\ End(c, "machine", ask[c])
  /\ UNCHANGED <<seats, loose, ask>>

GiveBack(c) ==
  /\ status[c] = "held" /\ ask[c] \in seats
  /\ seats' = seats \ {ask[c]}
  /\ End(c, "refused", NoRow)
  /\ UNCHANGED <<loose, ask>>

Adopt(c, s) ==
  /\ status[c] = "open"
  /\ s \in seats /\ Serves(s, ask[c])
  /\ End(c, "machine", s)
  /\ UNCHANGED <<seats, loose, ask>>

Deny(c) ==
  /\ status[c] = "open"
  /\ End(c, "refused", NoRow)
  /\ UNCHANGED <<seats, loose, ask>>

(* A failed call may still take its seat later (it had not), or give it up. *)
Fail(c) ==
  /\ status[c] \in {"open", "held"}
  /\ LET op == IF status[c] = "open" THEN "create" ELSE "delete"
     IN  loose' \in {loose, loose \cup {[op |-> op, row |-> ask[c]]}}
  /\ End(c, "failed", NoRow)
  /\ UNCHANGED <<seats, ask>>

Straggler(q) ==
  /\ seats' = IF q.op = "create" THEN seats \cup {q.row} ELSE seats \ {q.row}
  /\ loose' = loose \ {q}
  /\ UNCHANGED <<ask, status, given>>

(* The seat's owner, an operator or the server's culling takes it away. *)
Reclaim(s) ==
  /\ seats' = seats \ {s}
  /\ UNCHANGED <<loose, ask, status, given>>

Next ==
  \/ \E c \in Client :
       \/ Open(c) \/ Take(c) \/ Keep(c) \/ GiveBack(c) \/ Deny(c) \/ Fail(c)
       \/ \E s \in seats : Adopt(c, s)
  \/ \E q \in loose : Straggler(q)
  \/ \E s \in seats : Reclaim(s)

Spec == Init /\ [][Next]_vars
=============================================================================
