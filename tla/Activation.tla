----------------------------- MODULE Activation -----------------------------
(***************************************************************************)
(* Machine activation: several applications call                          *)
(* MachinesClient.activate_machine or activate_machine_idempotent          *)
(* (src/tamga/client.py) against one license server.                       *)
(*                                                                         *)
(* A call is a sequence of requests: POST /machines, then either           *)
(*   POST validate -> DELETE            (the new row is over a limit), or   *)
(*   GET /machines/{id} -> GET /machines?page=1, 2, ...  (409 recovery).    *)
(* The calling thread blocks on each request, so a request and its answer  *)
(* are one step; calls of different clients interleave between requests.   *)
(* A request whose answer never reaches the client (timeout, reset, crash  *)
(* of the application) may still be carried out later: see "late".         *)
(*                                                                         *)
(* The server is not in the repository.  It is modelled from what the SDK  *)
(* says of it where it uses it, and every choice it has is left open by a   *)
(* CONSTANT or a nondeterministic answer.                                  *)
(***************************************************************************)
EXTENDS Naturals, FiniteSets

CONSTANTS
  Client,        \* threads or processes that use the SDK, one call at a time each
  License,
  Fingerprint,
  Blank,         \* the fingerprints that are empty once stripped
  Hits,          \* Hits[f]: the fingerprints of rows that filter[q]=f returns
  Scope,         \* Scope[l]: the licenses whose rows clash with a create on l
  Limit,         \* Limit[l]: rows of l above which validation says TOO_MANY_MACHINES
  Cap,           \* Cap[l]: rows of l at which POST /machines answers 422
  Naming,        \* what a 409 puts in meta.machineId: "never", "own" or "any"
  HonestPages,   \* is page[number] heeded, and meta.page.totalPages the truth?
  Rank,          \* Rank[c]: the place of c's rows in the server's list order
  PageSize,      \* MAX_PAGE_SIZE
  MaxPages,      \* MAX_MACHINE_SEARCH_PAGES
  NoRow,         \* None
  MaxCalls       \* bound: activations one client starts

Row == [by : Client, nth : Nat \ {0}, license : License, fingerprint : Fingerprint]

ASSUME ServerAssumption ==
  /\ Blank \subseteq Fingerprint
  /\ Hits \in [Fingerprint -> SUBSET Fingerprint]
  /\ \A f \in Fingerprint : f \in Hits[f]
  /\ Scope \in [License -> SUBSET License]
  /\ \A l \in License : l \in Scope[l]
  /\ Limit \in [License -> Nat]
  /\ Cap \in [License -> Nat]
  /\ Naming \in {"never", "own", "any"}
  /\ HonestPages \in BOOLEAN
  /\ Rank \in [Client -> Nat]
  /\ NoRow \notin Row

ASSUME BoundAssumption ==
  /\ PageSize \in Nat \ {0}
  /\ MaxPages \in Nat \ {0}
  /\ MaxCalls \in Nat

VARIABLES
  rows,   \* the server's machines; a row is identified by the call that asked for it
  late,   \* requests a call gave up on that the server may still carry out
  call    \* call[c]: the current call of c, or its last one when pc = "idle"

vars == <<rows, late, call>>

(* An SDK call ends in one of these ways; "none" while it runs.            *)
(*   machine      it returned call[c].row                                  *)
(*   refused      MachineOverLimitError(rolled_back=False)                 *)
(*   rolled_back  MachineOverLimitError(rolled_back=True)                  *)
(*   taken        FingerprintTakenError                                    *)
(*   error        any other exception, or the application died             *)
Outcome == {"none", "machine", "refused", "rolled_back", "taken", "error"}

Call ==
  [pc   : {"idle", "create", "validate", "rollback", "get", "search"},
   nth  : Nat,                    \* calls of this client so far, this one included
   req  : Row \cup {NoRow},       \* what the call asks for: the row it would create
   idem : BOOLEAN,                \* is it a running activate_machine_idempotent?
   row  : Row \cup {NoRow},       \* the machine the call is working on or returned
   page : Nat,                    \* page_number of find_by_fingerprint
   mine : SUBSET Row,             \* history: own-license rows behind the 409 it got
   out  : Outcome]

TypeOK ==
  /\ rows \subseteq Row
  /\ late \subseteq [op : {"create", "delete"}, row : Row]
  /\ call \in [Client -> Call]

NoCall == [pc |-> "idle", nth |-> 0, req |-> NoRow, idem |-> FALSE, row |-> NoRow,
           page |-> 0, mine |-> {}, out |-> "none"]

Init ==
  /\ rows = {}
  /\ late = {}
  /\ call = [c \in Client |-> NoCall]

-----------------------------------------------------------------------------
(* The server. *)

RowsOf(l) == {r \in rows : r.license = l}

(* The uniqueness check looks at every license in the policy's scope. *)
Clash(req) == {r \in rows : r.license \in Scope[req.license]
                            /\ r.fingerprint = req.fingerprint}

(* It runs before the limit check, which goes through the overage strategy. *)
Room(req) == Cardinality(RowsOf(req.license)) < Cap[req.license]

(* meta.machineId of the 409.  "own" is the documented server: it names the *)
(* clashing machine only when it is on the license of the request.          *)
Named(req) ==
  CASE Naming = "never" -> {NoRow}
    [] Naming = "own"   -> {IF r.license = req.license THEN r ELSE NoRow : r \in Clash(req)}
    [] Naming = "any"   -> rows \cup {NoRow}

OverLimitCodes == {"TOO_MANY_MACHINES", "TOO_MANY_CORES", "TOO_MUCH_MEMORY",
                   "TOO_MUCH_DISK", "TOO_MANY_PROCESSES"}

(* The first failing check wins, and suspension, expiry and the rest come   *)
(* before the limits: "OTHER" (any other non-VALID code) can hide them.     *)
(* Cores, memory, disk and processes are not modelled: any may be exceeded. *)
Verdicts(l) ==
  IF Cardinality(RowsOf(l)) > Limit[l]
  THEN {"OTHER", "TOO_MANY_MACHINES"}
  ELSE {"OTHER", "VALID"} \cup (OverLimitCodes \ {"TOO_MANY_MACHINES"})

(* Mutated: the search is not restricted to the license. *)
FoundAnywhere(req) == {r \in rows : r.fingerprint \in Hits[req.fingerprint]}

(* GET /machines?filter[q]=..&filter[license]=..&page[number]=p: rows in a   *)
(* fixed order, cut into pages by position at the moment of the request.    *)
Found(req) == {r \in RowsOf(req.license) : r.fingerprint \in Hits[req.fingerprint]}

Upto(r, S) == {s \in S : \/ Rank[s.by] < Rank[r.by]
                         \/ s.by = r.by /\ s.nth <= r.nth}

Page(req, p) == {r \in Found(req) :
                   LET k == Cardinality(Upto(r, Found(req)))
                   IN  (p - 1) * PageSize < k /\ k <= p * PageSize}

(* The page that page[number]=p is answered with.  A number that is inert, as  *)
(* a cursor of another route once was, brings an earlier one again.          *)
Answering(p) == IF HonestPages THEN {p} ELSE 1..p

HasNextPage(req, p) ==
  IF HonestPages THEN {p * PageSize < Cardinality(Found(req))} ELSE BOOLEAN

-----------------------------------------------------------------------------
(* The SDK. *)

Finish(c, how, r) ==
  call' = [call EXCEPT ![c] =
             [@ EXCEPT !.pc = "idle", !.out = how, !.row = r, !.idem = FALSE, !.page = 0]]

(* Mutated: the id of the machine being worked on is not kept. *)
GotoBare(c, where, r) == call' = [call EXCEPT ![c].pc = where]

Goto(c, where, r) == call' = [call EXCEPT ![c] = [@ EXCEPT !.pc = where, !.row = r]]

(* The application calls activate_machine(l, f) or ..._idempotent(l, f). *)
Activate(c, l, f, idem) ==
  /\ call[c].pc = "idle"
  /\ call[c].nth < MaxCalls
  /\ LET n == call[c].nth + 1
     IN  call' = [call EXCEPT ![c] =
           [NoCall EXCEPT !.pc = "create", !.nth = n, !.idem = idem,
                          !.req = [by |-> c, nth |-> n, license |-> l, fingerprint |-> f]]]
  /\ UNCHANGED <<rows, late>>

(* POST /machines -> 201. *)
Created(c) ==
  /\ call[c].pc = "create"
  /\ Clash(call[c].req) = {} /\ Room(call[c].req)
  /\ rows' = rows \cup {call[c].req}
  /\ Goto(c, "validate", call[c].req)
  /\ UNCHANGED late

(* POST /machines -> 422 with a limit code: no row, and no DELETE.  The limit  *)
(* may be on cores, memory or disk, so there may be room for the machine.    *)
LimitRefused(c) ==
  /\ call[c].pc = "create"
  /\ Clash(call[c].req) = {}
  /\ Finish(c, "refused", NoRow)
  /\ UNCHANGED <<rows, late>>

(* POST /machines -> 409 in plain activate_machine. *)
TakenPlain(c) ==
  /\ call[c].pc = "create" /\ ~call[c].idem
  /\ Clash(call[c].req) # {}
  /\ Finish(c, "taken", NoRow)
  /\ UNCHANGED <<rows, late>>

(* Mutated: the machine a 409 names is not looked at. *)
TakenSearches(c) ==
  /\ call[c].pc = "create" /\ call[c].idem
  /\ Clash(call[c].req) # {}
  /\ call' = [call EXCEPT ![c] =
                [@ EXCEPT !.pc = "search", !.page = 1,
                          !.mine = Clash(call[c].req) \cap RowsOf(call[c].req.license)]]
  /\ UNCHANGED <<rows, late>>

(* POST /machines -> 409 in the idempotent variant: _resolve_taken_fingerprint *)
(* reads the named machine, or goes straight to the search.                    *)
TakenRecover(c) ==
  /\ call[c].pc = "create" /\ call[c].idem
  /\ Clash(call[c].req) # {}
  /\ \E m \in Named(call[c].req) :
       call' = [call EXCEPT ![c] =
                  [@ EXCEPT !.pc = IF m = NoRow THEN "search" ELSE "get",
                            !.row = m,
                            !.page = 1,
                            !.mine = Clash(call[c].req) \cap RowsOf(call[c].req.license)]]
  /\ UNCHANGED <<rows, late>>

(* POST validate: a limit code sends the call to the rollback, every other  *)
(* verdict, VALID or not, returns the machine.                              *)
Validate(c) ==
  /\ call[c].pc = "validate"
  /\ \E v \in Verdicts(call[c].req.license) :
       IF v \in OverLimitCodes THEN Goto(c, "rollback", call[c].row)
                               ELSE Finish(c, "machine", call[c].row)
  /\ UNCHANGED <<rows, late>>

(* Mutated: the over-limit error is raised without the DELETE. *)
RollbackForgotten(c) ==
  /\ call[c].pc = "rollback"
  /\ Finish(c, "rolled_back", NoRow)
  /\ UNCHANGED <<rows, late>>

(* DELETE /machines/{id}: a row that is already gone is a NotFoundError,    *)
(* which the call does not catch.                                           *)
Rollback(c) ==
  /\ call[c].pc = "rollback"
  /\ rows' = rows \ {call[c].row}
  /\ IF call[c].row \in rows THEN Finish(c, "rolled_back", NoRow)
                             ELSE Finish(c, "error", NoRow)
  /\ UNCHANGED late

(* Mutated: the recovery path validates, and so may roll back. *)
GetNamedValidates(c) ==
  /\ call[c].pc = "get"
  /\ LET m == call[c].row
     IN  IF m \in rows /\ m.fingerprint = call[c].req.fingerprint
         THEN Goto(c, "validate", m)
         ELSE Goto(c, "search", NoRow)
  /\ UNCHANGED <<rows, late>>

(* Mutated: meta.machineId is believed without the GET. *)
GetNamedBlind(c) ==
  /\ call[c].pc = "get"
  /\ Finish(c, "machine", call[c].row)
  /\ UNCHANGED <<rows, late>>

(* GET /machines/{id}: account-scoped, so only the fingerprint is compared. *)
GetNamed(c) ==
  /\ call[c].pc = "get"
  /\ LET m == call[c].row
     IN  IF m \in rows /\ m.fingerprint = call[c].req.fingerprint
         THEN Finish(c, "machine", m)
         ELSE Goto(c, "search", NoRow)
  /\ UNCHANGED <<rows, late>>

(* find_by_fingerprint: ValueError for a blank fingerprint, before any request. *)
SearchBlank(c) ==
  /\ call[c].pc = "search" /\ call[c].req.fingerprint \in Blank
  /\ Finish(c, "error", NoRow)
  /\ UNCHANGED <<rows, late>>

(* The exact matches on page q of the server. *)
Matches(c, q) ==
  {r \in Page(call[c].req, q) : r.fingerprint = call[c].req.fingerprint}

(* One turn of its loop: an exact match ends the search ... *)
SearchFound(c) ==
  /\ call[c].pc = "search" /\ call[c].req.fingerprint \notin Blank
  /\ \E q \in Answering(call[c].page) :
       \E r \in Matches(c, q) : Finish(c, "machine", r)
  /\ UNCHANGED <<rows, late>>

(* ... an empty page, the last page or the page bound re-raises the 409 ... *)
SearchOver(c) ==
  /\ call[c].pc = "search" /\ call[c].req.fingerprint \notin Blank
  /\ \E q \in Answering(call[c].page) :
       /\ Matches(c, q) = {}
       /\ \/ Page(call[c].req, q) = {}
          \/ FALSE \in HasNextPage(call[c].req, q)
          \/ call[c].page >= MaxPages
  /\ Finish(c, "taken", NoRow)
  /\ UNCHANGED <<rows, late>>

(* Mutated: the page asked for next is the one after page_number of the      *)
(* answer, whatever the server says that was, and the bound is on that.      *)
SearchOnAsTold(c) ==
  /\ call[c].pc = "search" /\ call[c].req.fingerprint \notin Blank
  /\ \E q \in Answering(call[c].page) :
       /\ Matches(c, q) = {}
       /\ Page(call[c].req, q) # {}
       /\ TRUE \in HasNextPage(call[c].req, q)
  /\ \E n \in 0..call[c].page :
       n < MaxPages /\ call' = [call EXCEPT ![c].page = n + 1]
  /\ UNCHANGED <<rows, late>>

(* ... and otherwise the next page is asked for. *)
SearchOn(c) ==
  /\ call[c].pc = "search" /\ call[c].req.fingerprint \notin Blank
  /\ \E q \in Answering(call[c].page) :
       /\ Matches(c, q) = {}
       /\ Page(call[c].req, q) # {}
       /\ TRUE \in HasNextPage(call[c].req, q)
  /\ call[c].page < MaxPages
  /\ call' = [call EXCEPT ![c].page = @ + 1]
  /\ UNCHANGED <<rows, late>>

(* Any request may end in another exception (5xx, 403, 429 after the retries, *)
(* timeout, reset), or the application may die: nothing catches it and nothing *)
(* is undone.  The request itself may have been refused, or be carried out    *)
(* later; only a create or a delete would still matter then.                  *)
Pending(c) ==
  IF call[c].pc = "create" THEN {[op |-> "create", row |-> call[c].req]}
  ELSE IF call[c].pc = "rollback" THEN {[op |-> "delete", row |-> call[c].row]}
  ELSE {}

(* Mutated: a DELETE that failed is ignored and the machine returned. *)
GiveUpReturns(c) ==
  /\ call[c].pc # "idle"
  /\ late' \in {late, late \cup Pending(c)}
  /\ IF call[c].pc = "rollback" THEN Finish(c, "machine", call[c].row)
                                ELSE Finish(c, "error", NoRow)
  /\ UNCHANGED rows

(* Mutated: POST /machines is on the list of POSTs to retry. *)
GiveUpRetries(c) ==
  /\ call[c].pc # "idle"
  /\ late' \in {late, late \cup Pending(c)}
  /\ IF call[c].pc = "create" THEN Goto(c, "create", call[c].row)
                              ELSE Finish(c, "error", NoRow)
  /\ UNCHANGED rows

GiveUp(c) ==
  /\ call[c].pc # "idle"
  /\ late' \in {late, late \cup Pending(c)}
  /\ Finish(c, "error", NoRow)
  /\ UNCHANGED rows

SDKStep(c) ==
  \/ Created(c) \/ LimitRefused(c) \/ TakenPlain(c) \/ TakenRecover(c)
  \/ Validate(c) \/ Rollback(c)
  \/ GetNamed(c)
  \/ SearchBlank(c) \/ SearchFound(c) \/ SearchOver(c) \/ SearchOn(c)
  \/ GiveUp(c)

-----------------------------------------------------------------------------
(* The environment. *)

(* A request nobody waits for any more reaches the server. *)
LateCreate(q) ==
  /\ q.op = "create"
  /\ Clash(q.row) = {} /\ Room(q.row)
  /\ rows' = rows \cup {q.row}
  /\ late' = late \ {q}
  /\ UNCHANGED call

LateDelete(q) ==
  /\ q.op = "delete"
  /\ rows' = rows \ {q.row}
  /\ late' = late \ {q}
  /\ UNCHANGED call

(* MachinesClient.delete by an application, an operator, or the culling of a *)
(* machine that stopped its heartbeat.                                       *)
Remove(r) ==
  /\ rows' = rows \ {r}
  /\ UNCHANGED <<late, call>>

Next ==
  \/ \E c \in Client : SDKStep(c)
  \/ \E c \in Client, l \in License, f \in Fingerprint, idem \in BOOLEAN :
       Activate(c, l, f, idem)
  \/ \E q \in late : LateCreate(q) \/ LateDelete(q)
  \/ \E r \in rows : Remove(r)

Spec == Init /\ [][Next]_vars

(* Each request of a running call is answered or times out (httpx has a      *)
(* timeout), so a call keeps stepping.  Applications and the environment owe  *)
(* nothing.                                                                  *)
FairSpec == Spec /\ \A c \in Client : WF_vars(SDKStep(c))

-----------------------------------------------------------------------------
(* Properties. *)

(* activate_machine and activate_machine_idempotent return a machine of the *)
(* license and the fingerprint they were called with: never another license's *)
(* machine behind a 409 of a wider uniqueness scope, never a search hit that   *)
(* only contains the fingerprint, whatever other calls did in between.         *)
ReturnedIsOwn ==
  \A c \in Client : call[c].out = "machine" =>
    /\ call[c].row.license = call[c].req.license
    /\ call[c].row.fingerprint = call[c].req.fingerprint

(* The half of it that does not rest on the server's word: even a 409 naming  *)
(* an arbitrary machine never makes a call return another fingerprint's.      *)
ReturnedFingerprint ==
  \A c \in Client : call[c].out = "machine" =>
    call[c].row.fingerprint = call[c].req.fingerprint

(* MachineOverLimitError, with either value of rolled_back, and               *)
(* FingerprintTakenError tell the truth about the seat: the call left no row, *)
(* and no request that could still make one.                                  *)
RefusalLeavesNoSeat ==
  \A c \in Client : call[c].out \in {"refused", "rolled_back", "taken"} =>
    /\ call[c].req \notin rows
    /\ [op |-> "create", row |-> call[c].req] \notin late

(* A machine returned by the call that created it is nobody's to roll back:   *)
(* no running rollback and no stray DELETE names it.                          *)
FreshSeatIsSafe ==
  \A c \in Client : call[c].out = "machine" /\ call[c].row = call[c].req =>
    /\ \A d \in Client : ~(call[d].pc = "rollback" /\ call[d].row = call[c].req)
    /\ [op |-> "delete", row |-> call[c].req] \notin late

(* A call deletes no machine but the one it created itself: the recovery path *)
(* never destroys a seat that was there before.                               *)
RollbackOnlyOwn ==
  [][\A c \in Client : call'[c] # call[c] => rows \ rows' \subseteq {call[c].req}]_vars

(* A genuine re-activation is recoverable: activate_machine_idempotent raises *)
(* FingerprintTakenError only if no machine of this license and fingerprint   *)
(* that was behind the 409 is still there.                                    *)
ReactivationRecovers ==
  \A c \in Client : call[c].out = "taken" => call[c].mine \cap rows = {}

(* Every call ends, even against page metadata that always promises more and   *)
(* page numbers that are inert.                                              *)
CallsEnd == \A c \in Client : call[c].pc # "idle" ~> call[c].pc = "idle"

(* The inductive strengthening behind the safety properties. *)

(* A call works on the row it asked for until the row is created, and asks  *)
(* under its own name and number.                                           *)
CallShape ==
  \A c \in Client :
    LET k == call[c]
    IN  /\ k.nth = 0 => k.pc = "idle" /\ k.out = "none" /\ k.req = NoRow
        /\ k.nth > 0 => k.req \in Row /\ k.req.by = c /\ k.req.nth = k.nth
        /\ k.pc = "idle" /\ k.nth > 0 <=> k.out # "none"
        /\ k.pc \in {"validate", "rollback"} => k.row = k.req
        /\ k.pc = "get" => /\ k.row \in Row
                           /\ Naming # "any" => k.row.license = k.req.license

(* Rows and stray requests come from calls that were made; a stray request   *)
(* of a client's current call means that this call failed.                   *)
Provenance ==
  /\ \A r \in rows : r.nth <= call[r.by].nth
  /\ \A q \in late :
       /\ q.row.nth <= call[q.row.by].nth
       /\ q.row.nth = call[q.row.by].nth => call[q.row.by].out = "error"

(* A call that has not created its row, or says it left none, has none.      *)
NoSeatYet ==
  \A c \in Client :
    \/ call[c].pc \in {"create", "get", "search"}
    \/ call[c].out \in {"refused", "rolled_back", "taken"}
    => call[c].req \notin rows

IInv == TypeOK /\ CallShape /\ Provenance /\ NoSeatYet

(* The calls implement the ledger of seats. *)
Status(c) ==
  IF call[c].pc \in {"create", "get", "search"}  THEN "open"
  ELSE IF call[c].pc \in {"validate", "rollback"} THEN "held"
  ELSE IF call[c].out = "none"    THEN "idle"
  ELSE IF call[c].out = "machine" THEN "machine"
  ELSE IF call[c].out = "error"   THEN "failed"
  ELSE "refused"

Given(c) == IF call[c].out = "machine" THEN call[c].row ELSE NoRow

Ledger == INSTANCE SeatLedger WITH
  seats  <- rows,
  loose  <- late,
  ask    <- [c \in Client |-> call[c].req],
  status <- [c \in Client |-> Status(c)],
  given  <- [c \in Client |-> Given(c)]

ImplementsLedger == Ledger!Spec
=============================================================================
