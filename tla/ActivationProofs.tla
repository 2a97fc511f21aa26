-------------------------- MODULE ActivationProofs --------------------------
(***************************************************************************)
(* Proofs of the safety properties of Activation, for any number of        *)
(* clients, licenses, fingerprints and calls, and any limits, uniqueness    *)
(* scopes, search results and page sizes.                                  *)
(*                                                                         *)
(* IInv is inductive: Section 1 says what each way of updating call[c]     *)
(* does, Section 2 that every step keeps each conjunct of IInv, Section 3  *)
(* draws the properties from it, Section 4 that the calls implement        *)
(* SeatLedger, Section 5 that a re-activation finds its machine, and       *)
(* Section 6 that a refusal and a removal are final.                       *)
(***************************************************************************)
EXTENDS Activation, TLAPS

-----------------------------------------------------------------------------
(* Section 1: the effect of a step on call[c]. *)

(* Finish ends the call of c and touches no other call.                       *)
LEMMA FinishEffect ==
  ASSUME TypeOK, NEW c \in Client, NEW how \in Outcome, NEW r \in Row \cup {NoRow},
         Finish(c, how, r)
  PROVE  /\ call' \in [Client -> Call]
         /\ \A d \in Client \ {c} : call'[d] = call[d]
         /\ call'[c].pc = "idle" /\ call'[c].nth = call[c].nth
         /\ call'[c].req = call[c].req /\ call'[c].row = r
         /\ call'[c].out = how
<1>1. call[c] \in Call BY DEF TypeOK
<1>2. PICK k : k = [call[c] EXCEPT !.pc = "idle", !.out = how, !.row = r,
                                   !.idem = FALSE, !.page = 0]
  OBVIOUS
<1>3. k \in Call /\ k.pc = "idle" /\ k.nth = call[c].nth /\ k.req = call[c].req
      /\ k.row = r /\ k.out = how
  BY <1>1, <1>2 DEF Call, Outcome
<1>4. call' = [call EXCEPT ![c] = k]
  BY <1>2 DEF Finish
<1>5. QED BY <1>3, <1>4 DEF TypeOK

(* Goto moves the call of c to its next request and touches no other call.    *)
LEMMA GotoEffect ==
  ASSUME TypeOK, NEW c \in Client, NEW r \in Row \cup {NoRow},
         NEW where \in {"validate", "rollback", "search"},
         Goto(c, where, r)
  PROVE  /\ call' \in [Client -> Call]
         /\ \A d \in Client \ {c} : call'[d] = call[d]
         /\ call'[c].pc = where /\ call'[c].nth = call[c].nth
         /\ call'[c].req = call[c].req /\ call'[c].row = r
         /\ call'[c].out = call[c].out
<1>1. call[c] \in Call BY DEF TypeOK
<1>2. PICK k : k = [call[c] EXCEPT !.pc = where, !.row = r]
  OBVIOUS
<1>3. k \in Call /\ k.pc = where /\ k.nth = call[c].nth /\ k.req = call[c].req
      /\ k.row = r /\ k.out = call[c].out
  BY <1>1, <1>2 DEF Call
<1>4. call' = [call EXCEPT ![c] = k]
  BY <1>2 DEF Goto
<1>5. QED BY <1>3, <1>4 DEF TypeOK

(* Activate begins a call with the next number.                               *)
LEMMA ActivateEffect ==
  ASSUME TypeOK, NEW c \in Client, NEW l \in License, NEW f \in Fingerprint,
         NEW idem \in BOOLEAN, Activate(c, l, f, idem)
  PROVE  /\ call' \in [Client -> Call]
         /\ \A d \in Client \ {c} : call'[d] = call[d]
         /\ call'[c].pc = "create" /\ call'[c].nth = call[c].nth + 1
         /\ call'[c].req \in Row
         /\ call'[c].req.by = c /\ call'[c].req.nth = call[c].nth + 1
         /\ call'[c].out = "none"
<1>1. call[c].nth \in Nat BY DEF TypeOK, Call
<1>2. PICK n : n = call[c].nth + 1 OBVIOUS
<1>3. PICK q : q = [by |-> c, nth |-> n, license |-> l, fingerprint |-> f] OBVIOUS
<1>4. q \in Row /\ q.by = c /\ q.nth = n BY <1>1, <1>2, <1>3 DEF Row
<1>5. PICK k : k = [NoCall EXCEPT !.pc = "create", !.nth = n, !.idem = idem, !.req = q]
  OBVIOUS
<1>6. k \in Call /\ k.pc = "create" /\ k.nth = n /\ k.req = q /\ k.out = "none"
  <2>1. NoCall \in Call /\ NoCall.out = "none"
    BY DEF NoCall, Call, Outcome
  <2>2. n \in Nat
    BY <1>1, <1>2
  <2>3. QED BY <1>4, <1>5, <2>1, <2>2 DEF Call
<1>7. call' = [call EXCEPT ![c] = k]
  BY <1>2, <1>3, <1>5 DEF Activate
<1>8. QED BY <1>2, <1>4, <1>6, <1>7 DEF TypeOK

(* After a 409 the call reads the machine it names, or searches for one.      *)
LEMMA TakenRecoverEffect ==
  ASSUME TypeOK, NEW c \in Client, TakenRecover(c)
  PROVE  /\ call' \in [Client -> Call]
         /\ \A d \in Client \ {c} : call'[d] = call[d]
         /\ call'[c].pc \in {"get", "search"} /\ call'[c].nth = call[c].nth
         /\ call'[c].req = call[c].req /\ call'[c].out = call[c].out
         /\ call'[c].row \in Row \cup {NoRow}
         /\ call'[c].pc = "get" => /\ call'[c].row \in Row
                                   /\ Naming # "any" =>
                                        call'[c].row.license = call[c].req.license
<1>1. call[c] \in Call /\ rows \subseteq Row BY DEF TypeOK
<1>2. PICK m \in Named(call[c].req) :
        call' = [call EXCEPT ![c] =
                  [@ EXCEPT !.pc = IF m = NoRow THEN "search" ELSE "get",
                            !.row = m,
                            !.page = 1,
                            !.mine = Clash(call[c].req) \cap RowsOf(call[c].req.license)]]
  BY DEF TakenRecover
<1>3. m \in Row \cup {NoRow}
      /\ (m # NoRow /\ Naming # "any" => m.license = call[c].req.license)
  BY <1>1, ServerAssumption DEF Named, Clash
<1>4. PICK g : g = Clash(call[c].req) \cap RowsOf(call[c].req.license) OBVIOUS
<1>5. g \in SUBSET Row BY <1>1, <1>4 DEF Clash, RowsOf
<1>6. PICK k : k = [call[c] EXCEPT !.pc = IF m = NoRow THEN "search" ELSE "get",
                                   !.row = m, !.page = 1, !.mine = g]
  OBVIOUS
<1>7. k \in Call /\ k.pc = (IF m = NoRow THEN "search" ELSE "get")
      /\ k.nth = call[c].nth /\ k.req = call[c].req /\ k.row = m
      /\ k.out = call[c].out
  BY <1>1, <1>3, <1>5, <1>6 DEF Call
<1>8. call' = [call EXCEPT ![c] = k]
  BY <1>2, <1>4, <1>6
<1>9. QED BY <1>3, <1>7, <1>8 DEF TypeOK

(* SearchOn asks for the next page and changes nothing else.                  *)
LEMMA SearchOnEffect ==
  ASSUME TypeOK, NEW c \in Client, SearchOn(c)
  PROVE  /\ call' \in [Client -> Call]
         /\ \A d \in Client \ {c} : call'[d] = call[d]
         /\ call'[c].pc = "search" /\ call'[c].nth = call[c].nth
         /\ call'[c].req = call[c].req /\ call'[c].out = call[c].out
<1>1. call[c] \in Call BY DEF TypeOK
<1>2. PICK k : k = [call[c] EXCEPT !.page = @ + 1] OBVIOUS
<1>3. k \in Call /\ k.pc = call[c].pc /\ k.nth = call[c].nth
      /\ k.req = call[c].req /\ k.out = call[c].out
  BY <1>1, <1>2 DEF Call
<1>4. call' = [call EXCEPT ![c] = k]
  BY <1>2 DEF SearchOn
<1>5. QED BY <1>3, <1>4 DEF TypeOK, SearchOn

-----------------------------------------------------------------------------
(* Section 2: IInv is inductive. *)

(* Without calls and rows there is nothing to violate.                        *)
LEMMA InitInv == Init => IInv
BY ServerAssumption
DEF Init, IInv, TypeOK, CallShape, Provenance, NoSeatYet, NoCall, Call, Outcome

(* A client's step on its running call, whatever the request was: the call   *)
(* keeps its own row in order, touches at most that row, and leaves a request *)
(* behind only when it fails.                                                *)
CallStep(c) ==
  /\ call[c].pc # "idle"
  /\ call' \in [Client -> Call]
  /\ \A d \in Client \ {c} : call'[d] = call[d]
  /\ call'[c].nth = call[c].nth /\ call'[c].req = call[c].req
  /\ call'[c].pc = "idle" <=> call'[c].out # "none"
  /\ call'[c].pc \in {"validate", "rollback"} => call'[c].row = call[c].req
  /\ call'[c].pc = "get" => /\ call'[c].row \in Row
                            /\ Naming # "any" =>
                                 call'[c].row.license = call[c].req.license
  /\ rows' \subseteq rows \cup {call[c].req}
  /\ \/ call'[c].pc \in {"create", "get", "search"}
     \/ call'[c].out \in {"refused", "rolled_back", "taken"}
     => call[c].req \notin rows'
  /\ late' \subseteq late \cup Pending(c)
  /\ call'[c].out # "error" => late' = late

(* What a CallStep keeps is all that the invariant needs.                     *)
LEMMA CallStepInv == ASSUME IInv, NEW c \in Client, CallStep(c) PROVE IInv'
<1>1. /\ call[c] \in Call /\ call[c].nth > 0
      /\ call[c].req \in Row /\ call[c].req.by = c /\ call[c].req.nth = call[c].nth
  <2>1. call[c] \in Call /\ call[c].nth \in Nat
    BY DEF IInv, TypeOK, Call
  <2>2. QED BY <2>1 DEF IInv, CallShape, CallStep
<1>2. Pending(c) \subseteq [op : {"create", "delete"}, row : {call[c].req}]
  BY DEF Pending, IInv, CallShape
<1>3. TypeOK'
  <2>1. late' \subseteq [op : {"create", "delete"}, row : Row]
    BY <1>1, <1>2 DEF IInv, TypeOK, CallStep
  <2>2. QED BY <1>1, <2>1 DEF IInv, TypeOK, CallStep
<1>4. CallShape'
  <2>1. SUFFICES ASSUME NEW d \in Client
                 PROVE  CallShape!(d)'
    BY DEF CallShape
  <2>2. CASE d # c
    BY <2>2 DEF IInv, CallShape, CallStep
  <2>3. CASE d = c
    BY <2>3, <1>1 DEF CallStep
  <2>4. QED BY <2>2, <2>3
<1>5. \A d \in Client : call'[d].nth = call[d].nth
  BY DEF CallStep
<1>6. Provenance'
  <2>1. \A r \in rows' : r.nth <= call'[r.by].nth
    <3>1. SUFFICES ASSUME NEW r \in rows' PROVE r.nth <= call'[r.by].nth
      OBVIOUS
    <3>2. CASE r \in rows
      BY <3>2, <1>5 DEF IInv, TypeOK, Row, Provenance
    <3>3. CASE r = call[c].req
      <4>1. call[c].nth \in Nat BY <1>1 DEF Call
      <4>2. QED BY <3>3, <1>1, <1>5, <4>1
    <3>4. QED BY <3>2, <3>3 DEF CallStep
  <2>2. ASSUME NEW q \in late'
        PROVE  /\ q.row.nth <= call'[q.row.by].nth
               /\ q.row.nth = call'[q.row.by].nth => call'[q.row.by].out = "error"
    <3>1. CASE q \in late
      <4>1. q.row \in Row /\ q.row.by \in Client
        BY <3>1 DEF IInv, TypeOK, Row
      <4>2. CASE q.row.by # c
        BY <3>1, <4>1, <4>2, <1>5 DEF IInv, Provenance, CallStep
      <4>3. CASE q.row.by = c
        <5>1. call[c].out = "none"
          BY <1>1 DEF IInv, CallShape, CallStep
        <5>2. q.row.nth # call[c].nth
          BY <3>1, <4>3, <5>1 DEF IInv, Provenance
        <5>3. QED BY <3>1, <4>3, <5>2, <1>5 DEF IInv, Provenance
      <4>4. QED BY <4>2, <4>3
    <3>2. CASE q \in Pending(c) /\ q \notin late
      <4>1. q.row = call[c].req BY <3>2, <1>2
      <4>2. call'[c].out = "error" BY <3>2 DEF CallStep
      <4>3. call[c].nth \in Nat BY <1>1 DEF Call
      <4>4. QED BY <1>1, <1>5, <4>1, <4>2, <4>3
    <3>3. QED BY <3>1, <3>2 DEF CallStep
  <2>3. QED BY <2>1, <2>2 DEF Provenance
<1>7. NoSeatYet'
  <2>1. SUFFICES ASSUME NEW d \in Client,
                        \/ call'[d].pc \in {"create", "get", "search"}
                        \/ call'[d].out \in {"refused", "rolled_back", "taken"}
                 PROVE  call'[d].req \notin rows'
    BY DEF NoSeatYet
  <2>2. CASE d = c
    BY <2>1, <2>2 DEF CallStep
  <2>3. CASE d # c
    <3>1. call[d].req \notin rows
      BY <2>1, <2>3 DEF IInv, NoSeatYet, CallStep
    <3>2. call[d].req # call[c].req
      <4>1. call[d].pc # "idle" \/ call[d].out # "none"
        BY <2>1, <2>3 DEF CallStep
      <4>2. call[d].nth # 0
        BY <4>1 DEF IInv, CallShape
      <4>3. call[d].nth > 0
        BY <4>2 DEF IInv, TypeOK, Call
      <4>4. QED BY <1>1, <2>3, <4>3 DEF IInv, CallShape
    <3>3. QED BY <2>3, <3>1, <3>2 DEF CallStep
  <2>4. QED BY <2>2, <2>3
<1>8. QED BY <1>3, <1>4, <1>6, <1>7 DEF IInv

(* An ending that leaves no more than the call's own request behind is a CallStep.*)
LEMMA FinishStep ==
  ASSUME IInv, NEW c \in Client, NEW how \in Outcome \ {"none"},
         NEW r \in Row \cup {NoRow}, call[c].pc # "idle", Finish(c, how, r),
         rows' \subseteq rows \cup {call[c].req},
         how \in {"refused", "rolled_back", "taken"} => call[c].req \notin rows',
         late' \subseteq late \cup Pending(c),
         how # "error" => late' = late
  PROVE  CallStep(c)
BY FinishEffect DEF IInv, CallStep

(* So is going on to the next request with the row it is about.               *)
LEMMA GotoStep ==
  ASSUME IInv, NEW c \in Client, NEW where \in {"validate", "rollback", "search"},
         NEW r \in Row \cup {NoRow}, call[c].pc # "idle", Goto(c, where, r),
         rows' \subseteq rows \cup {call[c].req}, late' = late,
         where = "search" => call[c].req \notin rows',
         where # "search" => r = call[c].req
  PROVE  CallStep(c)
<1>1. call[c].out = "none" BY DEF IInv, CallShape
<1>2. QED BY <1>1, GotoEffect DEF IInv, CallStep

(* Every request of a call is such a step. *)
LEMMA SDKStepIsCallStep ==
  ASSUME IInv, NEW c \in Client, SDKStep(c) PROVE CallStep(c)
<1>1. /\ call[c].pc # "idle" => call[c].req \in Row /\ call[c].out = "none"
      /\ call[c].pc \in {"validate", "rollback"} => call[c].row = call[c].req
      /\ call[c].pc \in {"create", "get", "search"} => call[c].req \notin rows
      /\ call[c].row \in Row \cup {NoRow} /\ rows \subseteq Row
  <2>1. call[c] \in Call /\ call[c].nth \in Nat
    BY DEF IInv, TypeOK, Call
  <2>2. QED BY <2>1 DEF IInv, TypeOK, Call, CallShape, NoSeatYet
<1> USE DEF Outcome
<1>2. CASE Created(c)
  BY <1>1, <1>2, GotoStep DEF Created
<1>3. CASE LimitRefused(c)
  BY <1>1, <1>3, FinishStep DEF LimitRefused
<1>4. CASE TakenPlain(c)
  BY <1>1, <1>4, FinishStep DEF TakenPlain
<1>5. CASE TakenRecover(c)
  <2>1. /\ call[c].pc = "create" /\ rows' = rows /\ late' = late
    BY <1>5 DEF TakenRecover
  <2>2. QED BY <1>1, <1>5, <2>1, TakenRecoverEffect DEF IInv, CallStep
<1>6. CASE Validate(c)
  <2>1. CASE Goto(c, "rollback", call[c].row)
    BY <1>1, <1>6, <2>1, GotoStep DEF Validate
  <2>2. CASE Finish(c, "machine", call[c].row)
    BY <1>1, <1>6, <2>2, FinishStep DEF Validate
  <2>3. QED BY <1>6, <2>1, <2>2 DEF Validate
<1>7. CASE Rollback(c)
  <2>1. /\ call[c].pc = "rollback" /\ call[c].row = call[c].req
        /\ rows' = rows \ {call[c].req} /\ late' = late
    BY <1>1, <1>7 DEF Rollback
  <2>2. CASE Finish(c, "rolled_back", NoRow)
    BY <2>1, <2>2, FinishStep
  <2>3. CASE Finish(c, "error", NoRow)
    BY <2>1, <2>3, FinishStep
  <2>4. QED BY <1>7, <2>2, <2>3 DEF Rollback
<1>8. CASE GetNamed(c)
  <2>1. call[c].pc = "get" /\ rows' = rows /\ late' = late
    BY <1>8 DEF GetNamed
  <2>2. CASE Finish(c, "machine", call[c].row)
    BY <1>1, <2>1, <2>2, FinishStep
  <2>3. CASE Goto(c, "search", NoRow)
    BY <1>1, <2>1, <2>3, GotoStep
  <2>4. QED BY <1>8, <2>2, <2>3 DEF GetNamed
<1>9. CASE SearchBlank(c)
  BY <1>1, <1>9, FinishStep DEF SearchBlank
<1>10. CASE SearchFound(c)
  <2>1. PICK q \in Answering(call[c].page) : \E r \in Matches(c, q) : Finish(c, "machine", r)
    BY <1>10 DEF SearchFound
  <2>2. PICK r \in Matches(c, q) : Finish(c, "machine", r)
    BY <2>1
  <2>3. r \in Row
    BY <1>1, <2>2 DEF Matches, Page, Found, RowsOf
  <2>4. QED BY <1>1, <1>10, <2>2, <2>3, FinishStep DEF SearchFound
<1>11. CASE SearchOver(c)
  BY <1>1, <1>11, FinishStep DEF SearchOver
<1>12. CASE SearchOn(c)
  <2>1. call[c].pc = "search" /\ rows' = rows /\ late' = late
    BY <1>12 DEF SearchOn
  <2>2. QED BY <1>1, <1>12, <2>1, SearchOnEffect DEF IInv, CallStep
<1>13. CASE GiveUp(c)
  <2>1. /\ call[c].pc # "idle" /\ rows' = rows
        /\ late' \subseteq late \cup Pending(c) /\ Finish(c, "error", NoRow)
    BY <1>13 DEF GiveUp
  <2>2. QED BY <2>1, FinishStep
<1>14. QED
  BY <1>2, <1>3, <1>4, <1>5, <1>6, <1>7, <1>8, <1>9, <1>10, <1>11, <1>12, <1>13
  DEF SDKStep

(* A new call keeps the invariant, as its number was not used before.         *)
LEMMA ActivateInv ==
  ASSUME IInv, NEW c \in Client, NEW l \in License, NEW f \in Fingerprint,
         NEW idem \in BOOLEAN, Activate(c, l, f, idem)
  PROVE  IInv'
<1>1. /\ call' \in [Client -> Call]
      /\ \A d \in Client \ {c} : call'[d] = call[d]
      /\ call'[c].pc = "create" /\ call'[c].nth = call[c].nth + 1
      /\ call'[c].req \in Row
      /\ call'[c].req.by = c /\ call'[c].req.nth = call[c].nth + 1
      /\ call'[c].out = "none"
  BY ActivateEffect DEF IInv
<1>2. rows' = rows /\ late' = late
  BY DEF Activate
<1>3. call[c].nth \in Nat
  BY DEF IInv, TypeOK, Call
<1>4. TypeOK'
  BY <1>1, <1>2 DEF IInv, TypeOK
<1>5. CallShape'
  BY <1>1, <1>3 DEF IInv, CallShape
<1>6. Provenance'
  <2>1. \A r \in rows : r.nth <= call'[r.by].nth
    <3>1. \A r \in rows : r \in Row /\ r.by \in Client /\ r.nth \in Nat
      BY DEF IInv, TypeOK, Row
    <3>2. QED BY <1>1, <1>3, <3>1 DEF IInv, Provenance
  <2>2. ASSUME NEW q \in late
        PROVE  /\ q.row.nth <= call'[q.row.by].nth
               /\ q.row.nth = call'[q.row.by].nth => call'[q.row.by].out = "error"
    <3>1. q.row \in Row /\ q.row.by \in Client /\ q.row.nth \in Nat
      BY <2>2 DEF IInv, TypeOK, Row
    <3>2. QED BY <2>2, <1>1, <1>3, <3>1 DEF IInv, Provenance
  <2>3. QED BY <1>2, <2>1, <2>2 DEF Provenance
<1>7. NoSeatYet'
  <2>1. call'[c].req \notin rows
    <3>1. SUFFICES ASSUME call'[c].req \in rows PROVE FALSE
      OBVIOUS
    <3>2. call'[c].req.nth <= call[c].nth
      BY <1>1, <3>1 DEF IInv, Provenance
    <3>3. QED BY <1>1, <1>3, <3>2
  <2>2. QED BY <1>1, <1>2, <2>1 DEF IInv, NoSeatYet
<1>8. QED BY <1>4, <1>5, <1>6, <1>7 DEF IInv

(* Steps that are not a client's only take rows away, or carry out the create *)
(* of a call that failed.                                                    *)
LEMMA EnvironmentInv ==
  ASSUME IInv, call' = call, late' \subseteq late,
         \/ rows' \subseteq rows
         \/ \E q \in late : q.op = "create" /\ rows' = rows \cup {q.row}
  PROVE  IInv'
<1>1. TypeOK' /\ CallShape'
  BY DEF IInv, TypeOK, CallShape
<1>2. Provenance'
  BY DEF IInv, Provenance
<1>3. NoSeatYet'
  <2>1. SUFFICES ASSUME NEW c \in Client,
                        \/ call[c].pc \in {"create", "get", "search"}
                        \/ call[c].out \in {"refused", "rolled_back", "taken"}
                 PROVE  call[c].req \notin rows'
    BY DEF NoSeatYet
  <2>2. call[c].req \notin rows
    BY <2>1 DEF IInv, NoSeatYet
  <2>3. ASSUME NEW q \in late PROVE q.row # call[c].req
    <3>1. call[c].pc # "idle" \/ call[c].out # "none"
      BY <2>1
    <3>2. call[c].nth # 0
      BY <3>1 DEF IInv, CallShape
    <3>3. call[c].nth > 0
      BY <3>2 DEF IInv, TypeOK, Call
    <3>4. call[c].req.by = c /\ call[c].req.nth = call[c].nth
      BY <3>3 DEF IInv, CallShape
    <3>5. call[c].out # "error"
      BY <2>1, <3>3 DEF IInv, CallShape
    <3>6. QED BY <2>3, <3>4, <3>5 DEF IInv, Provenance
  <2>4. QED BY <2>2, <2>3
<1>4. QED BY <1>1, <1>2, <1>3 DEF IInv

(* Every step keeps the invariant.                                            *)
LEMMA StepInv == IInv /\ [Next]_vars => IInv'
<1> SUFFICES ASSUME IInv, [Next]_vars PROVE IInv'
  OBVIOUS
<1>1. ASSUME NEW c \in Client, SDKStep(c) PROVE IInv'
  BY <1>1, SDKStepIsCallStep, CallStepInv
<1>2. ASSUME NEW c \in Client, NEW l \in License, NEW f \in Fingerprint,
             NEW idem \in BOOLEAN, Activate(c, l, f, idem)
      PROVE  IInv'
  BY <1>2, ActivateInv
<1>3. ASSUME NEW q \in late, LateCreate(q) \/ LateDelete(q) PROVE IInv'
  BY <1>3, EnvironmentInv DEF LateCreate, LateDelete
<1>4. ASSUME NEW r \in rows, Remove(r) PROVE IInv'
  BY <1>4, EnvironmentInv DEF Remove
<1>5. CASE UNCHANGED vars
  BY <1>5, EnvironmentInv DEF vars
<1>6. QED BY <1>1, <1>2, <1>3, <1>4, <1>5 DEF Next

-----------------------------------------------------------------------------
(* Section 3: the theorems. *)

(* The strengthened invariant, and with it type correctness, holds of every   *)
(* behaviour of the activation calls.                                        *)
THEOREM Invariance == Spec => []IInv
BY InitInv, StepInv, PTL DEF Spec

(* Every state of rows, stray requests and calls is well typed.               *)
THEOREM TypeCorrect == Spec => []TypeOK
<1>1. IInv => TypeOK BY DEF IInv
<1>2. QED BY <1>1, Invariance, PTL

(* MachineOverLimitError and FingerprintTakenError leave no seat behind.      *)
THEOREM Refusal == Spec => []RefusalLeavesNoSeat
<1>1. IInv => RefusalLeavesNoSeat
  <2> SUFFICES ASSUME IInv, NEW c \in Client,
                      call[c].out \in {"refused", "rolled_back", "taken"}
               PROVE  /\ call[c].req \notin rows
                      /\ [op |-> "create", row |-> call[c].req] \notin late
    BY DEF RefusalLeavesNoSeat
  <2>1. call[c].nth > 0
    BY DEF IInv, TypeOK, Call, CallShape
  <2>2. call[c].req.by = c /\ call[c].req.nth = call[c].nth
    BY <2>1 DEF IInv, CallShape
  <2>3. QED BY <2>2 DEF IInv, NoSeatYet, Provenance
<1>2. QED BY <1>1, Invariance, PTL

(* A machine returned by the call that created it has no rollback ahead.      *)
THEOREM FreshSeat == Spec => []FreshSeatIsSafe
<1>1. IInv => FreshSeatIsSafe
  <2> SUFFICES ASSUME IInv, NEW c \in Client,
                      call[c].out = "machine", call[c].row = call[c].req
               PROVE  /\ \A d \in Client : ~(call[d].pc = "rollback" /\ call[d].row = call[c].req)
                      /\ [op |-> "delete", row |-> call[c].req] \notin late
    BY DEF FreshSeatIsSafe
  <2>1. call[c].nth > 0
    BY DEF IInv, TypeOK, Call, CallShape
  <2>2. call[c].req.by = c /\ call[c].req.nth = call[c].nth /\ call[c].pc = "idle"
    BY <2>1 DEF IInv, CallShape
  <2>3. ASSUME NEW d \in Client, call[d].pc = "rollback", call[d].row = call[c].req
        PROVE  FALSE
    <3>1. call[d].nth # 0 /\ call[d].nth \in Nat
      BY <2>3 DEF IInv, TypeOK, Call, CallShape
    <3>2. call[d].req.by = d /\ call[d].row = call[d].req
      BY <2>3, <3>1 DEF IInv, CallShape
    <3>3. QED BY <2>2, <2>3, <3>2
  <2>4. QED BY <2>2, <2>3 DEF IInv, Provenance
<1>2. QED BY <1>1, Invariance, PTL

(* A call deletes no machine but the one it created.                          *)
THEOREM OwnRollback == Spec => RollbackOnlyOwn
<1>1. ASSUME IInv, [Next]_vars, NEW c \in Client, call'[c] # call[c]
      PROVE  rows \ rows' \subseteq {call[c].req}
  <2>1. ASSUME NEW d \in Client, SDKStep(d)
        PROVE  rows \ rows' \subseteq {call[c].req}
    <3>1. c = d
      BY <1>1, <2>1, SDKStepIsCallStep DEF CallStep
    <3>2. CASE Rollback(d)
      BY <1>1, <3>1, <3>2 DEF Rollback, IInv, CallShape
    <3>3. CASE ~Rollback(d)
      BY <2>1, <3>3 DEF SDKStep, Created, LimitRefused, TakenPlain, TakenRecover,
         Validate, GetNamed, SearchBlank, SearchFound, SearchOver, SearchOn, GiveUp
    <3>4. QED BY <3>2, <3>3
  <2>2. QED
    BY <1>1, <2>1 DEF Next, vars, Activate, LateCreate, LateDelete, Remove
<1>2. IInv /\ [Next]_vars =>
        [\A c \in Client : call'[c] # call[c] => rows \ rows' \subseteq {call[c].req}]_vars
  BY <1>1
<1>3. QED BY <1>2, Invariance, PTL DEF Spec, RollbackOnlyOwn

(* What a step by c returns, if it returns a machine: the row it created, the *)
(* row the 409 named once its fingerprint was compared, or an exact match of  *)
(* the license-scoped search.                                                 *)
LEMMA ReturnStep ==
  ASSUME IInv, NEW c \in Client, SDKStep(c), call'[c].out = "machine"
  PROVE  /\ call'[c].row.fingerprint = call[c].req.fingerprint
         /\ Naming # "any" => call'[c].row.license = call[c].req.license
         /\ \/ call[c].pc = "validate" /\ call'[c].row = call[c].req
            \/ call[c].pc \in {"get", "search"} /\ call'[c].row \in rows
<1>1. call[c].pc # "idle" /\ call[c].out = "none" /\ TypeOK /\ call[c] \in Call
  BY SDKStepIsCallStep DEF CallStep, IInv, CallShape, TypeOK
<1>2. ASSUME NEW how \in Outcome, NEW r \in Row \cup {NoRow}, Finish(c, how, r)
      PROVE  how = "machine" /\ call'[c].row = r
  BY <1>1, <1>2, FinishEffect
<1>3. ASSUME NEW where \in {"validate", "rollback", "search"},
             NEW r \in Row \cup {NoRow}, Goto(c, where, r)
      PROVE  FALSE
  BY <1>1, <1>3, GotoEffect
<1>4. CASE Validate(c)
  <2>1. call[c].row = call[c].req
    BY <1>4 DEF Validate, IInv, CallShape
  <2>2. Finish(c, "machine", call[c].row)
    BY <1>1, <1>3, <1>4 DEF Validate, Call
  <2>3. QED BY <1>1, <1>2, <1>4, <2>1, <2>2 DEF Validate, Call, Outcome
<1>5. CASE GetNamed(c)
  <2>1. /\ call[c].pc = "get" /\ call[c].row \in rows
        /\ call[c].row.fingerprint = call[c].req.fingerprint
        /\ Finish(c, "machine", call[c].row)
    BY <1>3, <1>5 DEF GetNamed
  <2>2. Naming # "any" => call[c].row.license = call[c].req.license
    BY <2>1 DEF IInv, CallShape
  <2>3. QED BY <1>1, <1>2, <2>1, <2>2 DEF Call, Outcome
<1>6. CASE SearchFound(c)
  <2>1. PICK q \in Answering(call[c].page) : \E r \in Matches(c, q) : Finish(c, "machine", r)
    BY <1>6 DEF SearchFound
  <2>2. PICK r \in Matches(c, q) : Finish(c, "machine", r)
    BY <2>1
  <2>3. /\ r \in rows /\ r.fingerprint = call[c].req.fingerprint
        /\ r.license = call[c].req.license
    BY <2>2 DEF Matches, Page, Found, RowsOf
  <2>4. QED BY <1>1, <1>2, <1>6, <2>2, <2>3 DEF SearchFound, TypeOK, Outcome
<1>7. CASE Created(c)
  BY <1>1, <1>3, <1>7 DEF Created, Call, IInv, CallShape
<1>8. CASE LimitRefused(c)
  BY <1>2, <1>8 DEF LimitRefused, Outcome
<1>9. CASE TakenPlain(c)
  BY <1>2, <1>9 DEF TakenPlain, Outcome
<1>10. CASE TakenRecover(c)
  BY <1>1, <1>10, TakenRecoverEffect
<1>11. CASE Rollback(c)
  BY <1>2, <1>11 DEF Rollback, Outcome
<1>12. CASE SearchBlank(c) \/ SearchOver(c)
  BY <1>2, <1>12 DEF SearchBlank, SearchOver, Outcome
<1>13. CASE SearchOn(c)
  BY <1>1, <1>13, SearchOnEffect
<1>14. CASE GiveUp(c)
  BY <1>2, <1>14 DEF GiveUp, Outcome
<1>15. QED
  BY <1>4, <1>5, <1>6, <1>7, <1>8, <1>9, <1>10, <1>11, <1>12, <1>13, <1>14
  DEF SDKStep

(* A call never ends with another fingerprint's machine, whatever a 409 names. *)
THEOREM OwnFingerprint == Spec => []ReturnedFingerprint
<1>1. Init => ReturnedFingerprint
  BY DEF Init, ReturnedFingerprint, NoCall
<1>2. ASSUME IInv, ReturnedFingerprint, [Next]_vars PROVE ReturnedFingerprint'
  <2>1. ASSUME NEW c \in Client, SDKStep(c) PROVE ReturnedFingerprint'
    <3>1. CallStep(c) BY <1>2, <2>1, SDKStepIsCallStep
    <3>2. QED BY <1>2, <2>1, <3>1, ReturnStep DEF CallStep, ReturnedFingerprint
  <2>2. ASSUME NEW c \in Client, NEW l \in License, NEW f \in Fingerprint,
               NEW idem \in BOOLEAN, Activate(c, l, f, idem)
        PROVE  ReturnedFingerprint'
    BY <1>2, <2>2, ActivateEffect DEF IInv, ReturnedFingerprint
  <2>3. QED
    BY <1>2, <2>1, <2>2
    DEF Next, vars, LateCreate, LateDelete, Remove, ReturnedFingerprint
<1>3. QED BY <1>1, <1>2, Invariance, PTL DEF Spec

(* With a server that names only own-license machines in a 409, as documented, *)
(* a call never ends with another license's machine.                          *)
THEOREM OwnMachine == ASSUME Naming # "any" PROVE Spec => []ReturnedIsOwn
<1>1. Init => ReturnedIsOwn
  BY DEF Init, ReturnedIsOwn, NoCall
<1>2. ASSUME IInv, ReturnedIsOwn, [Next]_vars PROVE ReturnedIsOwn'
  <2>1. ASSUME NEW c \in Client, SDKStep(c) PROVE ReturnedIsOwn'
    <3>1. CallStep(c) BY <1>2, <2>1, SDKStepIsCallStep
    <3>2. QED BY <1>2, <2>1, <3>1, ReturnStep DEF CallStep, ReturnedIsOwn
  <2>2. ASSUME NEW c \in Client, NEW l \in License, NEW f \in Fingerprint,
               NEW idem \in BOOLEAN, Activate(c, l, f, idem)
        PROVE  ReturnedIsOwn'
    BY <1>2, <2>2, ActivateEffect DEF IInv, ReturnedIsOwn
  <2>3. QED
    BY <1>2, <2>1, <2>2
    DEF Next, vars, LateCreate, LateDelete, Remove, ReturnedIsOwn
<1>3. QED BY <1>1, <1>2, Invariance, PTL DEF Spec

-----------------------------------------------------------------------------
(* Section 4: the activation calls implement SeatLedger, for any number of    *)
(* clients, licenses and calls, when a 409 names only machines of the         *)
(* caller's license (the documented server, or one that names none).          *)

(* A step of one call changes the mapped variables of that call only.         *)
LEMMA MappedStep ==
  ASSUME IInv, NEW c \in Client, CallStep(c)
  PROVE  /\ [d \in Client |-> call[d].req]' = [d \in Client |-> call[d].req]
         /\ [d \in Client |-> Status(d)]' =
              [[d \in Client |-> Status(d)] EXCEPT ![c] = Status(c)']
         /\ [d \in Client |-> Given(d)]' =
              [[d \in Client |-> Given(d)] EXCEPT ![c] = Given(c)']
<1>1. \A d \in Client \ {c} : Status(d)' = Status(d) /\ Given(d)' = Given(d)
  BY DEF CallStep, Status, Given
<1>2. \A d \in Client : call'[d].req = call[d].req
  BY DEF CallStep
<1>3. QED BY <1>1, <1>2

(* A step that the caller and the rows do not show is a stutter of the ledger.*)
LEMMA StutterStep ==
  ASSUME IInv, NEW c \in Client, CallStep(c), rows' = rows, late' = late,
         Status(c)' = Status(c), Given(c)' = Given(c)
  PROVE  UNCHANGED Ledger!vars
<1>1. \A d \in Client : Status(d)' = Status(d) /\ Given(d)' = Given(d)
                         /\ call'[d].req = call[d].req
  BY DEF CallStep, Status, Given
<1>2. /\ [d \in Client |-> Status(d)]' = [d \in Client |-> Status(d)]
      /\ [d \in Client |-> Given(d)]' = [d \in Client |-> Given(d)]
      /\ [d \in Client |-> call[d].req]' = [d \in Client |-> call[d].req]
  BY <1>1
<1>3. QED BY <1>2 DEF Ledger!vars

(* An empty server is an empty ledger.                                        *)
LEMMA InitMaps == Init => Ledger!Init
<1> SUFFICES ASSUME Init PROVE Ledger!Init
  OBVIOUS
<1>1. \A c \in Client : call[c].req = NoRow /\ Status(c) = "idle" /\ Given(c) = NoRow
  BY DEF Init, NoCall, Status, Given
<1>2. QED BY <1>1 DEF Init, Ledger!Init

(* A step of a call is a step of the ledger, or a stutter.                    *)
LEMMA SDKStepMaps ==
  ASSUME IInv, Naming # "any", NEW c \in Client, SDKStep(c)
  PROVE  Ledger!Next \/ UNCHANGED Ledger!vars
<1>1. CallStep(c)
  BY SDKStepIsCallStep
<1>2. /\ call[c].req \in Row /\ call[c].out = "none" /\ call[c].pc # "idle"
      /\ call[c] \in Call /\ TypeOK
      /\ call[c].pc \in {"validate", "rollback"} => call[c].row = call[c].req
      /\ call[c].pc \in {"create", "get", "search"} => call[c].req \notin rows
  BY <1>1 DEF CallStep, IInv, TypeOK, Call, CallShape, NoSeatYet
<1>3. ASSUME NEW how \in Outcome \ {"none"}, NEW r \in Row \cup {NoRow}, Finish(c, how, r)
      PROVE  /\ Status(c)' = (IF how = "machine" THEN "machine"
                            ELSE IF how = "error" THEN "failed" ELSE "refused")
             /\ Given(c)' = IF how = "machine" THEN r ELSE NoRow
             /\ call'[c].out = how /\ call'[c].row = r
  BY <1>2, <1>3, FinishEffect DEF Status, Given
<1>4. ASSUME NEW where \in {"validate", "rollback", "search"},
             NEW r \in Row \cup {NoRow}, Goto(c, where, r)
      PROVE  /\ Status(c)' = IF where = "search" THEN "open" ELSE "held"
             /\ Given(c)' = NoRow
  BY <1>2, <1>4, GotoEffect DEF Status, Given
<1>5. CASE Created(c)
  <2>1. call[c].pc = "create" /\ rows' = rows \cup {call[c].req} /\ late' = late
    BY <1>5 DEF Created
  <2>2. Status(c) = "open" BY <2>1 DEF Status
  <2>3. Status(c)' = "held" /\ Given(c)' = NoRow
    BY <1>2, <1>4, <1>5 DEF Created
  <2>4. Ledger!Take(c)
    BY <1>1, <1>2, <2>1, <2>2, <2>3, MappedStep DEF Ledger!Take, Ledger!End
  <2>5. QED BY <2>4 DEF Ledger!Next
<1>6. CASE LimitRefused(c) \/ TakenPlain(c) \/ SearchOver(c)
  <2>1. rows' = rows /\ late' = late /\ call[c].pc \in {"create", "search"}
        /\ \E how \in {"refused", "taken"} : Finish(c, how, NoRow)
    BY <1>6 DEF LimitRefused, TakenPlain, SearchOver
  <2>2. Status(c) = "open" BY <2>1 DEF Status
  <2>3. Status(c)' = "refused" /\ Given(c)' = NoRow
    BY <1>3, <2>1 DEF Outcome
  <2>4. Ledger!Deny(c)
    BY <1>1, <2>1, <2>2, <2>3, MappedStep DEF Ledger!Deny, Ledger!End
  <2>5. QED BY <2>4 DEF Ledger!Next
<1>7. CASE TakenRecover(c)
  <2>1. rows' = rows /\ late' = late /\ call[c].pc = "create"
    BY <1>7 DEF TakenRecover
  <2>2. Status(c) = "open" /\ Status(c)' = "open" /\ Given(c) = NoRow /\ Given(c)' = NoRow
    BY <1>2, <1>7, <2>1, TakenRecoverEffect DEF Status, Given
  <2>3. QED BY <1>1, <2>1, <2>2, StutterStep
<1>8. CASE Validate(c)
  <2>1. rows' = rows /\ late' = late /\ Status(c) = "held" /\ Given(c) = NoRow
    BY <1>2, <1>8 DEF Validate, Status, Given
  <2>2. CASE Goto(c, "rollback", call[c].row)
    <3>1. Status(c)' = "held" /\ Given(c)' = NoRow
      BY <1>2, <1>4, <2>2 DEF Call
    <3>2. QED BY <1>1, <2>1, <3>1, StutterStep
  <2>3. CASE Finish(c, "machine", call[c].row)
    <3>1. Status(c)' = "machine" /\ Given(c)' = call[c].req
      BY <1>2, <1>3, <1>8, <2>3 DEF Call, Outcome, Validate
    <3>2. Ledger!Keep(c)
      BY <1>1, <2>1, <3>1, MappedStep DEF Ledger!Keep, Ledger!End
    <3>3. QED BY <3>2 DEF Ledger!Next
  <2>4. QED BY <1>8, <2>2, <2>3 DEF Validate
<1>9. CASE Rollback(c)
  <2>1. rows' = rows \ {call[c].req} /\ late' = late /\ Status(c) = "held"
    BY <1>2, <1>9 DEF Rollback, Status
  <2>2. CASE call[c].req \in rows
    <3>1. Status(c)' = "refused" /\ Given(c)' = NoRow
      BY <1>2, <1>3, <1>9, <2>2 DEF Rollback, Outcome
    <3>2. Ledger!GiveBack(c)
      BY <1>1, <2>1, <2>2, <3>1, MappedStep DEF Ledger!GiveBack, Ledger!End
    <3>3. QED BY <3>2 DEF Ledger!Next
  <2>3. CASE call[c].req \notin rows
    <3>1. Status(c)' = "failed" /\ Given(c)' = NoRow
      BY <1>2, <1>3, <1>9, <2>3 DEF Rollback, Outcome
    <3>2. Ledger!Fail(c)
      BY <1>1, <2>1, <2>3, <3>1, MappedStep DEF Ledger!Fail, Ledger!End
    <3>3. QED BY <3>2 DEF Ledger!Next
  <2>4. QED BY <2>2, <2>3
<1>10. CASE GetNamed(c) \/ SearchFound(c)
  <2>1. rows' = rows /\ late' = late /\ call[c].pc \in {"get", "search"}
    BY <1>10 DEF GetNamed, SearchFound
  <2>2. Status(c) = "open" /\ Given(c) = NoRow BY <1>2, <2>1 DEF Status, Given
  <2>3. CASE call'[c].out = "machine"
    <3>1. /\ call'[c].row \in rows
          /\ call'[c].row.license = call[c].req.license
          /\ call'[c].row.fingerprint = call[c].req.fingerprint
      BY <2>1, <2>3, ReturnStep
    <3>2. Status(c)' = "machine" /\ Given(c)' = call'[c].row
      BY <1>1, <2>3 DEF CallStep, Status, Given
    <3>3. Ledger!Adopt(c, call'[c].row)
      BY <1>1, <2>1, <2>2, <3>1, <3>2, MappedStep
      DEF Ledger!Adopt, Ledger!End, Ledger!Serves
    <3>4. QED BY <3>1, <3>3 DEF Ledger!Next
  <2>4. CASE call'[c].out # "machine"
    <3>1. Goto(c, "search", NoRow)
      <4>1. ASSUME NEW r \in Row, Finish(c, "machine", r) PROVE FALSE
        BY <1>3, <2>4, <4>1 DEF Outcome
      <4>2. rows \subseteq Row BY <1>2 DEF TypeOK
      <4>3. CASE GetNamed(c)
        BY <4>1, <4>2, <4>3 DEF GetNamed
      <4>4. CASE SearchFound(c)
        BY <4>1, <4>2, <4>4 DEF SearchFound, Matches, Page, Found, RowsOf
      <4>5. QED BY <1>10, <4>3, <4>4
    <3>2. Status(c)' = "open" /\ Given(c)' = NoRow
      BY <1>4, <3>1
    <3>3. QED BY <1>1, <2>1, <2>2, <3>2, StutterStep
  <2>5. QED BY <2>3, <2>4
<1>11. CASE SearchOn(c)
  <2>1. rows' = rows /\ late' = late /\ call[c].pc = "search"
    BY <1>11 DEF SearchOn
  <2>2. Status(c) = "open" /\ Status(c)' = "open" /\ Given(c) = NoRow /\ Given(c)' = NoRow
    BY <1>2, <1>11, <2>1, SearchOnEffect DEF Status, Given
  <2>3. QED BY <1>1, <2>1, <2>2, StutterStep
<1>12. CASE SearchBlank(c) \/ GiveUp(c)
  <2>1. /\ rows' = rows /\ late' \in {late, late \cup Pending(c)}
        /\ Finish(c, "error", NoRow)
    BY <1>12 DEF SearchBlank, GiveUp
  <2>2. Status(c) \in {"open", "held"}
    BY <1>2 DEF Status, Call
  <2>3. Status(c)' = "failed" /\ Given(c)' = NoRow
    BY <1>3, <2>1 DEF Outcome
  <2>4. Pending(c) \subseteq {[op |-> IF Status(c) = "open" THEN "create" ELSE "delete",
                              row |-> call[c].req]}
    BY <1>2 DEF Pending, Status
  <2>5. Pending(c) = {} \/
        Pending(c) = {[op |-> IF Status(c) = "open" THEN "create" ELSE "delete",
                       row |-> call[c].req]}
    BY <2>4
  <2>6. Ledger!Fail(c)
    BY <1>1, <2>1, <2>2, <2>3, <2>5, MappedStep DEF Ledger!Fail, Ledger!End
  <2>7. QED BY <2>6 DEF Ledger!Next
<1>13. QED
  BY <1>5, <1>6, <1>7, <1>8, <1>9, <1>10, <1>11, <1>12
  DEF SDKStep

(* A new call opens a new entry of the ledger.                                *)
LEMMA ActivateMaps ==
  ASSUME IInv, NEW c \in Client, NEW l \in License, NEW f \in Fingerprint,
         NEW idem \in BOOLEAN, Activate(c, l, f, idem)
  PROVE  Ledger!Open(c)
<1>1. /\ \A d \in Client \ {c} : call'[d] = call[d]
      /\ call'[c].pc = "create" /\ call'[c].nth = call[c].nth + 1
      /\ call'[c].req \in Row /\ call'[c].req.by = c
      /\ call'[c].req.nth = call[c].nth + 1 /\ call'[c].out = "none"
      /\ rows' = rows /\ late' = late /\ call[c].pc = "idle"
  BY ActivateEffect DEF IInv, Activate
<1>2. call[c] \in Call /\ call[c].nth \in Nat
  BY DEF IInv, TypeOK, Call
<1>3. call[c].req = NoRow \/ call'[c].req.nth > call[c].req.nth
  BY <1>1, <1>2 DEF IInv, CallShape
<1>4. Status(c) \notin {"open", "held"} /\ Status(c)' = "open" /\ Given(c)' = NoRow
  BY <1>1 DEF Status, Given
<1>5. \A d \in Client \ {c} : /\ Status(d)' = Status(d) /\ Given(d)' = Given(d)
                              /\ call'[d].req = call[d].req
  BY <1>1 DEF Status, Given
<1>6. /\ [d \in Client |-> Status(d)]' =
           [[d \in Client |-> Status(d)] EXCEPT ![c] = Status(c)']
      /\ [d \in Client |-> Given(d)]' =
           [[d \in Client |-> Given(d)] EXCEPT ![c] = Given(c)']
      /\ [d \in Client |-> call[d].req]' =
           [[d \in Client |-> call[d].req] EXCEPT ![c] = call'[c].req]
  BY <1>5
<1>7. QED BY <1>1, <1>3, <1>4, <1>6 DEF Ledger!Open, Ledger!End

(* Every behaviour of the calls is, through the mapping, one of the ledger.   *)
THEOREM Refinement == ASSUME Naming # "any" PROVE Spec => ImplementsLedger
<1>1. ASSUME IInv, [Next]_vars PROVE [Ledger!Next]_(Ledger!vars)
  <2>1. ASSUME NEW c \in Client, SDKStep(c) PROVE [Ledger!Next]_(Ledger!vars)
    BY <1>1, <2>1, SDKStepMaps
  <2>2. ASSUME NEW c \in Client, NEW l \in License, NEW f \in Fingerprint,
               NEW idem \in BOOLEAN, Activate(c, l, f, idem)
        PROVE  [Ledger!Next]_(Ledger!vars)
    BY <1>1, <2>2, ActivateMaps DEF Ledger!Next
  <2>3. ASSUME call' = call
        PROVE  /\ [d \in Client |-> Status(d)]' = [d \in Client |-> Status(d)]
               /\ [d \in Client |-> Given(d)]' = [d \in Client |-> Given(d)]
               /\ [d \in Client |-> call[d].req]' = [d \in Client |-> call[d].req]
    BY <2>3 DEF Status, Given
  <2>4. ASSUME NEW q \in late, LateCreate(q) \/ LateDelete(q)
        PROVE  [Ledger!Next]_(Ledger!vars)
    <3>1. call' = call BY <2>4 DEF LateCreate, LateDelete
    <3>2. Ledger!Straggler(q)
      BY <2>3, <2>4, <3>1 DEF Ledger!Straggler, LateCreate, LateDelete
    <3>3. QED BY <3>2 DEF Ledger!Next
  <2>5. ASSUME NEW r \in rows, Remove(r) PROVE [Ledger!Next]_(Ledger!vars)
    <3>1. Ledger!Reclaim(r)
      BY <2>3, <2>5 DEF Ledger!Reclaim, Remove
    <3>2. QED BY <3>1 DEF Ledger!Next
  <2>6. CASE UNCHANGED vars
    BY <2>3, <2>6 DEF vars, Ledger!vars
  <2>7. QED BY <1>1, <2>1, <2>2, <2>4, <2>5, <2>6 DEF Next
<1>2. QED BY <1>1, InitMaps, Invariance, PTL DEF Spec, ImplementsLedger, Ledger!Spec

-----------------------------------------------------------------------------
(* Section 5: a genuine re-activation is recoverable, with a server that names *)
(* the machine behind a 409 when it is on the caller's license.  What carries  *)
(* it is that such a machine is the only one that clashes, and that once it is  *)
(* gone no request brings it back.                                           *)

SymmetricScope == \A l, m \in License : m \in Scope[l] => l \in Scope[m]

(* Rows do not clash with each other. *)
Unique ==
  \A r, s \in rows : r.license \in Scope[s.license] /\ r.fingerprint = s.fingerprint => r = s

(* No request that is under way, or to come, would make r. *)
Spent(r) ==
  /\ r.nth <= call[r.by].nth
  /\ call[r.by].pc = "create" => call[r.by].req # r
  /\ [op |-> "create", row |-> r] \notin late

RowsSpent ==
  /\ \A r \in rows : Spent(r)
  /\ \A c \in Client : \A r \in call[c].mine : Spent(r)

(* While the named row is read it is the only own one that clashed; later     *)
(* none is left.                                                             *)
MineGone ==
  \A c \in Client :
    LET k == call[c]
    IN  /\ k.pc = "create" => k.mine = {}
        /\ k.pc = "get" => k.mine \subseteq {k.row} /\ k.row.fingerprint = k.req.fingerprint
        /\ k.pc = "search" \/ k.out = "taken" => k.mine \cap rows = {}

RecoverInv == Unique /\ RowsSpent /\ MineGone

(* Only the answer of a taken create sets "mine", and only a search that found  *)
(* nothing, or a plain call, ends as taken.                                  *)
LEMMA MineEffect ==
  ASSUME IInv, NEW c \in Client, SDKStep(c), ~TakenRecover(c)
  PROVE  /\ call'[c].mine = call[c].mine
         /\ call'[c].pc \notin {"create", "get"}
         /\ call'[c].pc = "search" =>
              \/ call[c].pc = "search"
              \/ /\ call[c].pc = "get"
                 /\ ~(call[c].row \in rows /\ call[c].row.fingerprint = call[c].req.fingerprint)
                 /\ rows' = rows
         /\ call'[c].out = "taken" => call[c].pc \in {"create", "search"} /\ rows' = rows
<1>1. call \in [Client -> Call] /\ call[c] \in Call /\ call[c].pc # "idle" /\ call[c].out = "none"
  BY SDKStepIsCallStep DEF CallStep, IInv, CallShape, TypeOK
<1>2. ASSUME NEW how, NEW r, Finish(c, how, r)
      PROVE  call'[c].mine = call[c].mine /\ call'[c].pc = "idle" /\ call'[c].out = how
  BY <1>1, <1>2 DEF Finish, Call
<1>3. ASSUME NEW where, NEW r, Goto(c, where, r)
      PROVE  call'[c].mine = call[c].mine /\ call'[c].pc = where /\ call'[c].out = "none"
  BY <1>1, <1>3 DEF Goto, Call
<1>4. CASE Created(c) \/ Validate(c)
  BY <1>2, <1>3, <1>4 DEF Created, Validate
<1>5. CASE LimitRefused(c) \/ TakenPlain(c)
  BY <1>2, <1>5 DEF LimitRefused, TakenPlain
<1>6. CASE Rollback(c) \/ SearchBlank(c) \/ SearchFound(c) \/ GiveUp(c)
  <2>1. \E how \in {"rolled_back", "error", "machine"}, r \in Row \cup {NoRow} \cup rows :
          Finish(c, how, r)
    BY <1>6 DEF Rollback, SearchBlank, SearchFound, GiveUp, Matches, Page, Found, RowsOf
  <2> QED BY <1>2, <2>1
<1>9. CASE SearchOver(c)
  BY <1>2, <1>9 DEF SearchOver
<1>7. CASE GetNamed(c)
  <2>1. call[c].pc = "get" /\ rows' = rows
    BY <1>7 DEF GetNamed
  <2>2. CASE Finish(c, "machine", call[c].row)
    BY <1>2, <2>2
  <2>3. CASE /\ ~(call[c].row \in rows /\ call[c].row.fingerprint = call[c].req.fingerprint)
             /\ Goto(c, "search", NoRow)
    BY <1>3, <2>1, <2>3
  <2> QED BY <1>7, <2>2, <2>3 DEF GetNamed
<1>8. CASE SearchOn(c)
  BY <1>1, <1>8 DEF SearchOn, Call
<1> QED BY <1>4, <1>5, <1>6, <1>7, <1>8, <1>9 DEF SDKStep

(* The documented server names the one machine of the caller's that clashes.  *)
LEMMA TakenMine ==
  ASSUME IInv, Unique, Naming = "own", NEW c \in Client, TakenRecover(c)
  PROVE  /\ call'[c].mine \subseteq rows
         /\ call'[c].out = call[c].out
         /\ \/ /\ call'[c].pc = "get" /\ call'[c].mine \subseteq {call'[c].row}
               /\ call'[c].row.fingerprint = call'[c].req.fingerprint
            \/ call'[c].pc = "search" /\ call'[c].mine = {}
<1> DEFINE req == call[c].req
           own == Clash(req) \cap RowsOf(req.license)
<1>1. call \in [Client -> Call] /\ call[c] \in Call /\ rows \subseteq Row
  BY DEF IInv, TypeOK
<1>2. PICK m \in Named(req) :
        call' = [call EXCEPT ![c] =
                  [@ EXCEPT !.pc = IF m = NoRow THEN "search" ELSE "get",
                            !.row = m, !.page = 1, !.mine = own]]
  BY DEF TakenRecover
<1>3. PICK r \in Clash(req) : m = IF r.license = req.license THEN r ELSE NoRow
  BY <1>2 DEF Named
<1> HIDE DEF own
<1>4. /\ call'[c].mine = own /\ call'[c].row = m /\ call'[c].req = req
      /\ call'[c].pc = (IF m = NoRow THEN "search" ELSE "get") /\ call'[c].out = call[c].out
  BY <1>1, <1>2 DEF Call
<1>5. own \subseteq rows /\ r \in rows /\ r # NoRow /\ r.fingerprint = req.fingerprint
  BY <1>1, <1>3, ServerAssumption DEF own, Clash
<1>6. \A s \in own : s = r /\ r.license = req.license
  BY <1>3, <1>5 DEF own, Clash, RowsOf, Unique
<1> QED BY <1>3, <1>4, <1>5, <1>6

(* What is created was not there, and its create was under way or stray.     *)
LEMMA NewRows ==
  ASSUME IInv, [Next]_vars, NEW r \in rows' \ rows
  PROVE  /\ Clash(r) = {} /\ rows' = rows \cup {r} /\ r \in Row
         /\ \/ \E c \in Client : Created(c) /\ r = call[c].req
            \/ \E q \in late : LateCreate(q) /\ r = q.row
<1>1. ASSUME NEW c \in Client, SDKStep(c)
      PROVE  Created(c) /\ r = call[c].req
  BY <1>1 DEF SDKStep, Created, LimitRefused, TakenPlain, TakenRecover, Validate,
     Rollback, GetNamed, SearchBlank, SearchFound, SearchOver, SearchOn, GiveUp
<1>2. ASSUME NEW q \in late, LateCreate(q) \/ LateDelete(q)
      PROVE  LateCreate(q) /\ r = q.row
  BY <1>2 DEF LateCreate, LateDelete
<1>3. \/ \E c \in Client : Created(c) /\ r = call[c].req
      \/ \E q \in late : LateCreate(q) /\ r = q.row
  BY <1>1, <1>2 DEF Next, vars, Activate, Remove
<1>4. rows' \subseteq Row
  BY StepInv DEF IInv, TypeOK
<1> QED BY <1>3, <1>4 DEF Created, LateCreate

(* A row that is spent stays so, and does not come back. *)
LEMMA SpentStays ==
  ASSUME IInv, [Next]_vars, NEW r \in Row, Spent(r)
  PROVE  Spent(r)' /\ (r \notin rows => r \notin rows')
<1>1. r.by \in Client /\ r.nth \in Nat /\ call[r.by] \in Call
  BY DEF Row, IInv, TypeOK
<1>2. r \notin rows => r \notin rows'
  <2> SUFFICES ASSUME r \in rows' \ rows PROVE FALSE
    OBVIOUS
  <2>1. CASE \E c \in Client : Created(c) /\ r = call[c].req
    <3>1. PICK c \in Client : Created(c) /\ r = call[c].req
      BY <2>1
    <3>2. r.by = c /\ call[c].pc = "create"
      BY <1>1, <3>1 DEF Created, IInv, TypeOK, Call, CallShape
    <3> QED BY <3>1, <3>2 DEF Spent
  <2>2. ASSUME NEW q \in late, LateCreate(q), r = q.row
        PROVE  FALSE
    <3>1. q = [op |-> "create", row |-> r]
      BY <2>2 DEF LateCreate, IInv, TypeOK
    <3> QED BY <2>2, <3>1 DEF Spent
  <2> QED BY <2>1, <2>2, NewRows
<1>3. ASSUME NEW c \in Client, SDKStep(c)
      PROVE  Spent(r)'
  <2>1. /\ \A d \in Client \ {c} : call'[d] = call[d]
        /\ call'[c].nth = call[c].nth /\ call[c].pc # "idle"
        /\ late' \subseteq late \cup Pending(c)
    BY <1>3, SDKStepIsCallStep DEF CallStep
  <2>2. call'[c].pc # "create"
    BY <1>3, MineEffect, TakenRecoverEffect DEF IInv
  <2>3. call[c].nth \in Nat /\ call[c].nth # 0
    BY <2>1 DEF IInv, TypeOK, Call, CallShape
  <2>4. call[c].req.by = c
    BY <2>3 DEF IInv, CallShape
  <2>5. call[c].pc = "create" => call[c].req # r
    BY <2>4 DEF Spent
  <2>6. [op |-> "create", row |-> r] \notin Pending(c)
    BY <2>5 DEF Pending
  <2>7. [op |-> "create", row |-> r] \notin late'
    BY <2>1, <2>6 DEF Spent
  <2>8. call'[r.by].nth = call[r.by].nth /\ (call'[r.by].pc = "create" => call'[r.by].req # r)
    BY <1>1, <2>1, <2>2 DEF Spent
  <2> QED BY <2>7, <2>8 DEF Spent
<1>4. ASSUME NEW c \in Client, NEW l \in License, NEW f \in Fingerprint,
             NEW idem \in BOOLEAN, Activate(c, l, f, idem)
      PROVE  Spent(r)'
  <2>1. late' = late /\ call[c].nth \in Nat
    BY <1>4 DEF Activate, IInv, TypeOK, Call
  <2>2. /\ \A d \in Client \ {c} : call'[d] = call[d]
        /\ call'[c].nth = call[c].nth + 1 /\ call'[c].req.nth = call[c].nth + 1
    BY <1>4, ActivateEffect DEF IInv
  <2>3. [op |-> "create", row |-> r] \notin late'
    BY <2>1 DEF Spent
  <2>4. CASE r.by = c
    <3>1. r.nth <= call[c].nth
      BY <2>4 DEF Spent
    <3>2. r.nth <= call'[c].nth /\ call'[c].req # r
      BY <1>1, <2>1, <2>2, <3>1
    <3> QED BY <2>3, <2>4, <3>2 DEF Spent
  <2>5. CASE r.by # c
    <3>1. call'[r.by] = call[r.by]
      BY <1>1, <2>2, <2>5
    <3> QED BY <2>3, <3>1 DEF Spent
  <2> QED BY <2>4, <2>5
<1>5. ASSUME \/ \E q \in late : LateCreate(q) \/ LateDelete(q)
             \/ \E q \in rows : Remove(q)
             \/ UNCHANGED vars
      PROVE  Spent(r)'
  BY <1>5 DEF LateCreate, LateDelete, Remove, vars, Spent
<1>6. Spent(r)'
  BY <1>3, <1>4, <1>5 DEF Next
<1> QED BY <1>2, <1>6

(* A row is spent once it is made. *)
LEMMA NewSpent ==
  ASSUME IInv, [Next]_vars, NEW r \in rows' \ rows
  PROVE  Spent(r)'
<1>1. r \in Row
  BY NewRows
<1>2. ASSUME NEW c \in Client, Created(c), r = call[c].req
      PROVE  Spent(r)'
  <2>1. call[c].pc = "create" /\ late' = late /\ TypeOK
    BY <1>2 DEF Created, IInv
  <2>2. call[c].nth \in Nat /\ call[c].nth # 0
    BY <2>1 DEF IInv, TypeOK, Call, CallShape
  <2>3. r.by = c /\ r.nth = call[c].nth /\ call[c].out = "none"
    BY <1>2, <2>1, <2>2 DEF IInv, CallShape
  <2>4. call'[c].pc = "validate" /\ call'[c].nth = call[c].nth
    BY <1>1, <1>2, <2>1, GotoEffect DEF Created
  <2>5. [op |-> "create", row |-> r] \notin late
    BY <2>3 DEF IInv, Provenance
  <2> QED BY <2>1, <2>2, <2>3, <2>4, <2>5 DEF Spent
<1>3. ASSUME NEW q \in late, LateCreate(q), r = q.row
      PROVE  Spent(r)'
  <2>1. q = [op |-> "create", row |-> r] /\ r.by \in Client
    BY <1>1, <1>3 DEF LateCreate, IInv, TypeOK, Row
  <2>2. r.nth <= call[r.by].nth /\ (r.nth = call[r.by].nth => call[r.by].out = "error")
    BY <1>3 DEF IInv, Provenance
  <2>3. ASSUME call[r.by].pc = "create", call[r.by].req = r
        PROVE  FALSE
    <3>1. call[r.by].nth \in Nat /\ call[r.by].nth # 0 /\ call[r.by].out = "none"
      BY <2>1, <2>3 DEF IInv, TypeOK, Call, CallShape
    <3>2. call[r.by].req.nth = call[r.by].nth
      BY <2>1, <3>1 DEF IInv, CallShape
    <3> QED BY <2>2, <2>3, <3>1, <3>2
  <2> QED BY <1>3, <2>1, <2>2, <2>3 DEF LateCreate, Spent
<1> QED BY <1>2, <1>3, NewRows

(* Rows that are there never clash: a create that would is answered by a 409. *)
LEMMA UniqueStep ==
  ASSUME IInv, Unique, SymmetricScope, [Next]_vars
  PROVE  Unique'
<1>1. rows \subseteq Row /\ rows' \subseteq Row
  BY StepInv DEF IInv, TypeOK
<1>2. CASE rows' \subseteq rows
  BY <1>2 DEF Unique
<1>3. ASSUME NEW r \in rows' \ rows
      PROVE  Unique'
  <2>1. rows' = rows \cup {r} /\ Clash(r) = {} /\ r \in Row
    BY NewRows
  <2>2. \A s \in rows : s.fingerprint = r.fingerprint =>
          s.license \notin Scope[r.license] /\ r.license \notin Scope[s.license]
    BY <1>1, <2>1 DEF Clash, SymmetricScope, Row
  <2> QED BY <2>1, <2>2 DEF Unique
<1> QED BY <1>2, <1>3

(* Rows that are there, or were, are asked for by no request under way.       *)
LEMMA RowsSpentStep ==
  ASSUME IInv, Unique, RowsSpent, Naming = "own", [Next]_vars
  PROVE  RowsSpent'
<1>1. call \in [Client -> Call] /\ rows \subseteq Row
  BY DEF IInv, TypeOK
<1>2. \A c \in Client : call[c].mine \subseteq Row
  BY <1>1 DEF Call
<1>3. \A r \in rows' : Spent(r)'
  BY <1>1, NewSpent, SpentStays DEF RowsSpent
<1>4. \A c \in Client : \A r \in rows \cup call[c].mine : Spent(r)'
  BY <1>1, <1>2, SpentStays DEF RowsSpent
<1>5. \A c \in Client : call'[c].mine \subseteq rows \cup call[c].mine
  <2>1. ASSUME NEW c \in Client, SDKStep(c)
        PROVE  \A d \in Client : call'[d].mine \subseteq rows \cup call[d].mine
    <3>1. \A d \in Client \ {c} : call'[d] = call[d]
      BY <2>1, SDKStepIsCallStep DEF CallStep
    <3> QED BY <2>1, <3>1, MineEffect, TakenMine
  <2>2. ASSUME NEW c \in Client, NEW l \in License, NEW f \in Fingerprint,
               NEW idem \in BOOLEAN, Activate(c, l, f, idem)
        PROVE  \A d \in Client : call'[d].mine \subseteq call[d].mine
    BY <1>1, <2>2 DEF Activate, NoCall
  <2> QED BY <2>1, <2>2 DEF Next, vars, LateCreate, LateDelete, Remove
<1> QED BY <1>3, <1>4, <1>5 DEF RowsSpent

(* Once the machines behind the 409 are gone, they stay gone.                 *)
LEMMA MineGoneStep ==
  ASSUME IInv, RecoverInv, Naming = "own", [Next]_vars
  PROVE  MineGone'
<1>1. call \in [Client -> Call] /\ rows \subseteq Row
  BY DEF IInv, TypeOK
<1>2. ASSUME NEW c \in Client, call[c].mine \cap rows = {}
      PROVE  call[c].mine \cap rows' = {}
  <2>1. call[c].mine \subseteq Row
    BY <1>1 DEF Call
  <2> QED BY <1>2, <2>1, SpentStays DEF RecoverInv, RowsSpent
<1> DEFINE OK(d) == LET k == call[d]
                    IN  /\ k.pc = "create" => k.mine = {}
                        /\ k.pc = "get" => /\ k.mine \subseteq {k.row}
                                           /\ k.row.fingerprint = k.req.fingerprint
                        /\ k.pc = "search" \/ k.out = "taken" => k.mine \cap rows = {}
<1>3. \A d \in Client : OK(d)
  BY DEF RecoverInv, MineGone
<1>4. ASSUME NEW d \in Client, call'[d] = call[d]
      PROVE  OK(d)'
  BY <1>2, <1>3, <1>4
<1>5. ASSUME NEW c \in Client, SDKStep(c)
      PROVE  OK(c)'
  <2>1. call[c].pc # "idle" /\ call[c].out = "none" /\ call'[c].req = call[c].req
    BY <1>5, SDKStepIsCallStep DEF CallStep, IInv, CallShape
  <2>2. CASE TakenRecover(c)
    BY <2>1, <2>2, TakenMine DEF RecoverInv
  <2>3. CASE ~TakenRecover(c)
    <3>1. /\ call'[c].mine = call[c].mine /\ call'[c].pc \notin {"create", "get"}
      BY <1>5, <2>3, MineEffect
    <3>2. call'[c].pc = "search" => call[c].mine \cap rows' = {}
      BY <1>2, <1>3, <1>5, <2>3, MineEffect
    <3>3. call'[c].out = "taken" => call[c].mine \cap rows' = {}
      BY <1>2, <1>3, <1>5, <2>3, MineEffect
    <3> QED BY <3>1, <3>2, <3>3
  <2> QED BY <2>2, <2>3
<1>6. ASSUME NEW c \in Client, NEW l \in License, NEW f \in Fingerprint,
             NEW idem \in BOOLEAN, Activate(c, l, f, idem)
      PROVE  OK(c)'
  <2>1. call'[c].pc = "create" /\ call'[c].out = "none"
    BY <1>6, ActivateEffect DEF IInv
  <2>2. call'[c].mine = {}
    BY <1>1, <1>6 DEF Activate, NoCall
  <2> QED BY <2>1, <2>2
<1>7. \A d \in Client : OK(d)'
  <2>1. ASSUME NEW c \in Client, SDKStep(c)
        PROVE  \A d \in Client : OK(d)'
    <3>1. \A d \in Client \ {c} : call'[d] = call[d]
      BY <2>1, SDKStepIsCallStep DEF CallStep
    <3> QED BY <1>4, <1>5, <2>1, <3>1
  <2>2. ASSUME NEW c \in Client, NEW l \in License, NEW f \in Fingerprint,
               NEW idem \in BOOLEAN, Activate(c, l, f, idem)
        PROVE  \A d \in Client : OK(d)'
    <3>1. \A d \in Client \ {c} : call'[d] = call[d]
      BY <2>2, ActivateEffect DEF IInv
    <3> QED BY <1>4, <1>6, <2>2, <3>1
  <2>3. CASE UNCHANGED call
    BY <1>4, <2>3
  <2> QED BY <2>1, <2>2, <2>3 DEF Next, vars, LateCreate, LateDelete, Remove
<1> QED BY <1>7 DEF MineGone

(* With a server that names own-license machines and a uniqueness scope that    *)
(* goes both ways, FingerprintTakenError is never raised while the machine that *)
(* was behind the 409 is there.                                              *)
THEOREM Recovery ==
  ASSUME Naming = "own", SymmetricScope
  PROVE  Spec => []ReactivationRecovers
<1>1. Init => RecoverInv
  BY DEF Init, RecoverInv, Unique, RowsSpent, MineGone, NoCall
<1>2. IInv /\ RecoverInv /\ [Next]_vars => RecoverInv'
  BY UniqueStep, RowsSpentStep, MineGoneStep DEF RecoverInv
<1>3. RecoverInv => ReactivationRecovers
  BY DEF RecoverInv, MineGone, ReactivationRecovers
<1> QED BY <1>1, <1>2, <1>3, Invariance, PTL DEF Spec

-----------------------------------------------------------------------------
(* Section 6: what is over is over.  A row carries the name of the one POST    *)
(* that makes it, and a spent POST is neither sent again nor on its way, so    *)
(* a machine that was refused or removed is never there again.               *)

(* The call that asked for r has ended, and said that it left no machine.     *)
Denied(r) == call[r.by].req = r /\ call[r.by].out \in {"refused", "rolled_back", "taken"}

(* The server has no machine r. *)
Absent(r) == r \notin rows

(* The machine r is gone for good. *)
Past(r) == Spent(r) /\ r \notin rows

(* A machine that is there came from a spent POST. *)
Within(r) == r \in rows => Spent(r)

(* What a caller was refused does not come to be later: MachineOverLimitError  *)
(* and FingerprintTakenError stay true, through any further calls of the same  *)
(* application and any request carried out late (activate_machine,           *)
(* activate_machine_idempotent).                                            *)
THEOREM RefusalIsFinal ==
  ASSUME NEW r \in Row
  PROVE  Spec => [](Denied(r) => []Absent(r))
<1>1. IInv /\ Denied(r) => Past(r)
  <2> SUFFICES ASSUME IInv, Denied(r) PROVE Spent(r) /\ r \notin rows
    BY DEF Past
  <2>1. r.by \in Client /\ r.nth \in Nat
    BY DEF Row
  <2>2. /\ call[r.by] \in Call /\ call[r.by].out # "none" /\ call[r.by].out # "error"
        /\ call[r.by].nth \in Nat
    BY <2>1 DEF Denied, IInv, TypeOK, Call
  <2>3. call[r.by].pc = "idle" /\ call[r.by].nth = r.nth
    <3>1. call[r.by].nth # 0
      BY <2>1, <2>2 DEF IInv, CallShape
    <3>2. call[r.by].nth > 0
      BY <2>2, <3>1
    <3> QED BY <2>1, <2>2, <3>2 DEF IInv, CallShape, Denied
  <2>4. [op |-> "create", row |-> r] \notin late
    BY <2>2, <2>3 DEF IInv, Provenance
  <2>5. r \notin rows
    BY <2>1 DEF Denied, IInv, NoSeatYet
  <2> QED BY <2>1, <2>3, <2>4, <2>5 DEF Spent
<1>2. IInv /\ Past(r) /\ [Next]_vars => Past(r)'
  BY SpentStays DEF Past
<1>3. Past(r) => Absent(r)
  BY DEF Past, Absent
<1> QED BY <1>1, <1>2, <1>3, Invariance, PTL DEF Spec

(* A machine that was removed stays removed: no POST that was sent before, or   *)
(* is on its way, makes it once more (create, delete).                       *)
THEOREM RemovalIsFinal ==
  ASSUME NEW r \in Row
  PROVE  Spec => [](~Absent(r) => [](Absent(r) => []Absent(r)))
<1>1. Init => Within(r)
  BY DEF Init, Within
<1>2. IInv /\ Within(r) /\ [Next]_vars => Within(r)'
  <2> SUFFICES ASSUME IInv, Within(r), [Next]_vars, r \in rows' PROVE Spent(r)'
    BY DEF Within
  <2>1. CASE r \in rows
    BY <2>1, SpentStays DEF Within
  <2>2. CASE r \notin rows
    BY <2>2, NewSpent
  <2> QED BY <2>1, <2>2
<1>3. Within(r) /\ ~Absent(r) => Spent(r)
  BY DEF Within, Absent
<1>4. IInv /\ Spent(r) /\ [Next]_vars => Spent(r)'
  BY SpentStays
<1>5. IInv /\ Past(r) /\ [Next]_vars => Past(r)'
  BY SpentStays DEF Past
<1>6. Spent(r) /\ Absent(r) => Past(r)
  BY DEF Past, Absent
<1>7. Past(r) => Absent(r)
  BY DEF Past, Absent
<1> QED BY <1>1, <1>2, <1>3, <1>4, <1>5, <1>6, <1>7, Invariance, PTL DEF Spec
=============================================================================
