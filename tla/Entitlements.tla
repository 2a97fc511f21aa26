---------------------------- MODULE Entitlements ----------------------------
(***************************************************************************)
(* The entitlements that a LicenseResource caches                           *)
(* (src/tamga/models/license.py), fetched by EntitlementsClient.list_all    *)
(* (src/tamga/client.py) in one request of at most MAX_PAGE_SIZE.  Threads   *)
(* of an application share the resource, which has no lock, while           *)
(* entitlements are granted and revoked.                                   *)
(*                                                                         *)
(* The server's holdings are kept with their history: holdings[v] is what    *)
(* the license holds in version v, and every listing carries the version it  *)
(* was taken at.  An entitlement is its code.                              *)
(***************************************************************************)
EXTENDS Integers, FiniteSets

CONSTANTS
  Thread,
  Code,         \* codes of entitlements
  MaxPage,      \* MAX_PAGE_SIZE
  NoList,       \* _entitlements_cache is None
  MaxVersion    \* bound: versions of the holdings

ASSUME EntitlementsAssumption ==
  /\ IsFiniteSet(Code)
  /\ MaxPage \in Nat \ {0} /\ MaxVersion \in Nat \ {0}

Fetched == [codes : SUBSET Code, at : 1..MaxVersion]

ASSUME NoListAssumption == NoList \notin Fetched

VARIABLES
  holdings,   \* what the license holds, version by version
  now,        \* the version that counts
  cache,      \* _entitlements_cache
  call,       \* what each thread is doing, and its last answer: see Call
  fresh       \* history: the latest version at which, of the fetches that
              \* were under way when a list was stored, the oldest began

vars == <<holdings, now, cache, call, fresh>>

(* got is the list that was fetched, and then the one the answer is from.    *)
Call == [pc     : {"idle", "asking", "answered"},
         op     : {"has", "refresh"},
         code   : Code,
         began  : 1..MaxVersion,
         got    : Fetched \cup {NoList},
         answer : {"none", "yes", "no", "listed", "error"}]

TypeOK ==
  /\ holdings \in [1..MaxVersion -> SUBSET Code]
  /\ now \in 1..MaxVersion
  /\ cache \in Fetched \cup {NoList}
  /\ call \in [Thread -> Call]
  /\ fresh \in 0..MaxVersion

Init ==
  /\ \E H \in SUBSET Code : holdings = [v \in 1..MaxVersion |-> H]
  /\ now = 1
  /\ cache = NoList
  /\ \E c \in Code :
       call = [t \in Thread |-> [pc |-> "idle", op |-> "has", code |-> c,
                                began |-> 1, got |-> NoList, answer |-> "none"]]
  /\ fresh = 0

-----------------------------------------------------------------------------
Fetching == {t \in Thread : call[t].pc # "idle"}

Ask(t, op, c) ==
  /\ call[t].pc = "idle"
  /\ call' = [call EXCEPT ![t] = [pc |-> "asking", op |-> op, code |-> c, began |-> now,
                                  got |-> NoList, answer |-> "none"]]
  /\ UNCHANGED <<holdings, now, cache, fresh>>

Lookup(c, list) == IF c \in list.codes THEN "yes" ELSE "no"

(* has_entitlement: from the cache if there is one. *)
HasCached(t, c) ==
  /\ call[t].pc = "idle" /\ cache # NoList
  /\ call' = [call EXCEPT ![t] = [pc |-> "idle", op |-> "has", code |-> c, began |-> now,
                                  got |-> cache, answer |-> Lookup(c, cache)]]
  /\ UNCHANGED <<holdings, now, cache, fresh>>

Has(t, c) == cache = NoList /\ Ask(t, "has", c)

(* refresh_entitlements *)
Refresh(t) == Ask(t, "refresh", call[t].code)

(* Mutated: the limit is left to the server, whose default is less. *)
TruncatedMore(H) ==
  IF Cardinality(H) < MaxPage THEN {H}
  ELSE {P \in SUBSET H : Cardinality(P) = MaxPage - 1}

(* One page, in an order that is the server's: all, or MaxPage of them. *)
Truncated(H) ==
  IF Cardinality(H) <= MaxPage THEN {H}
  ELSE {P \in SUBSET H : Cardinality(P) = MaxPage}

(* GET /licenses/{id}/entitlements is answered ... *)
Listed(t) ==
  /\ call[t].pc = "asking"
  /\ \E P \in Truncated(holdings[now]) :
       call' = [call EXCEPT ![t].pc = "answered",
                            ![t].got = [codes |-> P, at |-> now]]
  /\ UNCHANGED <<holdings, now, cache, fresh>>

Answered(t) ==
  /\ call' = [call EXCEPT ![t].pc = "idle",
                          ![t].answer = IF call[t].op = "has"
                                        THEN Lookup(call[t].code, call[t].got)
                                        ELSE "listed"]
  /\ \E u \in Fetching :
       /\ \A v \in Fetching : call[u].began <= call[v].began
       /\ fresh' = IF call[u].began > fresh THEN call[u].began ELSE fresh

(* Mutated: the list that came first stays. *)
StoredOnce(t) ==
  /\ call[t].pc = "answered"
  /\ cache' = IF cache = NoList THEN call[t].got ELSE cache
  /\ Answered(t)
  /\ UNCHANGED <<holdings, now>>

(* ... and stored later, whatever was stored since.  The answer of            *)
(* has_entitlement is from the list it fetched, not from the cache.          *)
Stored(t) ==
  /\ call[t].pc = "answered"
  /\ cache' = call[t].got
  /\ Answered(t)
  /\ UNCHANGED <<holdings, now>>

(* Mutated: a fetch that failed is stored as an empty list. *)
FailedStored(t) ==
  /\ call[t].pc = "asking"
  /\ cache' = [codes |-> {}, at |-> now]
  /\ call' = [call EXCEPT ![t].pc = "idle", ![t].answer = "error"]
  /\ UNCHANGED <<holdings, now, fresh>>

(* Any exception of the request, or the RuntimeError of a resource that has   *)
(* no fetcher: nothing is stored.                                            *)
Failed(t) ==
  /\ call[t].pc = "asking"
  /\ call' = [call EXCEPT ![t].pc = "idle", ![t].answer = "error"]
  /\ UNCHANGED <<holdings, now, cache, fresh>>

(* The application reads the license again: a new resource, nothing cached. *)
Reread ==
  /\ Fetching = {}
  /\ cache' = NoList /\ fresh' = 0
  /\ UNCHANGED <<holdings, now, call>>

-----------------------------------------------------------------------------
(* Entitlements are attached and detached, to the license or its policy. *)
Change(H) ==
  /\ now < MaxVersion /\ H # holdings[now]
  /\ now' = now + 1
  /\ holdings' = [v \in 1..MaxVersion |-> IF v > now THEN H ELSE holdings[v]]
  /\ UNCHANGED <<cache, call, fresh>>

Next ==
  \/ \E t \in Thread :
       \/ \E c \in Code : HasCached(t, c) \/ Has(t, c)
       \/ Refresh(t) \/ Listed(t) \/ Stored(t) \/ Failed(t)
  \/ Reread
  \/ \E H \in SUBSET Code : Change(H)

Spec == Init /\ [][Next]_vars

-----------------------------------------------------------------------------
(* Properties. *)

(* A negative has_entitlement "is only authoritative below that ceiling"      *)
(* (EntitlementsClient.list), and there it is: the license did not hold the   *)
(* code in the version the answer is from.  A positive one always is right    *)
(* about its version.  Neither ever comes from a fetch that failed.          *)
AnswersTrue ==
  \A t \in Thread :
    LET k == call[t]
    IN  /\ k.answer = "yes" => k.code \in holdings[k.got.at]
        /\ k.answer = "no" => \/ k.code \notin holdings[k.got.at]
                              \/ Cardinality(holdings[k.got.at]) > MaxPage

(* A refresh lasts.  Threads may store in another order than they fetched,    *)
(* so the cache can be older than the latest refresh, but however they race   *)
(* it is no older than the beginning of the oldest fetch that was under way   *)
(* when one was stored.  For a refresh that no fetch overlaps that is its own *)
(* beginning: what was revoked before it never answers yes again.            *)
RefreshLasts ==
  cache # NoList => cache.at >= fresh

(* The inductive strengthening: lists in hand and in store are of versions     *)
(* that were, and were begun no later than they were taken.                  *)
ListTrue(list) ==
  /\ list.at <= now
  /\ list.codes \in Truncated(holdings[list.at])

CallInv(k) ==
  /\ k.began <= now
  /\ k.got # NoList => ListTrue(k.got)
  /\ k.pc = "asking" => k.got = NoList
  /\ k.pc = "answered" => k.got # NoList /\ k.began <= k.got.at
  /\ k.pc # "idle" => k.answer = "none"
  /\ k.answer \in {"yes", "no"} => k.got # NoList /\ k.answer = Lookup(k.code, k.got)
  /\ k.pc # "idle" => k.began >= fresh

EntitlementsInv ==
  /\ TypeOK
  /\ cache # NoList => ListTrue(cache)
  /\ fresh <= now
  /\ \A t \in Thread : CallInv(call[t])
  /\ RefreshLasts
=============================================================================
