------------------------- MODULE EntitlementsProofs -------------------------
(* Theorems about Entitlements.  One thread moves at a time, so a step is     *)
(* shown to keep the call of that thread in order, and what it changes to     *)
(* leave the others alone.                                                 *)
EXTENDS Entitlements, FiniteSetTheorems, TLAPS

(* What the constants are.                                                    *)
LEMMA Bounds == MaxPage \in Nat \ {0} /\ MaxVersion \in Nat \ {0}
BY EntitlementsAssumption

(* Sets of codes are finite, and can be counted. *)
LEMMA Counted ==
  ASSUME NEW H \in SUBSET Code
  PROVE  Cardinality(H) \in Nat
BY EntitlementsAssumption, FS_Subset, FS_CardinalityType

(* What a page says is so, and all there is if there is room for it. *)
LEMMA PageTrue ==
  ASSUME NEW H \in SUBSET Code, NEW P \in Truncated(H)
  PROVE  P \subseteq H /\ (P = H \/ Cardinality(H) > MaxPage)
BY Counted, Bounds DEF Truncated

(* Nothing is cached and nobody asked.                                        *)
LEMMA Initially == Init => EntitlementsInv
<1> SUFFICES ASSUME Init PROVE EntitlementsInv
  OBVIOUS
<1> USE Bounds
<1>1. PICK c \in Code :
        call = [t \in Thread |-> [pc |-> "idle", op |-> "has", code |-> c,
                                 began |-> 1, got |-> NoList, answer |-> "none"]]
  BY DEF Init
<1>2. TypeOK
  <2>1. call \in [Thread -> Call]
    BY <1>1 DEF Call
  <2> QED BY <2>1 DEF Init, TypeOK
<1>3. \A t \in Thread : CallInv(call[t])
  BY <1>1 DEF Init, CallInv
<1> QED BY <1>2, <1>3 DEF Init, EntitlementsInv, RefreshLasts

-----------------------------------------------------------------------------
(* Of the fetches that are under way, u is the oldest.                       *)
Oldest(u) == \A v \in Fetching : call[u].began <= call[v].began

(* Only the call of t changes, and t is not new among those that fetch. *)
OneCall(t) ==
  /\ call' = [call EXCEPT ![t] = call'[t]] /\ call'[t] \in Call
  /\ call'[t].pc = "idle" \/ call[t].pc # "idle"
  /\ UNCHANGED <<holdings, now>>
  /\ cache' \in Fetched \cup {NoList}
  /\ \/ fresh' = fresh
     \/ \E u \in Fetching : Oldest(u) /\ fresh' = call[u].began

(* Such a step keeps the invariant if it leaves t and the cache in order. *)
LEMMA OneCallStep ==
  ASSUME EntitlementsInv, NEW t \in Thread, OneCall(t),
         CallInv(call[t])', cache' # NoList => ListTrue(cache)', RefreshLasts'
  PROVE  EntitlementsInv'
<1> USE Bounds DEF EntitlementsInv, OneCall
<1>1. call \in [Thread -> Call] /\ call' \in [Thread -> Call]
  BY DEF TypeOK
<1>2. \A u \in Fetching :
        /\ call[u].began \in 1..MaxVersion /\ call[u].began <= now
        /\ call[u].began >= fresh
  BY <1>1 DEF Call, CallInv, Fetching
<1>3. fresh' \in 0..MaxVersion /\ fresh' <= now' /\ \A u \in Fetching : call[u].began >= fresh'
  <2>1. CASE fresh' = fresh
    BY <1>2, <2>1 DEF TypeOK
  <2>2. ASSUME NEW u \in Fetching, Oldest(u), fresh' = call[u].began
        PROVE  /\ fresh' \in 0..MaxVersion /\ fresh' <= now'
               /\ \A v \in Fetching : call[v].began >= fresh'
    BY <1>2, <2>2 DEF Oldest
  <2> QED BY <2>1, <2>2
<1>4. TypeOK'
  BY <1>1, <1>3 DEF TypeOK
<1>5. \A u \in Thread : u # t => call'[u] = call[u]
  BY <1>1
<1>6. ASSUME NEW u \in Thread PROVE CallInv(call[u])'
  <2>1. CASE u = t
    BY <2>1
  <2>2. CASE u # t
    <3>1. CallInv(call[u]) /\ call'[u] = call[u]
      BY <1>5, <2>2
    <3>2. call[u].pc # "idle" => call[u].began >= fresh'
      BY <1>3 DEF Fetching
    <3> QED BY <3>1, <3>2 DEF CallInv, ListTrue
  <2> QED BY <2>1, <2>2
<1> QED BY <1>3, <1>4, <1>6

(* A request goes out. *)
LEMMA AskStep ==
  ASSUME EntitlementsInv, NEW t \in Thread, NEW op \in {"has", "refresh"},
         NEW c \in Code, Ask(t, op, c)
  PROVE  EntitlementsInv'
<1> USE Bounds DEF EntitlementsInv, Ask
<1>1. now \in 1..MaxVersion /\ call \in [Thread -> Call]
  BY DEF TypeOK
<1>2. call'[t] = [pc |-> "asking", op |-> op, code |-> c, began |-> now,
                  got |-> NoList, answer |-> "none"]
  BY <1>1
<1>3. \A u \in Thread : u # t => call'[u] = call[u]
  BY <1>1
<1>4. TypeOK'
  <2>1. call'[t] \in Call
    BY <1>1, <1>2 DEF Call
  <2>2. call' \in [Thread -> Call]
    BY <1>1, <2>1
  <2> QED BY <2>2 DEF TypeOK
<1>5. ASSUME NEW u \in Thread PROVE CallInv(call[u])'
  <2>1. CASE u = t
    <3>1. fresh' <= now'
      OBVIOUS
    <3> QED BY <1>1, <1>2, <2>1, <3>1 DEF CallInv, TypeOK
  <2>2. CASE u # t
    <3>1. CallInv(call[u]) /\ call'[u] = call[u]
      BY <1>3, <2>2
    <3> QED BY <3>1 DEF CallInv, ListTrue
  <2> QED BY <2>1, <2>2
<1>6. cache' # NoList => ListTrue(cache)'
  BY DEF ListTrue
<1>7. RefreshLasts'
  BY DEF RefreshLasts
<1>8. fresh' <= now'
  OBVIOUS
<1> QED BY <1>4, <1>5, <1>6, <1>7, <1>8

-----------------------------------------------------------------------------
(* Every step keeps the invariant.                                            *)
LEMMA EntitlementsStep ==
  ASSUME EntitlementsInv, [Next]_vars
  PROVE  EntitlementsInv'
<1> USE Bounds
<1>1. TypeOK /\ now \in 1..MaxVersion /\ call \in [Thread -> Call]
  BY DEF EntitlementsInv, TypeOK
<1>2. ASSUME NEW t \in Thread, NEW c \in Code, HasCached(t, c)
      PROVE  EntitlementsInv'
  <2>1. call'[t] = [pc |-> "idle", op |-> "has", code |-> c, began |-> now,
                    got |-> cache, answer |-> Lookup(c, cache)]
    BY <1>1, <1>2 DEF HasCached
  <2>2. cache # NoList /\ cache \in Fetched \cup {NoList} /\ ListTrue(cache)
    BY <1>1, <1>2 DEF HasCached, EntitlementsInv, TypeOK
  <2>3. Lookup(c, cache) \in {"yes", "no"}
    BY DEF Lookup
  <2>4. OneCall(t)
    BY <1>1, <1>2, <2>1, <2>2, <2>3 DEF HasCached, OneCall, Call
  <2>5. CallInv(call[t])'
    BY <1>1, <1>2, <2>1, <2>2 DEF HasCached, CallInv, ListTrue, Lookup
  <2>6. ListTrue(cache)' /\ RefreshLasts'
    BY <1>2, <2>2 DEF HasCached, EntitlementsInv, RefreshLasts, ListTrue
  <2> QED BY <2>4, <2>5, <2>6, OneCallStep
<1>3. ASSUME NEW t \in Thread, NEW c \in Code, Has(t, c)
      PROVE  EntitlementsInv'
  BY <1>3, AskStep DEF Has
<1>4. ASSUME NEW t \in Thread, Refresh(t)
      PROVE  EntitlementsInv'
  <2>1. call[t].code \in Code
    BY <1>1 DEF Call
  <2> QED BY <1>4, <2>1, AskStep DEF Refresh
<1>5. ASSUME NEW t \in Thread, Listed(t)
      PROVE  EntitlementsInv'
  <2>1. PICK P \in Truncated(holdings[now]) :
          call' = [call EXCEPT ![t].pc = "answered", ![t].got = [codes |-> P, at |-> now]]
    BY <1>5 DEF Listed
  <2>2. P \in SUBSET Code
    BY <1>1, PageTrue DEF TypeOK
  <2>3. call[t] \in Call /\ CallInv(call[t]) /\ call[t].pc = "asking"
    BY <1>1, <1>5 DEF Listed, EntitlementsInv
  <2>4. call'[t] = [call[t] EXCEPT !.pc = "answered", !.got = [codes |-> P, at |-> now]]
    BY <1>1, <2>1
  <2>5. [codes |-> P, at |-> now] \in Fetched
    BY <1>1, <2>2 DEF Fetched
  <2>6. OneCall(t)
    <3>1. call'[t] \in Call
      BY <2>3, <2>4, <2>5 DEF Call
    <3>2. call' = [call EXCEPT ![t] = call'[t]]
      BY <1>1, <2>1
    <3> QED BY <1>1, <1>5, <2>3, <3>1, <3>2 DEF Listed, OneCall, TypeOK
  <2>7. CallInv(call[t])'
    <3>1. call'[t].got = [codes |-> P, at |-> now] /\ call'[t].got # NoList
      BY <2>3, <2>4, <2>5, NoListAssumption DEF Call
    <3>2. /\ call'[t].pc = "answered" /\ call'[t].answer = "none"
          /\ call'[t].began = call[t].began
      BY <2>3, <2>4 DEF Call, CallInv
    <3>3. UNCHANGED <<holdings, now, fresh>>
      BY <1>5 DEF Listed
    <3>4. call[t].began <= now /\ call[t].began >= fresh
      BY <2>3 DEF CallInv
    <3>5. ListTrue(call[t].got)'
      BY <1>1, <3>1, <3>3 DEF ListTrue
    <3> QED BY <3>1, <3>2, <3>3, <3>4, <3>5 DEF CallInv
  <2>8. (cache # NoList => ListTrue(cache))' /\ RefreshLasts'
    BY <1>5 DEF Listed, EntitlementsInv, RefreshLasts, ListTrue
  <2> QED BY <2>6, <2>7, <2>8, OneCallStep
<1>6. ASSUME NEW t \in Thread, Stored(t)
      PROVE  EntitlementsInv'
  <2>1. call[t] \in Call /\ CallInv(call[t]) /\ call[t].pc = "answered"
    BY <1>1, <1>6 DEF Stored, EntitlementsInv
  <2>2. PICK a \in {"yes", "no", "listed"} :
          /\ call' = [call EXCEPT ![t].pc = "idle", ![t].answer = a]
          /\ a # "listed" => a = Lookup(call[t].code, call[t].got)
    BY <1>6 DEF Stored, Answered, Lookup
  <2>3. call'[t] = [call[t] EXCEPT !.pc = "idle", !.answer = a]
    BY <1>1, <2>2
  <2>4. call[t].got \in Fetched /\ ListTrue(call[t].got) /\ call[t].began <= call[t].got.at
    BY <2>1 DEF Call, CallInv
  <2>5. cache' = call[t].got /\ UNCHANGED <<holdings, now>>
    BY <1>6 DEF Stored
  <2>6. PICK u \in Fetching :
          Oldest(u) /\ fresh' = IF call[u].began > fresh THEN call[u].began ELSE fresh
    BY <1>6 DEF Stored, Answered, Oldest
  <2>7. OneCall(t)
    <3>1. call'[t] \in Call
      BY <2>1, <2>3 DEF Call
    <3>2. call' = [call EXCEPT ![t] = call'[t]]
      BY <1>1, <2>2
    <3> QED BY <2>1, <2>3, <2>4, <2>5, <2>6, <3>1, <3>2 DEF OneCall, Call
  <2>8. CallInv(call[t])'
    <3>1. /\ call'[t].pc = "idle" /\ call'[t].answer = a
          /\ call'[t].got = call[t].got /\ call'[t].code = call[t].code
          /\ call'[t].began = call[t].began
      BY <2>1, <2>3 DEF Call
    <3>2. call[t].began <= now /\ call[t].got # NoList
      BY <2>1 DEF CallInv
    <3>3. ListTrue(call[t].got)'
      BY <2>4, <2>5, <3>1 DEF ListTrue
    <3>4. a \in {"yes", "no"} => a = Lookup(call[t].code, call[t].got)
      BY <2>2
    <3> QED BY <2>5, <3>1, <3>2, <3>3, <3>4 DEF CallInv, Lookup
  <2>9. ListTrue(cache)'
    BY <2>4, <2>5 DEF ListTrue
  <2>10. RefreshLasts'
    <3>1. call[t].began >= fresh
      BY <2>1 DEF CallInv
    <3>2. call[u].began <= call[t].began
      BY <2>1, <2>6 DEF Oldest, Fetching
    <3>3. /\ fresh \in Int /\ call[t].got.at \in Int
          /\ call[t].began \in Int /\ call[u].began \in Int
      BY <1>1, <2>1, <2>4 DEF TypeOK, Call, Fetched, Fetching
    <3>4. call[t].got.at >= fresh'
      BY <2>4, <2>6, <3>1, <3>2, <3>3
    <3> QED BY <2>5, <3>4 DEF RefreshLasts
  <2> QED BY <2>7, <2>8, <2>9, <2>10, OneCallStep
<1>7. ASSUME NEW t \in Thread, Failed(t)
      PROVE  EntitlementsInv'
  <2>1. call[t] \in Call /\ CallInv(call[t]) /\ call[t].pc = "asking"
    BY <1>1, <1>7 DEF Failed, EntitlementsInv
  <2>2. call'[t] = [call[t] EXCEPT !.pc = "idle", !.answer = "error"]
    BY <1>1, <1>7 DEF Failed
  <2>3. OneCall(t)
    <3>1. call'[t] \in Call
      BY <2>1, <2>2 DEF Call
    <3>2. call' = [call EXCEPT ![t] = call'[t]]
      BY <1>1, <1>7 DEF Failed
    <3> QED BY <1>1, <1>7, <2>1, <3>1, <3>2 DEF Failed, OneCall, TypeOK
  <2>4. CallInv(call[t])'
    <3>1. /\ call'[t].pc = "idle" /\ call'[t].answer = "error"
          /\ call'[t].got = NoList /\ call'[t].began = call[t].began
      BY <2>1, <2>2 DEF Call, CallInv
    <3>2. call[t].began <= now /\ now' = now
      BY <1>7, <2>1 DEF Failed, CallInv
    <3> QED BY <3>1, <3>2 DEF CallInv
  <2>5. (cache # NoList => ListTrue(cache))' /\ RefreshLasts'
    BY <1>7 DEF Failed, EntitlementsInv, RefreshLasts, ListTrue
  <2> QED BY <2>3, <2>4, <2>5, OneCallStep
<1>8. CASE Reread
  <2>1. Fetching' = {}
    BY <1>8 DEF Reread, Fetching
  <2>2. \A t \in Thread : CallInv(call[t])'
    BY <1>8, <2>1 DEF Reread, EntitlementsInv, CallInv, ListTrue, Fetching
  <2>3. TypeOK'
    BY <1>1, <1>8 DEF Reread, TypeOK
  <2> QED BY <1>1, <1>8, <2>1, <2>2, <2>3 DEF Reread, EntitlementsInv, RefreshLasts
<1>9. ASSUME NEW H \in SUBSET Code, Change(H)
      PROVE  EntitlementsInv'
  <2>1. now' = now + 1 /\ \A v \in 1..MaxVersion : v <= now => holdings'[v] = holdings[v]
    BY <1>1, <1>9 DEF Change
  <2>2. ASSUME NEW list \in Fetched, ListTrue(list)
        PROVE  list.at <= now' /\ list.codes \in Truncated(holdings'[list.at])
    BY <1>1, <2>1, <2>2 DEF ListTrue, Fetched
  <2>3. TypeOK'
    BY <1>1, <1>9 DEF Change, TypeOK
  <2>4. ASSUME NEW t \in Thread PROVE CallInv(call[t])'
    <3>1. call[t] \in Call /\ CallInv(call[t])
      BY <1>1 DEF EntitlementsInv
    <3>2. call'[t] = call[t] /\ fresh' = fresh
      BY <1>9 DEF Change
    <3>3. call[t].began <= now'
      BY <1>1, <2>1, <3>1 DEF CallInv, Call, TypeOK
    <3>4. call[t].got # NoList => ListTrue(call[t].got)'
      BY <2>2, <3>1, <3>2 DEF CallInv, Call, ListTrue
    <3> QED BY <3>1, <3>2, <3>3, <3>4 DEF CallInv
  <2>5. cache' # NoList => ListTrue(cache)'
    BY <1>1, <1>9, <2>2 DEF Change, EntitlementsInv, TypeOK, ListTrue
  <2>6. fresh' <= now'
    BY <1>1, <1>9 DEF Change, EntitlementsInv, TypeOK
  <2>7. RefreshLasts'
    BY <1>9 DEF Change, EntitlementsInv, RefreshLasts
  <2> QED BY <2>3, <2>4, <2>5, <2>6, <2>7 DEF EntitlementsInv
<1>10. CASE UNCHANGED vars
  BY <1>10 DEF vars, EntitlementsInv, TypeOK, CallInv, ListTrue, Fetching, RefreshLasts
<1> QED
  BY <1>2, <1>3, <1>4, <1>5, <1>6, <1>7, <1>8, <1>9, <1>10 DEF Next

-----------------------------------------------------------------------------
(* Lists in hand and in store are what the server said, of versions that were  *)
(* (LicenseResource and its cache).                                         *)
THEOREM EntitlementsInvariance == Spec => []EntitlementsInv
<1>1. Init => EntitlementsInv
  BY Initially
<1>2. EntitlementsInv /\ [Next]_vars => EntitlementsInv'
  BY EntitlementsStep
<1> QED BY <1>1, <1>2, PTL DEF Spec

(* has_entitlement answers no only for what the license did not hold, up to    *)
(* the ceiling of a page, and yes only for what it did.                      *)
THEOREM TrueAnswers == Spec => []AnswersTrue
<1>1. EntitlementsInv => AnswersTrue
  <2> SUFFICES ASSUME EntitlementsInv, NEW t \in Thread,
                      call[t].answer \in {"yes", "no"}
               PROVE  /\ call[t].answer = "yes" =>
                           call[t].code \in holdings[call[t].got.at]
                      /\ call[t].answer = "no" =>
                           \/ call[t].code \notin holdings[call[t].got.at]
                           \/ Cardinality(holdings[call[t].got.at]) > MaxPage
    BY DEF AnswersTrue
  <2> DEFINE got == call[t].got
  <2>1. CallInv(call[t]) /\ call[t] \in Call
    BY DEF EntitlementsInv, TypeOK
  <2>2. got \in Fetched /\ ListTrue(got) /\ call[t].answer = Lookup(call[t].code, got)
    BY <2>1 DEF CallInv, Call
  <2>3. holdings[got.at] \in SUBSET Code
    BY <2>2 DEF EntitlementsInv, TypeOK, Fetched
  <2>4. /\ got.codes \subseteq holdings[got.at]
        /\ got.codes = holdings[got.at] \/ Cardinality(holdings[got.at]) > MaxPage
    BY <2>2, <2>3, PageTrue DEF ListTrue
  <2>5. /\ call[t].answer = "yes" => call[t].code \in got.codes
        /\ call[t].answer = "no" => call[t].code \notin got.codes
    BY <2>2 DEF Lookup
  <2> QED BY <2>4, <2>5
<1> QED BY <1>1, EntitlementsInvariance, PTL

(* After a refresh the cache is no older than it, or, where threads race,      *)
(* than the oldest fetch that was under way (refresh_entitlements).          *)
THEOREM LastingRefresh == Spec => []RefreshLasts
<1>1. EntitlementsInv => RefreshLasts
  BY DEF EntitlementsInv
<1> QED BY <1>1, EntitlementsInvariance, PTL
=============================================================================
