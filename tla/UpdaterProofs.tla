--------------------------- MODULE UpdaterProofs ---------------------------
(***************************************************************************)
(* Theorems about KeysetListing, on its own and inside a session of Updater, *)
(* and about Updater.  The request and the listing inside a session keep the *)
(* invariants they have on their own.                                       *)
(***************************************************************************)
EXTENDS Updater, RetryProofs, FiniteSetTheorems

(* The listing on its own. *)

(* A page the client takes for the last one is all there is beyond the cursor, *)
(* if the limit was one the server applies (_next_after_cursor).             *)
LEMMA ShortIsLast ==
  ASSUME NEW R, NEW P, R \subseteq Key, NEW limit \in Limits,
         IsPage(P, R, Applied(Effective(limit))),
         LastPage(P, limit), ~Clamped(limit)
  PROVE  P = R
<1> DEFINE n == Effective(limit)
<1>1. n \in Int /\ n <= MaxPage
  BY ListingAssumption DEF Effective, Clamped
<1>2. IsFiniteSet(P)
  BY ListingAssumption, FS_Subset DEF IsPage
<1>3. Cardinality(P) \in Nat
  BY <1>2, FS_CardinalityType
<1>4. Cardinality({}) = 0
  BY FS_EmptySet
<1>5. P = R \/ Cardinality(P) = Applied(n)
  BY DEF IsPage
<1>6. CASE P = {}
  <2>1. Applied(n) # 0
    BY <1>1, ListingAssumption DEF Applied
  <2> QED BY <1>4, <1>5, <1>6, <2>1
<1>7. CASE Cardinality(P) < n
  <2>1. Applied(n) = n
    BY <1>1, <1>3, <1>7, ListingAssumption DEF Applied
  <2> QED BY <1>1, <1>3, <1>5, <1>7, <2>1
<1> QED BY <1>6, <1>7 DEF LastPage

(* Before the first page there is nothing to violate.                         *)
LEMMA ListInitial == ListInit => ListingInv
BY DEF ListInit, ListingInv, ListTypeOK, CompleteListing

(* Every step keeps the invariant of the listing; a page does by ShortIsLast. *)
LEMMA ListStep ==
  ASSUME ListingInv, [ListNext]_listVars
  PROVE  ListingInv'
<1> USE DEF ListingInv, ListTypeOK, CompleteListing
<1>1. CASE ListBegin
  BY <1>1, ListingAssumption DEF ListBegin
<1>2. CASE ListNothing
  BY <1>2 DEF ListNothing
<1>3. CASE ListFails
  BY <1>3 DEF ListFails
<1>4. CASE ListDropped
  BY <1>4 DEF ListDropped
<1>5. ASSUME NEW limit \in Limits, ListPage(limit)
      PROVE  ListingInv'
  <2>1. PICK P \in SUBSET Beyond :
          /\ IsPage(P, Beyond, Applied(Effective(limit)))
          /\ page' = P /\ seen' = seen \cup P
          /\ \/ /\ LastPage(P, limit)
                /\ status' = "complete"
                /\ ending' = IF Clamped(limit) THEN "clamped" ELSE "short"
                /\ UNCHANGED cursor
             \/ /\ ~LastPage(P, limit)
                /\ cursor' \in LastOf(P)
                /\ UNCHANGED <<status, ending>>
    BY <1>5 DEF ListPage
  <2>2. status = "open" /\ UNCHANGED <<rows, used, there>>
    BY <1>5 DEF ListPage
  <2>3. Beyond \subseteq Key /\ P \subseteq rows /\ Key \subseteq Int /\ cursor \in Int
    <3>1. rows \subseteq Key
      OBVIOUS
    <3>2. Beyond \subseteq rows
      BY DEF Beyond
    <3>3. Key \subseteq Int /\ cursor \in Int
      BY ListingAssumption
    <3> HIDE DEF ListingInv, ListTypeOK, CompleteListing
    <3> QED BY <3>1, <3>2, <3>3
  <2>4. CASE LastPage(P, limit)
    <3>1. CASE Clamped(limit)
      BY <2>1, <2>2, <2>3, <2>4, <3>1
    <3>2. CASE ~Clamped(limit)
      <4>1. P = Beyond
        BY <2>1, <2>3, <2>4, <3>2, ShortIsLast
      <4>2. there \subseteq seen'
        BY <2>1, <2>2, <2>3, <4>1 DEF Beyond
      <4> QED BY <2>1, <2>2, <2>3, <2>4, <4>2
    <3> QED BY <3>1, <3>2
  <2>5. CASE ~LastPage(P, limit)
    <3>1. cursor' \in P /\ (\A m \in P : m <= cursor') /\ UNCHANGED <<status, ending>>
      BY <2>1, <2>5 DEF LastOf
    <3>2. \A k \in P : k > cursor
      BY DEF Beyond
    <3>3. \A k \in there : k <= cursor' => k \in seen'
      <4>1. SUFFICES ASSUME NEW k \in there, k <= cursor', k > cursor
                     PROVE  k \in P
        BY <2>1, <2>2, <2>3
      <4>2. k \in Beyond
        BY <4>1 DEF Beyond
      <4> QED BY <2>1, <2>3, <3>1, <4>1, <4>2 DEF IsPage
    <3>4. \A k \in seen' : k <= cursor'
      BY <2>1, <2>2, <2>3, <3>1, <3>2
    <3> QED BY <2>1, <2>2, <2>3, <3>1, <3>3, <3>4
  <2> QED BY <2>4, <2>5
<1>6. ASSUME NEW k \in Key, Insert(k)
      PROVE  ListingInv'
  BY <1>6 DEF Insert
<1>7. ASSUME NEW k \in Key, Delete(k)
      PROVE  ListingInv'
  BY <1>7 DEF Delete
<1>8. CASE UNCHANGED listVars
  BY <1>8 DEF listVars
<1> QED BY <1>1, <1>2, <1>3, <1>4, <1>5, <1>6, <1>7, <1>8 DEF ListNext

(* A listing reads in order and leaves out nothing that is there (list and    *)
(* _next_after_cursor in client.py).                                        *)
THEOREM ListingInvariance == ListSpec => []ListingInv
<1>1. ListInit => ListingInv
  BY ListInitial
<1>2. ListingInv /\ [ListNext]_listVars => ListingInv'
  BY ListStep
<1> QED BY <1>1, <1>2, PTL DEF ListSpec

-----------------------------------------------------------------------------
(* The refinement. *)

(* Both begin without a listing.                                              *)
LEMMA PromiseInitial == ListInit => Promise!Init
BY DEF ListInit, Promise!Init

(* Every step of the listing is one of Listing, or a stutter.                 *)
LEMMA PromiseStep ==
  ASSUME ListingInv, ListingInv', [ListNext]_listVars
  PROVE  [Promise!Next]_(Promise!vars)
<1> USE DEF ListingInv, ListTypeOK
<1>1. CASE ListBegin
  <2>1. Promise!Begin
    BY <1>1 DEF ListBegin, Promise!Begin
  <2> QED BY <2>1 DEF Promise!Next
<1>2. CASE ListNothing
  <2>1. Promise!Cut
    BY <1>2 DEF ListNothing, CursorLost, Promise!Cut
  <2> QED BY <2>1 DEF Promise!Next
<1>3. CASE ListFails
  <2>1. Promise!Fail
    BY <1>3 DEF ListFails, Promise!Fail
  <2> QED BY <2>1 DEF Promise!Next
<1>4. CASE ListDropped
  <2>1. Promise!Forget
    BY <1>4 DEF ListDropped, Promise!Forget
  <2> QED BY <2>1 DEF Promise!Next
<1>5. ASSUME NEW limit \in Limits, ListPage(limit)
      PROVE  Promise!Read
  <2>1. PICK P \in SUBSET Beyond :
          /\ page' = P /\ seen' = seen \cup P
          /\ \/ /\ status' = "complete"
                /\ ending' = IF Clamped(limit) THEN "clamped" ELSE "short"
             \/ UNCHANGED <<status, ending>>
    BY <1>5 DEF ListPage
  <2>2. status = "open" /\ ending = "none" /\ UNCHANGED <<rows, there>>
    BY <1>5 DEF ListPage
  <2>3. page' \subseteq rows /\ page' \cap seen = {}
    <3>1. P \subseteq rows /\ \A k \in P : k > cursor
      BY DEF Beyond
    <3>2. Key \subseteq Int /\ cursor \in Int
      BY ListingAssumption
    <3> QED BY <2>1, <2>2, <3>1, <3>2
  <2>4. seen' = seen \cup page'
    BY <2>1
  <2>5. CASE status' = "complete" /\ ending' = "clamped" /\ Clamped(limit)
    BY <2>2, <2>3, <2>4, <2>5 DEF Promise!Read
  <2>6. CASE status' = "complete" /\ ending' = "short"
    <3>1. there \subseteq seen'
      BY <2>2, <2>6 DEF CompleteListing
    <3> QED BY <2>2, <2>3, <2>4, <2>6, <3>1 DEF Promise!Read
  <2>7. CASE UNCHANGED <<status, ending>>
    BY <2>2, <2>3, <2>4, <2>7 DEF Promise!Read
  <2> QED BY <2>1, <2>5, <2>6, <2>7
<1>6. ASSUME NEW k \in Key, Insert(k)
      PROVE  Promise!Change
  BY <1>6 DEF Insert, Promise!Change
<1>7. ASSUME NEW k \in Key, Delete(k)
      PROVE  Promise!Change
  BY <1>7 DEF Delete, Promise!Change
<1>8. CASE UNCHANGED listVars
  BY <1>8 DEF listVars, Promise!vars
<1> QED BY <1>1, <1>2, <1>3, <1>4, <1>5, <1>6, <1>7, <1>8 DEF ListNext, Promise!Next

(* Paging by key implements Listing, whoever lists and whatever else goes on:  *)
(* each page, each lost cursor and each row that comes or goes is a step of    *)
(* Listing (list and _next_after_cursor in client.py).                      *)
THEOREM ListingImplements == ListSpec => ImplementsListing
<1>1. ListInit => Promise!Init
  BY PromiseInitial
<1>2. ListingInv /\ ListingInv' /\ [ListNext]_listVars => [Promise!Next]_(Promise!vars)
  BY PromiseStep
<1> QED BY <1>1, <1>2, ListingInvariance, PTL DEF ListSpec, ImplementsListing, Promise!Spec

-----------------------------------------------------------------------------
(* Updater. *)

(* Whatever a session does, its request goes on as Retry says ... *)
LEMMA CallMoves == Next => [RetryNext]_callVars
<1> SUFFICES ASSUME Next PROVE [RetryNext]_callVars
  OBVIOUS
<1> USE DEF callVars
<1>1. CASE SessionStep
  <2>1. CASE List \/ ListingFailed \/ Nothing \/ \E t \in Ttls : TtlRefused(t)
    BY <2>1 DEF List, ListingFailed, Nothing, TtlRefused
  <2>2. ASSUME NEW k \in Key, NEW t \in Ttls, Download(k, t)
        PROVE  RetryNext
    <3>1. Begin(Presign)
      BY <2>2 DEF Download
    <3> QED BY <3>1, UpdaterAssumption DEF RetryNext
  <2>3. CASE PresignSent \/ Presigned \/ NoUrl \/ PresignFails \/ PresignWake
    <3>1. Send \/ Answered \/ NotFound \/ Broken \/ Surfaces \/ Wake
      BY <2>3 DEF PresignSent, Presigned, NoUrl, PresignFails, PresignWake
    <3> QED BY <3>1 DEF RetryNext
  <2>4. ASSUME NEW hint \in RetryAfter \cup {NoHeader}, PresignThrottled(hint)
        PROVE  RetryNext
    <3>1. Throttled(hint)
      BY <2>4 DEF PresignThrottled
    <3> QED BY <3>1 DEF RetryNext
  <2>5. CASE Fetch \/ FetchBroken
    BY <2>5 DEF Fetch, FetchBroken
  <2> QED BY <1>1, <2>1, <2>2, <2>3, <2>4, <2>5 DEF SessionStep
<1>2. CASE Current \/ Upgrade \/ Suspend
  BY <1>2 DEF Current, Upgrade, Suspend
<1>3. ASSUME NEW k \in Key, Published(k) \/ Withdrawn(k)
      PROVE  UNCHANGED callVars
  BY <1>3 DEF Published, Withdrawn
<1> QED BY <1>1, <1>2, <1>3 DEF Next

(* ... and its listing as KeysetListing says. *)
LEMMA ListMoves == Next => [ListNext]_listVars
<1> SUFFICES ASSUME Next PROVE [ListNext]_listVars
  OBVIOUS
<1> USE DEF listVars
<1>1. CASE SessionStep
  <2>1. CASE List
    BY <2>1 DEF List, ListNext
  <2>2. CASE ListingFailed \/ Nothing \/ \E t \in Ttls : TtlRefused(t)
    <3>1. ListFails \/ ListDropped
      BY <2>2 DEF ListingFailed, Nothing, TtlRefused
    <3> QED BY <3>1 DEF ListNext
  <2>3. ASSUME NEW k \in Key, NEW t \in Ttls, Download(k, t)
        PROVE  ListNext
    <3>1. ListDropped
      BY <2>3 DEF Download
    <3> QED BY <3>1 DEF ListNext
  <2>4. CASE PresignSent \/ Presigned \/ NoUrl \/ PresignFails \/ PresignWake
    BY <2>4 DEF PresignSent, Presigned, NoUrl, PresignFails, PresignWake
  <2>5. ASSUME NEW hint \in RetryAfter \cup {NoHeader}, PresignThrottled(hint)
        PROVE  UNCHANGED listVars
    BY <2>5 DEF PresignThrottled
  <2>6. CASE Fetch \/ FetchBroken
    BY <2>6 DEF Fetch, FetchBroken
  <2> QED BY <1>1, <2>1, <2>2, <2>3, <2>4, <2>5, <2>6 DEF SessionStep
<1>2. CASE Current \/ Suspend
  BY <1>2 DEF Current, Suspend
<1>3. CASE Upgrade
  <2>1. ListBegin
    BY <1>3 DEF Upgrade
  <2> QED BY <2>1 DEF ListNext
<1>4. ASSUME NEW k \in Key, Published(k) \/ Withdrawn(k)
      PROVE  ListNext
  <2>1. Insert(k) \/ Delete(k)
    BY <1>4 DEF Published, Withdrawn
  <2> QED BY <2>1 DEF ListNext
<1> QED BY <1>1, <1>2, <1>3, <1>4 DEF Next

-----------------------------------------------------------------------------
(* The session around them. *)

SessionShape ==
  /\ pc = "list" <=> status = "open"
  /\ pc = "choose" <=> status = "complete"
  /\ pc # "presign" => phase = "done"
  /\ pick # 0 <=> pc \in {"presign", "fetch"}
  /\ pc # "idle" => ~lapsed
  /\ age <= MaxTrip \/ (pc = "fetch" /\ suspended)

SessionInv == SessionTypeOK /\ SessionShape

(* What the constants are.                                                    *)
LEMMA Bounds == MaxTrip \in Nat /\ MaxAge \in Nat /\ DefaultTtl \in Nat /\ MinTtl \in Nat
BY UpdaterAssumption

(* Before the first session there is nothing to violate.                      *)
LEMMA Initially == Init => UpdaterInv /\ NeverLapsed
<1> SUFFICES ASSUME Init PROVE UpdaterInv /\ NeverLapsed
  OBVIOUS
<1>1. RetryInv
  BY UpdaterAssumption, RetryAssumption
  DEF Init, RetryInv, CallTypeOK, Results
<1>2. ListingInv
  BY ListInitial DEF Init
<1>3. SessionTypeOK
  BY Bounds DEF Init, ListInit, SessionTypeOK, Outcomes
<1>4. SessionShape
  <2>1. age <= MaxTrip
    BY Bounds DEF Init
  <2> QED BY <2>1 DEF Init, ListInit, SessionShape
<1> QED BY <1>1, <1>2, <1>3, <1>4 DEF UpdaterInv, SessionShape, NeverLapsed, Init

(* Every step keeps what a session adds to its request and its listing.       *)
LEMMA SessionStays ==
  ASSUME SessionInv, Next, ListTypeOK, RetryInv', Key \subseteq Nat \ {0}
  PROVE  SessionInv'
<1> USE Bounds DEF SessionInv, SessionShape, SessionTypeOK, Outcomes
<1>1. CASE Current
  BY <1>1 DEF Current, listVars, callVars
<1>2. CASE Upgrade
  <2>1. SessionTypeOK'
    BY <1>2 DEF Upgrade, ListBegin, callVars
  <2>2. age' = age /\ age <= MaxTrip
    BY <1>2 DEF Upgrade
  <2>3. /\ pc = "idle" /\ pc' = "list" /\ status' = "open" /\ lapsed' = FALSE
        /\ UNCHANGED <<phase, pick>>
    BY <1>2 DEF Upgrade, ListBegin, callVars
  <2>4. SessionShape'
    BY <2>2, <2>3
  <2> QED BY <2>1, <2>4
<1>3. CASE List
  <2>1. status' \in {"open", "complete"}
    BY <1>3 DEF List, ListPage, ListNothing
  <2> QED BY <1>3, <2>1 DEF List, callVars
<1>4. CASE ListingFailed
  BY <1>4 DEF ListingFailed, ListFails, End, callVars
<1>5. CASE Nothing
  BY <1>5 DEF Nothing, ListDropped, End, callVars
<1>6. ASSUME NEW t \in Ttls, TtlRefused(t)
      PROVE  SessionInv'
  BY <1>6 DEF TtlRefused, ListDropped, End, callVars
<1>7. ASSUME NEW k \in Key, NEW t \in Ttls, Download(k, t)
      PROVE  SessionInv'
  BY <1>7 DEF Download, ListDropped
<1>8. CASE PresignSent
  BY <1>8 DEF PresignSent, Send, listVars, sessionVars
<1>9. CASE Presigned
  BY <1>9 DEF Presigned, Answered, Done, listVars
<1>10. CASE NoUrl
  BY <1>10 DEF NoUrl, Answered, Done, End, listVars
<1>11. CASE PresignFails
  <2>1. phase' = "done"
    BY <1>11 DEF PresignFails, Answered, NotFound, Broken, Surfaces, Done
  <2> QED BY <1>11, <2>1 DEF PresignFails, End, listVars
<1>12. CASE PresignWake
  BY <1>12 DEF PresignWake, Wake, listVars, sessionVars
<1>13. ASSUME NEW hint \in RetryAfter \cup {NoHeader}, PresignThrottled(hint)
       PROVE  SessionInv'
  <2>1. phase = "flight" /\ pc = "presign"
    BY <1>13 DEF PresignThrottled, Throttled
  <2>2. CASE result' = "value_error"
    <3>1. End("error") /\ UNCHANGED <<listVars, lapsed>>
      BY <1>13, <2>2 DEF PresignThrottled
    <3>2. phase' = "done"
      BY <2>2 DEF RetryInv
    <3>3. SessionTypeOK'
      BY <3>1 DEF End, listVars
    <3>4. SessionShape'
      BY <2>1, <3>1, <3>2 DEF End, listVars
    <3> QED BY <3>3, <3>4
  <2>3. CASE result' # "value_error"
    BY <1>13, <2>1, <2>3 DEF PresignThrottled, listVars
  <2> QED BY <2>2, <2>3
<1>14. CASE Fetch
  <2>1. lapsed' \in BOOLEAN
    BY <1>14 DEF Fetch
  <2>2. /\ pc = "fetch" /\ pc' = "idle" /\ pick' = 0 /\ age' = 0
        /\ out' \in Outcomes /\ UNCHANGED <<ttl, suspended, phase, status>>
    BY <1>14 DEF Fetch, End, listVars, callVars
  <2>3. SessionTypeOK'
    BY <2>1, <2>2
  <2>4. SessionShape'
    <3>1. age' <= MaxTrip
      BY <2>2
    <3> QED BY <2>2, <3>1
  <2> QED BY <2>3, <2>4
<1>15. CASE FetchBroken
  <2>1. lapsed' \in BOOLEAN
    BY <1>15 DEF FetchBroken
  <2>2. SessionTypeOK'
    BY <1>15, <2>1 DEF FetchBroken, End
  <2>3. SessionShape'
    BY <1>15 DEF FetchBroken, End, listVars, callVars
  <2> QED BY <2>2, <2>3
<1>16. CASE Suspend
  BY <1>16 DEF Suspend, listVars, callVars
<1>17. ASSUME NEW k \in Key, Published(k) \/ Withdrawn(k)
       PROVE  SessionInv'
  <2>1. SessionTypeOK'
    BY <1>17 DEF Published, Withdrawn, Insert, Delete, sessionVars, callVars
  <2>2. SessionShape'
    BY <1>17 DEF Published, Withdrawn, Insert, Delete, sessionVars, callVars
  <2> QED BY <2>1, <2>2
<1> QED
  BY <1>1, <1>2, <1>3, <1>4, <1>5, <1>6, <1>7, <1>8, <1>9, <1>10, <1>11, <1>12,
     <1>13, <1>14, <1>15, <1>16, <1>17
  DEF Next, SessionStep

(* What a step does to the invariant of the session as a whole. *)
LEMMA UpdaterStep ==
  ASSUME UpdaterInv, [Next]_vars
  PROVE  UpdaterInv'
<1>1. RetryInv /\ ListingInv /\ SessionInv
  BY DEF UpdaterInv, SessionInv, SessionShape
<1>2. CASE UNCHANGED vars
  <2>1. UNCHANGED callVars /\ UNCHANGED listVars /\ UNCHANGED sessionVars
    BY <1>2 DEF vars
  <2>2. RetryInv' /\ ListingInv'
    BY <1>1, <2>1, RetryStep, ListStep
  <2>3. SessionTypeOK'
    BY <1>1, <2>1 DEF SessionInv, SessionTypeOK, sessionVars
  <2>4. SessionShape'
    BY <1>1, <2>1 DEF SessionInv, SessionShape, sessionVars, listVars, callVars
  <2> QED BY <2>2, <2>3, <2>4 DEF UpdaterInv, SessionShape
<1>3. CASE Next
  <2>1. RetryInv'
    BY <1>1, <1>3, CallMoves, RetryStep
  <2>2. ListingInv'
    BY <1>1, <1>3, ListMoves, ListStep
  <2>3. SessionInv'
    BY <1>1, <1>3, <2>1, SessionStays, ListingAssumption DEF ListingInv
  <2> QED BY <2>1, <2>2, <2>3 DEF UpdaterInv, SessionInv, SessionShape
<1> QED BY <1>2, <1>3

(* Requests, listing and session agree throughout an update. *)
THEOREM UpdaterInvariance == Spec => []UpdaterInv
<1>1. Init => UpdaterInv
  BY Initially
<1>2. UpdaterInv /\ [Next]_vars => UpdaterInv'
  BY UpdaterStep
<1> QED BY <1>1, <1>2, PTL DEF Spec

(* An update reads every artifact that was there all along, unless a cursor   *)
(* was deleted or a limit clamped (ArtifactsClient.list).                   *)
THEOREM CompleteLists == Spec => []CompleteListing
<1>1. UpdaterInv => CompleteListing
  BY DEF UpdaterInv, ListingInv
<1> QED BY <1>1, UpdaterInvariance, PTL

(* The listing of an update is a listing, page by page. *)
THEOREM UpdaterLists == Spec => ImplementsListing
<1>1. Init => Promise!Init
  BY PromiseInitial DEF Init
<1>2. UpdaterInv /\ UpdaterInv' /\ [Next]_vars => [Promise!Next]_(Promise!vars)
  <2> SUFFICES ASSUME UpdaterInv, UpdaterInv', [Next]_vars
               PROVE  [Promise!Next]_(Promise!vars)
    OBVIOUS
  <2>1. [ListNext]_listVars
    BY ListMoves DEF vars
  <2>2. ListingInv /\ ListingInv'
    BY DEF UpdaterInv
  <2> QED BY <2>1, <2>2, PromiseStep
<1> QED BY <1>1, <1>2, UpdaterInvariance, PTL DEF Spec, ImplementsListing, Promise!Spec

-----------------------------------------------------------------------------
(* download(). *)

(* A URL is fetched within its lifetime (download): throttling makes it no    *)
(* older, and only a suspension or a lifetime below two trips does.          *)
THEOREM FreshUrl == Spec => []NeverLapsed
<1>1. Init => NeverLapsed
  BY Initially
<1>2. UpdaterInv /\ NeverLapsed /\ [Next]_vars => NeverLapsed'
  <2> SUFFICES ASSUME UpdaterInv, NeverLapsed, [Next]_vars
               PROVE  NeverLapsed'
    OBVIOUS
  <2>1. CASE Fetch
    <3>1. PICK t \in 0..MaxTrip :
            /\ lapsed' = (age + t > Lifetime(ttl))
            /\ UNCHANGED <<ttl, suspended>>
      BY <2>1 DEF Fetch, End
    <3>2. CASE suspended
      BY <3>1, <3>2 DEF NeverLapsed
    <3>3. CASE ~suspended
      <4>1. age <= MaxTrip /\ age \in Nat
        BY <3>3 DEF UpdaterInv, SessionTypeOK
      <4>2. Lifetime(ttl) \in Int
        BY Bounds, UpdaterAssumption DEF UpdaterInv, SessionTypeOK, Lifetime
      <4>3. lapsed' => Lifetime(ttl) < 2 * MaxTrip
        <5>1. lapsed' => age + t > Lifetime(ttl)
          BY <3>1
        <5> QED BY <3>1, <4>1, <4>2, <5>1, Bounds
      <4> QED BY <3>1, <4>3 DEF NeverLapsed, Lifetime
    <3> QED BY <3>2, <3>3
  <2>2. CASE Upgrade
    BY <2>2 DEF Upgrade, NeverLapsed
  <2>3. ASSUME pc # "idle", lapsed' = lapsed
        PROVE  NeverLapsed'
    BY <2>3 DEF UpdaterInv, NeverLapsed
  <2>4. CASE Current
    BY <2>4 DEF Current, NeverLapsed, Lifetime
  <2>5. ASSUME NEW k \in Key, Published(k) \/ Withdrawn(k)
        PROVE  NeverLapsed'
    BY <2>5 DEF Published, Withdrawn, sessionVars, NeverLapsed, Lifetime
  <2>6. CASE UNCHANGED vars
    BY <2>6 DEF vars, sessionVars, NeverLapsed, Lifetime
  <2>7. CASE Suspend
    BY <2>7, <2>3 DEF Suspend
  <2>8. CASE SessionStep /\ ~Fetch
    <3>1. pc # "idle" /\ lapsed' = lapsed
      BY <2>8 DEF SessionStep, List, ListingFailed, Nothing, TtlRefused, Download,
         PresignSent, Presigned, NoUrl, PresignFails, PresignThrottled, PresignWake,
         FetchBroken, sessionVars
    <3> QED BY <2>3, <3>1
  <2> QED BY <2>1, <2>2, <2>4, <2>5, <2>6, <2>7, <2>8 DEF Next
<1> QED BY <1>1, <1>2, UpdaterInvariance, PTL DEF Spec
=============================================================================
