------------------------------ MODULE Updater ------------------------------
(***************************************************************************)
(* An auto-updater on ReleasesClient and ArtifactsClient                    *)
(* (src/tamga/client.py), the way the README strings them together: ask for *)
(* an upgrade, list the artifacts of the release to the end, download one   *)
(* of them.  download() is two requests: one to the API, which Retry        *)
(* repeats, for a URL that is good for a while, and one to the storage host, *)
(* which nothing repeats.                                                  *)
(*                                                                         *)
(* Time is counted from the moment the server makes the URL.               *)
(***************************************************************************)
EXTENDS Retry, KeysetListing

CONSTANTS
  MinTtl, MaxTtl,   \* MIN_PRESIGN_TTL_SECONDS, MAX_PRESIGN_TTL_SECONDS
  DefaultTtl,       \* the server's, for ttl=None
  Ttls,             \* the ttl values callers pass, Omitted among them
  MaxTrip,          \* bound: the longest a request or an answer is under way
  MaxAge            \* bound: how old a URL is after a suspension of the process

Presign == [method |-> "GET", action |-> "read"]

ASSUME UpdaterAssumption ==
  /\ Presign \in Requests
  /\ {MinTtl, MaxTtl, DefaultTtl, MaxTrip, MaxAge} \subseteq Nat
  /\ DefaultTtl \in MinTtl..MaxTtl
  /\ Ttls \subseteq Int \cup {Omitted}

VARIABLES
  pc,         \* "idle", "list", "choose", "presign", "fetch"
  out,        \* how the last session ended: see Outcomes
  pick,       \* the artifact to download, 0 for none
  ttl,        \* the lifetime its URL is asked for
  age,        \* ticks since the server made the URL
  lapsed,     \* history: did the storage host find the URL too old?
  suspended   \* history: was the process held up with the URL in hand?

sessionVars == <<pc, out, pick, ttl, age, lapsed, suspended>>
vars == <<callVars, listVars, sessionVars>>

Outcomes == {"none", "current", "nothing", "bytes", "download_error", "value_error", "error"}

SessionTypeOK ==
  /\ pc \in {"idle", "list", "choose", "presign", "fetch"}
  /\ out \in Outcomes
  /\ pick \in Key \cup {0}
  /\ ttl \in Ttls \cup {Omitted}
  /\ age \in Nat
  /\ lapsed \in BOOLEAN /\ suspended \in BOOLEAN

Lifetime(t) == IF t = Omitted THEN DefaultTtl ELSE t

Init ==
  /\ request = Presign /\ phase = "done" /\ result = "response"
  /\ attempt = 0 /\ pause = 0 /\ slept = 0 /\ sent = 1 /\ carried = 0
  /\ ListInit
  /\ pc = "idle" /\ out = "none" /\ pick = 0 /\ ttl = Omitted /\ age = 0
  /\ lapsed = FALSE /\ suspended = FALSE

End(how) ==
  /\ pc' = "idle" /\ out' = how
  /\ pick' = 0 /\ age' = 0
  /\ UNCHANGED <<ttl, suspended>>

-----------------------------------------------------------------------------
(* check_for_upgrade, and the listing.  Their requests are steps here.       *)

(* 204 is None: nothing newer, or nothing newer for this license. *)
Current ==
  /\ pc = "idle"
  /\ out' \in {"current", "error"}
  /\ UNCHANGED <<callVars, listVars, pc, pick, ttl, age, lapsed, suspended>>

Upgrade ==
  /\ pc = "idle"
  /\ ListBegin
  /\ pc' = "list" /\ out' = "none"
  /\ ttl' = Omitted /\ lapsed' = FALSE /\ suspended' = FALSE
  /\ UNCHANGED <<callVars, pick, age>>

List ==
  /\ pc = "list"
  /\ \E limit \in Limits : ListPage(limit) \/ ListNothing
  /\ pc' = IF status' = "open" THEN "list" ELSE "choose"
  /\ UNCHANGED <<callVars, out, pick, ttl, age, lapsed, suspended>>

ListingFailed ==
  /\ pc = "list" /\ ListFails
  /\ End("error")
  /\ UNCHANGED <<callVars, lapsed>>

Nothing ==
  /\ pc = "choose" /\ seen = {}
  /\ ListDropped /\ End("nothing")
  /\ UNCHANGED <<callVars, lapsed>>

-----------------------------------------------------------------------------
(* download(artifact, ttl). *)

TtlAccepted(t) == t = Omitted \/ t \in MinTtl..MaxTtl

(* ValueError comes before any request. *)
TtlRefused(t) ==
  /\ pc = "choose" /\ seen # {} /\ ~TtlAccepted(t)
  /\ ListDropped /\ End("value_error")
  /\ UNCHANGED <<callVars, lapsed>>

Download(k, t) ==
  /\ pc = "choose" /\ k \in seen /\ TtlAccepted(t)
  /\ ListDropped /\ Begin(Presign)
  /\ pc' = "presign" /\ pick' = k /\ ttl' = t
  /\ UNCHANGED <<out, age, lapsed, suspended>>

PresignSent ==
  /\ pc = "presign" /\ Send
  /\ UNCHANGED <<listVars, sessionVars>>

(* 200 with redirectUrl, for an artifact that is there. *)
Presigned ==
  /\ pc = "presign" /\ pick \in rows /\ Answered
  /\ \E t \in 0..MaxTrip : age' = t
  /\ pc' = "fetch"
  /\ UNCHANGED <<listVars, out, pick, ttl, lapsed, suspended>>

(* 303 in spite of redirect=false, or 200 without redirectUrl: never uploaded. *)
NoUrl ==
  /\ pc = "presign" /\ Answered
  /\ End("download_error")
  /\ UNCHANGED <<listVars, lapsed>>

(* 403 of the release's gate, 404, 422, 5xx, timeout, 429 to the end. *)
PresignFails ==
  /\ pc = "presign"
  /\ Answered \/ NotFound \/ Broken \/ Surfaces
  /\ End("error")
  /\ UNCHANGED <<listVars, lapsed>>

PresignThrottled(hint) ==
  /\ pc = "presign" /\ Throttled(hint)
  /\ IF result' = "value_error"
     THEN End("error")
     ELSE UNCHANGED <<pc, out, pick, ttl, age, suspended>>
  /\ UNCHANGED <<listVars, lapsed>>

(* A pause after 429 makes nothing older: there is no URL yet. *)
PresignWake ==
  /\ pc = "presign" /\ Wake
  /\ UNCHANGED <<listVars, sessionVars>>

(* Mutated: a storage host that refuses is asked again for the same URL. *)
FetchAgain ==
  /\ pc = "fetch"
  /\ \E t \in 0..MaxTrip :
       /\ lapsed' = (lapsed \/ age + t > Lifetime(ttl))
       /\ \/ ~lapsed' /\ End("bytes")
          \/ End("download_error")
          \/ age' = (IF age + t < MaxAge THEN age + t ELSE MaxAge)
             /\ UNCHANGED <<pc, out, pick, ttl, suspended>>
  /\ UNCHANGED <<callVars, listVars>>

(* The storage host refuses a URL past its lifetime, an object that is gone  *)
(* or was never written, and whatever it likes.                             *)
Fetch ==
  /\ pc = "fetch"
  /\ \E t \in 0..MaxTrip :
       /\ lapsed' = (age + t > Lifetime(ttl))
       /\ \/ ~lapsed' /\ pick \in rows /\ End("bytes")
          \/ End("download_error")
  /\ UNCHANGED <<callVars, listVars>>

(* No answer at all: the exception of httpx as it is. *)
FetchBroken ==
  /\ pc = "fetch"
  /\ End("error")
  /\ UNCHANGED <<callVars, listVars, lapsed>>

SessionStep ==
  \/ List \/ ListingFailed \/ Nothing
  \/ \E t \in Ttls : TtlRefused(t)
  \/ \E k \in Key, t \in Ttls : Download(k, t)
  \/ PresignSent \/ Presigned \/ NoUrl \/ PresignFails \/ PresignWake
  \/ \E hint \in RetryAfter \cup {NoHeader} : PresignThrottled(hint)
  \/ Fetch \/ FetchBroken

-----------------------------------------------------------------------------
(* The environment. *)

(* The process sleeps between the two requests. *)
Suspend ==
  /\ pc = "fetch" /\ ~suspended
  /\ suspended' = TRUE /\ age' = MaxAge
  /\ UNCHANGED <<callVars, listVars, pc, out, pick, ttl, lapsed>>

Published(k) == Insert(k) /\ UNCHANGED <<callVars, sessionVars>>

Withdrawn(k) == Delete(k) /\ UNCHANGED <<callVars, sessionVars>>

Next ==
  \/ Current \/ Upgrade
  \/ SessionStep
  \/ Suspend
  \/ \E k \in Key : Published(k) \/ Withdrawn(k)

Spec == Init /\ [][Next]_vars

(* httpx has a timeout, time.sleep returns, and the application goes on with *)
(* what it began.                                                           *)
FairSpec == Spec /\ WF_vars(SessionStep)

-----------------------------------------------------------------------------
(* Properties. *)

(* download() does not fetch with a URL that has lapsed: however long the     *)
(* presign request was throttled, the URL is new when it is used.  It takes a *)
(* process that is held up, or a lifetime no longer than the answer and the   *)
(* fetch may be under way.                                                   *)
NeverLapsed ==
  lapsed => suspended \/ Lifetime(ttl) < 2 * MaxTrip

(* An update ends, however it is throttled and whatever is published or       *)
(* withdrawn meanwhile.                                                      *)
SessionEnds == pc # "idle" ~> pc = "idle"

(* The inductive strengthening: how the request and the listing follow the     *)
(* session, and how old a URL can be.                                        *)
UpdaterInv ==
  /\ RetryInv /\ ListingInv /\ SessionTypeOK
  /\ pc = "list" <=> status = "open"
  /\ pc = "choose" <=> status = "complete"
  /\ pc # "presign" => phase = "done"
  /\ pick # 0 <=> pc \in {"presign", "fetch"}
  /\ pc # "idle" => ~lapsed
  /\ age <= MaxTrip \/ (pc = "fetch" /\ suspended)
=============================================================================
