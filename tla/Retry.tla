------------------------------- MODULE Retry -------------------------------
(***************************************************************************)
(* One request of the SDK, from _request_with_retry (src/tamga/client.py): *)
(* it is sent, answered, and sent again after a pause as long as the        *)
(* answer is 429, the request may be repeated and the retries last.  Time   *)
(* is counted in ticks, Tick of them a second, so that the jitter of the    *)
(* backoff takes part.                                                     *)
(*                                                                         *)
(* The server decides freely how to answer.  A 429 comes from the rate     *)
(* limiter in front of the handler: the request was not carried out.  A     *)
(* 5xx answer or none at all (timeout, reset) says nothing about that.      *)
(***************************************************************************)
EXTENDS Integers

CONSTANTS
  Tick,          \* ticks of the clock in one second
  MaxRetries,    \* TamgaConfig.max_retries
  RetryAfter,    \* the values of Retry-After that servers and proxies send
  NoHeader,      \* no Retry-After, or one that int() does not read
  Requests       \* the requests made, [method, action]

(* _RETRYABLE_POST_SUFFIXES; "create", "increment" and others are not in it. *)
RetryableActions ==
  {"validate", "validate-key", "check-in", "check-out", "ping", "ping-heartbeat",
   "reset-heartbeat"}

(* The requests the SDK makes, each action under the method it is sent with. *)
SDKRequests ==
       {[method |-> "GET", action |-> "read"],
        [method |-> "PATCH", action |-> "update"],
        [method |-> "DELETE", action |-> "delete"]}
  \cup {[method |-> "POST", action |-> a] : a \in RetryableActions \cup {"create", "increment"}}

ASSUME RetryAssumption ==
  /\ Tick \in Nat \ {0}
  /\ MaxRetries \in Nat
  /\ RetryAfter \subseteq Int
  /\ NoHeader \notin Int
  /\ Requests \subseteq SDKRequests

VARIABLES
  request,   \* the request being made
  phase,     \* "send", "flight", "pause", or "done"
  attempt,   \* attempt: pauses begun so far
  pause,     \* how long the pause it is in lasts, in ticks
  slept,     \* history: ticks of pauses it has been through
  sent,      \* history: times the request was sent
  carried,   \* history: times the server carried it out
  result     \* "none" while it runs, then how it came out: see Results

callVars == <<request, phase, attempt, pause, slept, sent, carried, result>>

Results == {"none", "response", "limited", "gone", "raised", "value_error"}

CallTypeOK ==
  /\ request \in Requests
  /\ phase \in {"send", "flight", "pause", "done"}
  /\ attempt \in 0..MaxRetries
  /\ pause \in Nat /\ slept \in Nat
  /\ sent \in Nat /\ carried \in Nat
  /\ result \in Results

Ready(r) ==
  /\ request = r /\ phase = "send"
  /\ attempt = 0 /\ pause = 0 /\ slept = 0
  /\ sent = 0 /\ carried = 0 /\ result = "none"

RetryInit == \E r \in Requests : Ready(r)

(* The caller makes its next request. *)
Begin(r) ==
  /\ phase = "done"
  /\ request' = r /\ phase' = "send"
  /\ attempt' = 0 /\ pause' = 0 /\ slept' = 0
  /\ sent' = 0 /\ carried' = 0 /\ result' = "none"

-----------------------------------------------------------------------------
(* Mutated: the suffixes are looked up whatever the method, and creates too. *)
AnyActionRetryable(r) == r.method # "DELETE"

IsRetryable(r) ==
  \/ r.method = "GET"
  \/ r.method = "POST" /\ r.action \in RetryableActions

(* Mutated: the header is taken as it comes. *)
UncappedDelays(n, after) ==
  IF after # NoHeader THEN {after * Tick}
  ELSE {Tick + j : j \in 0..(Tick - 1)}

(* The first six powers of two: 2 ** min(attempt, 5). *)
Doubled == <<1, 2, 4, 8, 16, 32>>

(* _retry_delay: the server's word up to a minute, or doubling with jitter. *)
Delays(n, after) ==
  IF after # NoHeader THEN {(IF after < 60 THEN after ELSE 60) * Tick}
  ELSE {Doubled[(IF n < 5 THEN n ELSE 5) + 1] * Tick + j : j \in 0..(Tick - 1)}

Done(how) ==
  /\ phase' = "done"
  /\ result' = how

(* http.request. *)
Send ==
  /\ phase = "send"
  /\ phase' = "flight"
  /\ sent' = sent + 1
  /\ UNCHANGED <<request, attempt, pause, slept, carried, result>>

(* 2xx, or a refusal that leaves everything as it was (4xx but 429). *)
Answered ==
  /\ phase = "flight"
  /\ carried' \in {carried, carried + 1}
  /\ Done("response")
  /\ UNCHANGED <<request, attempt, pause, slept, sent>>

(* 404: what the request names is not there. *)
NotFound ==
  /\ phase = "flight"
  /\ Done("gone")
  /\ UNCHANGED <<request, attempt, pause, slept, sent, carried>>

(* Mutated: a request that timed out is sent again, too. *)
BrokenRetried ==
  /\ phase = "flight"
  /\ carried' \in {carried, carried + 1}
  /\ IF IsRetryable(request) /\ attempt < MaxRetries
     THEN /\ phase' = "send" /\ attempt' = attempt + 1
          /\ UNCHANGED result
     ELSE /\ Done("raised")
          /\ UNCHANGED attempt
  /\ UNCHANGED <<request, pause, slept, sent>>

(* 5xx, timeout, reset: it may have been carried out, and is not repeated. *)
Broken ==
  /\ phase = "flight"
  /\ carried' \in {carried, carried + 1}
  /\ Done("raised")
  /\ UNCHANGED <<request, attempt, pause, slept, sent>>

(* Mutated: the retries are counted from one. *)
SurfacesEarly ==
  /\ phase = "flight"
  /\ \/ ~IsRetryable(request)
     \/ attempt + 1 >= MaxRetries
  /\ Done("limited")
  /\ UNCHANGED <<request, attempt, pause, slept, sent, carried>>

(* 429 with no retry left, or none allowed: RateLimitedError. *)
Surfaces ==
  /\ phase = "flight"
  /\ \/ ~IsRetryable(request)
     \/ attempt >= MaxRetries
  /\ Done("limited")
  /\ UNCHANGED <<request, attempt, pause, slept, sent, carried>>

(* Mutated: one retry too many. *)
ThrottledOnceMore(after) ==
  /\ phase = "flight"
  /\ IsRetryable(request)
  /\ attempt <= MaxRetries
  /\ \E d \in Delays(attempt, after) :
       /\ d >= 0
       /\ phase' = "pause" /\ pause' = d
  /\ UNCHANGED <<request, attempt, slept, sent, carried, result>>

(* 429 with a retry left: time.sleep, which raises on a negative delay. *)
Throttled(after) ==
  /\ phase = "flight"
  /\ IsRetryable(request)
  /\ attempt < MaxRetries
  /\ \E d \in Delays(attempt, after) :
       IF d >= 0
       THEN /\ phase' = "pause" /\ pause' = d
            /\ UNCHANGED result
       ELSE /\ Done("value_error")
            /\ UNCHANGED pause
  /\ UNCHANGED <<request, attempt, slept, sent, carried>>

Wake ==
  /\ phase = "pause"
  /\ phase' = "send"
  /\ attempt' = attempt + 1
  /\ slept' = slept + pause
  /\ pause' = 0
  /\ UNCHANGED <<request, sent, carried, result>>

RetryNext ==
  \/ \E r \in Requests : Begin(r)
  \/ Send \/ Answered \/ NotFound \/ Broken \/ Surfaces
  \/ \E after \in RetryAfter \cup {NoHeader} : Throttled(after)
  \/ Wake

RetrySpec == RetryInit /\ [][RetryNext]_callVars

-----------------------------------------------------------------------------
(* Properties. *)

(* However often a request is sent, the server carries it out at most once: *)
(* no create takes a second seat and no increment counts twice.             *)
AtMostOnce == carried <= 1

(* A request whose repetition would show on the server is sent once, every   *)
(* other one at most max_retries times more.                                 *)
RepeatsBounded ==
  /\ sent <= MaxRetries + 1
  /\ request.action \in {"create", "increment", "update", "delete"} => sent <= 1

(* RateLimitedError comes only after the retries that a request has are used *)
(* up, and the calls that a timer makes have all of them.                    *)
LimitedOnlyWhenSpent ==
  result = "limited" /\ request.action \in {"read", "ping", "ping-heartbeat", "validate"}
  => sent = MaxRetries + 1

(* No header can park the caller: each pause takes at most a minute.         *)
WaitBounded == slept + pause <= 60 * Tick * MaxRetries

(* The inductive strengthening: how the counters follow the phases.          *)
RetryInv ==
  /\ CallTypeOK
  /\ sent = IF phase = "send" THEN attempt ELSE attempt + 1
  /\ carried <= 1 /\ (phase # "done" => carried = 0)
  /\ attempt > 0 \/ phase = "pause" => IsRetryable(request)
  /\ phase = "pause" => attempt < MaxRetries
  /\ phase # "pause" => pause = 0
  /\ pause <= 60 * Tick
  /\ slept <= 60 * Tick * attempt
  /\ (phase = "done") <=> (result # "none")
  /\ result = "limited" => ~IsRetryable(request) \/ attempt = MaxRetries
=============================================================================
