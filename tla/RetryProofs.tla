----------------------------- MODULE RetryProofs -----------------------------
(***************************************************************************)
(* What holds of every request, for every max_retries, every Retry-After     *)
(* and every resolution of the clock: RetryInv is inductive, and the         *)
(* properties of Retry follow from it.                                      *)
(***************************************************************************)
EXTENDS Retry, TLAPS

USE RetryAssumption

(* Every delay that _retry_delay computes is an integer, at most a minute.  *)
LEMMA DelayBound ==
  ASSUME NEW n \in Nat, NEW after \in RetryAfter \cup {NoHeader},
         NEW d \in Delays(n, after)
  PROVE  d \in Int /\ d <= 60 * Tick
<1>1. CASE after # NoHeader
  <2>1. after \in Int
    BY <1>1
  <2>2. d = (IF after < 60 THEN after ELSE 60) * Tick
    BY <1>1 DEF Delays
  <2>3. CASE after < 60
    BY <2>1, <2>2, <2>3
  <2>4. CASE ~(after < 60)
    BY <2>1, <2>2, <2>4
  <2> QED
    BY <2>3, <2>4
<1>2. CASE after = NoHeader
  <2> DEFINE k == (IF n < 5 THEN n ELSE 5) + 1
  <2>1. PICK j \in 0..(Tick - 1) : d = Doubled[k] * Tick + j
    BY <1>2 DEF Delays
  <2>2. k \in 1..6
    OBVIOUS
  <2>3. Doubled[k] \in 1..32
    BY <2>2 DEF Doubled
  <2>4. Doubled[k] * Tick <= 32 * Tick /\ Doubled[k] * Tick \in Nat
    BY <2>3
  <2> QED
    BY <2>1, <2>4
<1> QED
  BY <1>1, <1>2

(* Before the first request there is nothing to violate.                      *)
LEMMA RetryInitially == RetryInit => RetryInv
BY DEF RetryInit, Ready, RetryInv, CallTypeOK, Results

(* RetryInv is inductive: each way a request can go on keeps it.            *)
LEMMA RetryStep == RetryInv /\ [RetryNext]_callVars => RetryInv'
<1> SUFFICES ASSUME RetryInv, [RetryNext]_callVars PROVE RetryInv'
  OBVIOUS
<1> USE DEF RetryInv, CallTypeOK, Results
<1>1. CASE UNCHANGED callVars
  BY <1>1 DEF callVars, IsRetryable
<1>2. ASSUME NEW r \in Requests, Begin(r) PROVE RetryInv'
  BY <1>2 DEF Begin, IsRetryable
<1>3. CASE Send
  BY <1>3 DEF Send, IsRetryable
<1>4. CASE Answered
  BY <1>4 DEF Answered, Done, IsRetryable
<1>5. CASE NotFound
  BY <1>5 DEF NotFound, Done, IsRetryable
<1>6. CASE Broken
  BY <1>6 DEF Broken, Done, IsRetryable
<1>7. CASE Surfaces
  BY <1>7 DEF Surfaces, Done, IsRetryable
<1>8. ASSUME NEW after \in RetryAfter \cup {NoHeader}, Throttled(after) PROVE RetryInv'
  <2>1. PICK d \in Delays(attempt, after) :
          IF d >= 0 THEN phase' = "pause" /\ pause' = d /\ UNCHANGED result
          ELSE Done("value_error") /\ UNCHANGED pause
    BY <1>8 DEF Throttled
  <2>2. d \in Int /\ d <= 60 * Tick
    BY DelayBound
  <2>3. /\ phase = "flight" /\ IsRetryable(request) /\ attempt < MaxRetries
        /\ UNCHANGED <<request, attempt, slept, sent, carried>>
    BY <1>8 DEF Throttled
  <2>4. CASE d >= 0
    BY <2>1, <2>2, <2>3, <2>4 DEF IsRetryable
  <2>5. CASE ~(d >= 0)
    BY <2>1, <2>3, <2>5 DEF Done, IsRetryable
  <2> QED
    BY <2>4, <2>5
<1>9. CASE Wake
  <2>1. 60 * Tick * (attempt + 1) = 60 * Tick * attempt + 60 * Tick
    OBVIOUS
  <2>2. slept' = slept + pause /\ attempt' = attempt + 1
    BY <1>9 DEF Wake
  <2>3. slept' \in Nat /\ slept' <= 60 * Tick * attempt'
    BY <2>1, <2>2
  <2> QED
    BY <1>9, <2>3 DEF Wake, IsRetryable
<1> QED
  BY <1>1, <1>2, <1>3, <1>4, <1>5, <1>6, <1>7, <1>8, <1>9 DEF RetryNext

(* The counters follow the phases of every request.                         *)
THEOREM RetryInvariance == RetrySpec => []RetryInv
<1>1. RetryInit => RetryInv
  BY RetryInitially
<1>2. RetryInv /\ [RetryNext]_callVars => RetryInv'
  BY RetryStep
<1> QED
  BY <1>1, <1>2, PTL DEF RetrySpec

(* No request is carried out twice, however often it is sent.               *)
THEOREM NeverTwice == RetrySpec => []AtMostOnce
<1>1. RetryInv => AtMostOnce
  BY DEF RetryInv, AtMostOnce
<1> QED
  BY <1>1, RetryInvariance, PTL

(* A create, an increment, an update and a delete are sent once, and nothing *)
(* more than max_retries + 1 times.                                         *)
THEOREM BoundedRepeats == RetrySpec => []RepeatsBounded
<1>1. RetryInv => RepeatsBounded
  <2> SUFFICES ASSUME RetryInv PROVE RepeatsBounded
    OBVIOUS
  <2>1. sent <= MaxRetries + 1
    BY DEF RetryInv, CallTypeOK
  <2>2. request \in SDKRequests
    BY DEF RetryInv, CallTypeOK
  <2>3. request.action \in {"create", "increment", "update", "delete"}
        => ~IsRetryable(request)
    BY <2>2 DEF SDKRequests, IsRetryable, RetryableActions
  <2>4. ~IsRetryable(request) => attempt = 0 /\ sent <= 1
    BY DEF RetryInv, CallTypeOK
  <2> QED
    BY <2>1, <2>3, <2>4 DEF RepeatsBounded
<1> QED
  BY <1>1, RetryInvariance, PTL

(* RateLimitedError reaches the callers of a repeatable request only when   *)
(* its retries are used up.                                                 *)
THEOREM SpentFirst == RetrySpec => []LimitedOnlyWhenSpent
<1>1. RetryInv => LimitedOnlyWhenSpent
  <2> SUFFICES ASSUME RetryInv, result = "limited",
                      request.action \in {"read", "ping", "ping-heartbeat", "validate"}
               PROVE  sent = MaxRetries + 1
    BY DEF LimitedOnlyWhenSpent
  <2>1. request \in SDKRequests
    BY DEF RetryInv, CallTypeOK
  <2>2. IsRetryable(request)
    BY <2>1 DEF SDKRequests, IsRetryable, RetryableActions
  <2>3. attempt = MaxRetries /\ phase = "done"
    BY <2>2 DEF RetryInv
  <2> QED
    BY <2>3 DEF RetryInv
<1> QED
  BY <1>1, RetryInvariance, PTL

(* All the pauses of a request together take at most max_retries minutes.   *)
THEOREM BoundedWait == RetrySpec => []WaitBounded
<1>1. RetryInv => WaitBounded
  <2> SUFFICES ASSUME RetryInv PROVE WaitBounded
    OBVIOUS
  <2> DEFINE Minute == 60 * Tick
  <2>1. Minute \in Nat
    OBVIOUS
  <2>2. /\ attempt \in Nat /\ MaxRetries \in Nat /\ attempt <= MaxRetries
        /\ pause \in Nat /\ slept \in Nat /\ pause <= Minute
        /\ slept <= Minute * attempt
        /\ phase = "pause" => attempt < MaxRetries
        /\ phase # "pause" => pause = 0
    BY DEF RetryInv, CallTypeOK
  <2> HIDE DEF Minute
  <2>3. CASE phase = "pause"
    <3>1. MaxRetries - attempt - 1 \in Nat
      BY <2>2, <2>3
    <3>2. Minute * MaxRetries
            = Minute * attempt + Minute + Minute * (MaxRetries - attempt - 1)
      BY <2>1, <2>2
    <3>3. Minute * (MaxRetries - attempt - 1) \in Nat /\ Minute * attempt \in Nat
      BY <2>1, <2>2, <3>1
    <3>4. slept + pause <= Minute * MaxRetries
      BY <2>1, <2>2, <3>2, <3>3
    <3> QED
      BY <3>4 DEF WaitBounded, Minute
  <2>4. CASE phase # "pause"
    <3>1. MaxRetries - attempt \in Nat
      BY <2>2
    <3>2. Minute * MaxRetries = Minute * attempt + Minute * (MaxRetries - attempt)
      BY <2>1, <2>2
    <3>3. Minute * (MaxRetries - attempt) \in Nat /\ Minute * attempt \in Nat
      BY <2>1, <2>2, <3>1
    <3>4. slept + pause <= Minute * MaxRetries
      BY <2>1, <2>2, <2>4, <3>2, <3>3
    <3> QED
      BY <3>4 DEF WaitBounded, Minute
  <2> QED
    BY <2>3, <2>4
<1> QED
  BY <1>1, RetryInvariance, PTL
=============================================================================
