--------------------------- MODULE HeartbeatProofs ---------------------------
(* Theorems about Heartbeat, for every window, interval, trip and throttling. *)
(* The ping keeps the invariant of a request; around it, the age of the last  *)
(* recorded ping is counted in intervals, of which WindowHeld is arithmetic.  *)
EXTENDS Heartbeat, RetryProofs

(* What the constants are.                                                    *)
LEMMA Bounds ==
  /\ Tick \in Nat \ {0} /\ MinInterval \in Nat \ {0} /\ MinInterval = Tick
  /\ Trips \subseteq Nat
  /\ Durations \subseteq Int \cup {Unset} /\ Unset \notin Int
  /\ Requested \subseteq Int
BY HeartbeatAssumption, RetryAssumption DEF MinInterval

(* A window is at least a second, whatever the policy has.                   *)
LEMMA SomeWindow ==
  ASSUME NEW d \in Durations
  PROVE  EffectiveWindow(d) \in Nat \ {0}
BY Bounds DEF EffectiveWindow

(* The server compares whole seconds.                                         *)
LEMMA WholeSeconds ==
  ASSUME duration \in Durations
  PROVE  ServerWindow \in Int
<1>1. CASE duration = Unset
  BY <1>1 DEF ServerWindow
<1>2. CASE duration # Unset
  BY <1>2, Bounds DEF ServerWindow
<1> QED BY <1>1, <1>2

(* Every interval is a second at least, and clamping one for a policy does not *)
(* change it.                                                               *)
LEMMA SomeInterval ==
  ASSUME NEW i \in Int
  PROVE  /\ Clamped(i) \in Nat /\ Clamped(i) >= MinInterval
         /\ i >= MinInterval => Clamped(i) = i
BY Bounds DEF Clamped, Recommended

(* The interval of a policy is at least the minimum.                          *)
LEMMA PolicyInterval ==
  ASSUME NEW d \in Durations
  PROVE  IntervalForPolicy(d) \in Nat /\ IntervalForPolicy(d) >= MinInterval
<1> DEFINE q == EffectiveWindow(d) \div PingsPerWindow
<1>1. q \in Nat
  BY SomeWindow DEF PingsPerWindow
<1>2. q * Tick \in Nat
  BY <1>1, Bounds
<1> QED BY <1>2, Bounds DEF IntervalForPolicy

(* One more interval.                                                      *)
LEMMA OneMore ==
  ASSUME NEW m \in Nat, NEW i \in Nat
  PROVE  (m + 1) * i = m * i + i /\ m * i \in Nat
OBVIOUS

-----------------------------------------------------------------------------
(* Each ping is a request of Retry.                                         *)
LEMMA PingMoves == Next => [RetryNext]_callVars
<1> SUFFICES ASSUME Next PROVE [RetryNext]_callVars
  OBVIOUS
<1>1. CASE Check
  <2>1. Begin(Ping) /\ Ping \in Requests
    BY <1>1, HeartbeatAssumption DEF Check
  <2> QED BY <2>1 DEF RetryNext
<1>2. CASE PingSent \/ Beat \/ Gone \/ Fails \/ PingAgain
  <2>1. Send \/ Answered \/ NotFound \/ Broken \/ Surfaces \/ Wake
    BY <1>2 DEF PingSent, Beat, Gone, Fails, PingAgain
  <2> QED BY <2>1 DEF RetryNext
<1>3. CASE PingThrottled
  BY <1>3 DEF PingThrottled, RetryNext
<1>4. CASE Return \/ Sleep \/ Stop \/ RunAgain \/ Idle \/ Removed \/ ResetHeartbeat
  BY <1>4 DEF Return, Sleep, Stop, RunAgain, Idle, Removed, ResetHeartbeat
<1> QED BY <1>1, <1>2, <1>3, <1>4 DEF Next, LoopStep

(* How old the last recorded ping can be.                                   *)
AgeBounded ==
  /\ beaten /\ Running =>
       age <= slack + (IF loop = "sleep" THEN missed ELSE missed + 1) * interval
  /\ beaten /\ loop = "raised" /\ result # "gone" => age <= slack + missed * interval

LoopTypeOK ==
  /\ duration \in Durations /\ sized \in BOOLEAN /\ interval \in Nat
  /\ loop \in {"check", "ping", "sleep", "returned", "raised"}
  /\ stop \in BOOLEAN /\ exists \in BOOLEAN /\ beaten \in BOOLEAN
  /\ age \in Nat /\ slack \in Nat /\ missed \in Nat /\ since \in Nat

LoopInv ==
  /\ LoopTypeOK
  /\ sized => interval = IntervalForPolicy(duration)
  /\ interval >= MinInterval
  /\ loop = "ping" <=> phase # "done"
  /\ loop = "check" => since >= MinInterval
  /\ AgeBounded

(* The invariant has a part for the ping and one for the loop.                *)
LEMMA Parts == RetryInv /\ LoopInv => HeartbeatInv
BY DEF RetryInv, LoopInv, LoopTypeOK, AgeBounded, HeartbeatInv, TypeOK

(* Before the first ping both hold.                                           *)
LEMMA Initially == Init => RetryInv /\ LoopInv
<1> SUFFICES ASSUME Init PROVE RetryInv /\ LoopInv
  OBVIOUS
<1>1. RetryInv
  BY HeartbeatAssumption, RetryAssumption DEF Init, RetryInv, CallTypeOK, Results
<1>2. /\ duration \in Durations /\ interval \in Nat /\ interval >= MinInterval
      /\ sized => interval = IntervalForPolicy(duration)
  <2>1. duration \in Durations
    BY DEF Init
  <2>2. CASE sized = TRUE /\ interval = Clamped(IntervalForPolicy(duration))
    BY <2>1, <2>2, PolicyInterval, SomeInterval
  <2>3. CASE sized = FALSE /\ \E i \in Requested : interval = Clamped(i)
    BY <2>1, <2>3, SomeInterval, Bounds
  <2> QED BY <2>2, <2>3 DEF Init
<1>3. sized \in BOOLEAN /\ stop \in BOOLEAN /\ exists \in BOOLEAN /\ beaten \in BOOLEAN
  BY DEF Init
<1>4. ~beaten /\ loop = "check" /\ phase = "done" /\ since = MinInterval
  BY DEF Init
<1>5. age \in Nat /\ slack \in Nat /\ missed \in Nat /\ since \in Nat
  BY Bounds DEF Init
<1> QED BY <1>1, <1>2, <1>3, <1>4, <1>5, Bounds DEF LoopInv, LoopTypeOK, AgeBounded

(* What a ping that was recorded, or was not, leaves behind it.              *)
LEMMA AfterPing ==
  ASSUME LoopInv, loop = "ping", Recorded \/ Unrecorded,
         loop' = "sleep" => Recorded,
         loop' \in {"sleep", "raised"},
         UNCHANGED <<settled, stop, exists, since>>, phase' = "done"
  PROVE  LoopInv'
<1> USE DEF LoopInv, LoopTypeOK, settled
<1>1. age' \in Nat /\ slack' \in Nat /\ missed' \in Nat
  BY DEF Recorded, Unrecorded
<1>2. beaten' \in BOOLEAN
  BY DEF Recorded, Unrecorded
<1>3. AgeBounded'
  <2>1. CASE Recorded
    <3>1. age' = 0 /\ slack' = 0 /\ missed' = 0 /\ missed' * interval' = 0
      BY <2>1 DEF Recorded
    <3> QED BY <3>1 DEF AgeBounded, Running
  <2>2. CASE Unrecorded /\ loop' = "raised"
    <3>1. beaten => age <= slack + (missed + 1) * interval
      BY DEF AgeBounded, Running
    <3> QED BY <2>2, <3>1 DEF Unrecorded, AgeBounded, Running
  <2> QED BY <2>1, <2>2
<1> QED BY <1>1, <1>2, <1>3

(* Every step keeps the part of the loop, given that of its ping.             *)
LEMMA LoopStays ==
  ASSUME RetryInv, LoopInv, RetryInv', Next
  PROVE  LoopInv'
<1> USE DEF LoopInv, LoopTypeOK, settled
<1>1. CASE Check
  <2>1. AgeBounded'
    BY <1>1 DEF Check, AgeBounded, Running
  <2> QED BY <1>1, <2>1 DEF Check, Begin
<1>2. CASE Return
  BY <1>2 DEF Return, callVars, AgeBounded, Running
<1>3. CASE PingSent
  <2>1. PICK t \in Nat : Late(t)
    BY <1>3, Bounds DEF PingSent
  <2>2. age' = age + t /\ slack' = slack + t /\ since' = since + t
    BY <2>1 DEF Late, Elapse
  <2>3. /\ UNCHANGED <<settled, loop, stop, exists, beaten, missed>>
        /\ loop = "ping" /\ phase' = "flight"
    BY <1>3 DEF PingSent, Send
  <2>4. AgeBounded'
    <3>1. (missed + 1) * interval \in Nat
      BY OneMore
    <3>2. beaten => age <= slack + (missed + 1) * interval
      BY <2>3 DEF AgeBounded, Running
    <3> QED BY <2>2, <2>3, <3>1, <3>2 DEF AgeBounded, Running
  <2> QED BY <2>2, <2>3, <2>4
<1>4. CASE Beat
  BY <1>4, AfterPing DEF Beat, Answered, Done
<1>5. CASE Gone
  <2>1. AgeBounded'
    BY <1>5 DEF Gone, NotFound, Done, AgeBounded, Running
  <2> QED BY <1>5, <2>1 DEF Gone, NotFound, Done
<1>6. CASE Fails
  BY <1>6, AfterPing DEF Fails, Answered, Broken, Surfaces, Done
<1>7. CASE PingThrottled
  <2>1. CASE phase' = "done"
    BY <1>7, <2>1, AfterPing DEF PingThrottled
  <2>2. CASE phase' # "done"
    <3>1. UNCHANGED <<settled, loop, stop, exists, beaten, age, slack, missed, since>>
      BY <1>7, <2>2 DEF PingThrottled
    <3>2. loop = "ping"
      BY <1>7 DEF PingThrottled
    <3>3. AgeBounded'
      BY <3>1, <3>2 DEF AgeBounded, Running
    <3> QED BY <2>2, <3>1, <3>2, <3>3
  <2> QED BY <2>1, <2>2
<1>8. CASE PingAgain
  <2>1. /\ age' = age + pause /\ slack' = slack + pause /\ since' = since + pause
        /\ UNCHANGED <<settled, loop, stop, exists, beaten, missed>>
        /\ loop = "ping" /\ phase' = "send"
    BY <1>8 DEF PingAgain, Wake, Late, Elapse
  <2>2. pause \in Nat
    BY DEF RetryInv, CallTypeOK
  <2>3. AgeBounded'
    <3>1. (missed + 1) * interval \in Nat
      BY OneMore
    <3>2. beaten => age <= slack + (missed + 1) * interval
      BY <2>1 DEF AgeBounded, Running
    <3> QED BY <2>1, <2>2, <3>1, <3>2 DEF AgeBounded, Running
  <2> QED BY <2>1, <2>2, <2>3
<1>9. CASE Sleep \/ RunAgain
  <2>1. /\ age' = age + interval /\ since' = since + interval /\ loop' = "check"
        /\ UNCHANGED <<callVars, settled, stop, exists, beaten, slack, missed>>
        /\ loop = "sleep" \/ (loop = "raised" /\ result # "gone")
    BY <1>9 DEF Sleep, RunAgain, Elapse
  <2>2. AgeBounded'
    <3>1. (missed + 1) * interval = missed * interval + interval /\ missed * interval \in Nat
      BY OneMore
    <3>2. beaten => age <= slack + missed * interval
      BY <2>1 DEF AgeBounded, Running
    <3> QED BY <2>1, <3>1, <3>2 DEF AgeBounded, Running
  <2>3. since' >= MinInterval
    BY <2>1, Bounds
  <2> QED BY <2>1, <2>2, <2>3 DEF callVars
<1>10. CASE Idle
  <2>1. /\ age' = age + interval /\ slack' = slack + interval /\ since' = since + interval
        /\ UNCHANGED <<callVars, settled, loop, stop, exists, beaten, missed>>
        /\ loop \in {"returned", "raised"}
    BY <1>10 DEF Idle, Elapse
  <2>2. AgeBounded'
    <3>1. missed * interval \in Nat
      BY OneMore
    <3> QED BY <2>1, <3>1 DEF AgeBounded, Running, callVars
  <2> QED BY <2>1, <2>2 DEF callVars
<1>11. CASE Stop \/ Removed
  <2>1. /\ UNCHANGED <<callVars, settled, loop, beaten, age, slack, missed, since>>
        /\ stop' \in BOOLEAN /\ exists' \in BOOLEAN
    BY <1>11 DEF Stop, Removed
  <2>2. AgeBounded'
    BY <2>1 DEF AgeBounded, Running, callVars
  <2> QED BY <2>1, <2>2 DEF callVars
<1>12. CASE ResetHeartbeat
  <2>1. /\ UNCHANGED <<callVars, settled, loop, stop, exists, since>>
        /\ beaten' = FALSE /\ age' = 0 /\ slack' = 0 /\ missed' = 0
    BY <1>12 DEF ResetHeartbeat
  <2>2. AgeBounded'
    BY <2>1 DEF AgeBounded
  <2> QED BY <2>1, <2>2 DEF callVars
<1> QED
  BY <1>1, <1>2, <1>3, <1>4, <1>5, <1>6, <1>7, <1>8, <1>9, <1>10, <1>11, <1>12
  DEF Next, LoopStep

(* Both parts are kept together ...                                           *)
LEMMA BothStay ==
  ASSUME RetryInv, LoopInv, [Next]_vars
  PROVE  RetryInv' /\ LoopInv'
<1>1. CASE UNCHANGED vars
  <2>1. UNCHANGED callVars /\ UNCHANGED loopVars
    BY <1>1 DEF vars
  <2>2. RetryInv'
    BY <2>1, RetryStep
  <2>3. LoopTypeOK'
    BY <2>1 DEF LoopInv, LoopTypeOK, loopVars
  <2>4. AgeBounded'
    BY <2>1 DEF LoopInv, AgeBounded, Running, loopVars, callVars
  <2> QED BY <2>1, <2>2, <2>3, <2>4 DEF LoopInv, loopVars, callVars
<1>2. CASE Next
  <2>1. RetryInv'
    BY <1>2, PingMoves, RetryStep
  <2> QED BY <1>2, <2>1, LoopStays
<1> QED BY <1>1, <1>2

(* ... and hold in every state.                                               *)
LEMMA BothHold == Spec => [](RetryInv /\ LoopInv)
<1>1. Init => RetryInv /\ LoopInv
  BY Initially
<1>2. (RetryInv /\ LoopInv) /\ [Next]_vars => (RetryInv /\ LoopInv)'
  BY BothStay
<1> QED BY <1>1, <1>2, PTL DEF Spec

-----------------------------------------------------------------------------
(* The age of the last recorded ping is made of intervals and of the slack    *)
(* (HeartbeatScheduler.run_forever).                                        *)
THEOREM HeartbeatInvariance == Spec => []HeartbeatInv
BY BothHold, Parts, PTL

(* Three pings fit into a window of three seconds or more, and one for every   *)
(* second into a shorter one (heartbeat_interval_for_policy).               *)
LEMMA PingsFit ==
  ASSUME NEW w \in Nat \ {0}, NEW i \in Nat,
         i = (IF (w \div 3) * Tick < Tick THEN Tick ELSE (w \div 3) * Tick),
         NEW m \in Nat, m <= Tolerated(w)
  PROVE  (m + 1) * i <= w * Tick
<1> USE Bounds
<1>1. CASE w >= 3
  <2> DEFINE q == w \div 3
  <2>1. q \in Nat /\ q >= 1 /\ 3 * q <= w
    BY <1>1
  <2>2. q * Tick \in Nat /\ w * Tick \in Nat /\ q * Tick >= Tick
    BY <2>1
  <2>3. i = q * Tick
    BY <2>2
  <2>4. m = 0 \/ m = 1 \/ m = 2
    BY <1>1 DEF Tolerated
  <2>5. (m + 1) * i <= 3 * i
    BY <2>4
  <2>6. 3 * (q * Tick) = (3 * q) * Tick
    BY <2>1
  <2>7. (3 * q) * Tick <= w * Tick
    BY <2>1
  <2> HIDE DEF q
  <2> QED BY <2>2, <2>3, <2>4, <2>5, <2>6, <2>7
<1>2. CASE w < 3
  <2>1. w \div 3 = 0 /\ (w = 1 \/ w = 2)
    BY <1>2
  <2>2. i = Tick
    BY <2>1
  <2>3. m + 1 <= w
    BY <1>2 DEF Tolerated
  <2>4. (m + 1 = 1 \/ m + 1 = 2) /\ w \in 1..2
    BY <2>1, <2>3
  <2> QED BY <2>1, <2>2, <2>3, <2>4
<1> QED BY <1>1, <1>2

(* A loop sized for its policy keeps the machine alive with as many pings lost *)
(* as its window tolerates, while trips and pauses cost less than a second.   *)
THEOREM WindowIsHeld == Spec => []WindowHeld
<1>1. RetryInv /\ LoopInv => WindowHeld
  <2> SUFFICES ASSUME LoopInv, sized, ServerWindow >= 1, Running, slack < Tick,
                      missed <= Tolerated(ServerWindow), beaten
               PROVE  age < (ServerWindow + 1) * Tick
    <3>1. LoopInv => age \in Nat /\ (duration \in Durations)
      BY DEF LoopInv, LoopTypeOK
    <3>2. LoopInv => ServerWindow \in Int
      BY <3>1, WholeSeconds
    <3>3. LoopInv => (ServerWindow + 1) * Tick \in Int
      BY <3>2, Bounds
    <3> QED BY <3>1, <3>3 DEF WindowHeld, Dead
  <2> DEFINE w == ServerWindow
  <2> USE Bounds
  <2>1. duration \in Durations /\ interval \in Nat /\ missed \in Nat /\ age \in Nat /\ slack \in Nat
    BY DEF LoopInv, LoopTypeOK
  <2>2. w \in Nat \ {0} /\ EffectiveWindow(duration) = w
    BY <2>1 DEF ServerWindow, EffectiveWindow
  <2>3. interval = (IF (w \div 3) * Tick < Tick THEN Tick ELSE (w \div 3) * Tick)
    BY <2>2 DEF LoopInv, IntervalForPolicy, PingsPerWindow
  <2>4. missed <= Tolerated(w)
    OBVIOUS
  <2> HIDE DEF w
  <2>5. (missed + 1) * interval <= w * Tick
    BY <2>1, <2>2, <2>3, <2>4, PingsFit
  <2>6. age <= slack + (missed + 1) * interval
    <3>1. (missed + 1) * interval = missed * interval + interval /\ missed * interval \in Nat
      BY <2>1, OneMore
    <3> QED BY <2>1, <3>1 DEF LoopInv, AgeBounded
  <2>7. (missed + 1) * interval \in Nat /\ w * Tick \in Nat /\ (w + 1) * Tick = w * Tick + Tick
    BY <2>1, <2>2
  <2>8. age < (w + 1) * Tick
    BY <2>1, <2>5, <2>6, <2>7
  <2> QED BY <2>8 DEF w
<1> QED BY <1>1, BothHold, PTL

(* The loop begins at most one ping a second, however short an interval is    *)
(* asked for (_clamped_heartbeat_interval).                                  *)
THEOREM BoundedRate == Spec => RateBounded
<1>1. RetryInv /\ LoopInv /\ [Next]_vars =>
        [loop = "check" /\ loop' = "ping" => since >= MinInterval]_vars
  BY DEF LoopInv
<1> QED BY <1>1, BothHold, PTL DEF Spec, RateBounded
=============================================================================
