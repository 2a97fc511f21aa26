----------------------------- MODULE Heartbeat -----------------------------
(***************************************************************************)
(* HeartbeatScheduler (src/tamga/client.py): a thread that pings a machine, *)
(* sleeps its interval and pings again.  Each ping is one call of Retry.    *)
(*                                                                         *)
(* The server judges a machine by the age of its last ping, so the model   *)
(* keeps that age, and no clock: every step adds the ticks it takes.        *)
(* "slack" is the part of the age the loop did not plan: requests under     *)
(* way and pauses after a 429.                                             *)
(***************************************************************************)
EXTENDS Retry

CONSTANTS
  Durations,    \* the heartbeat_duration values of policies, Unset among them
  Unset,        \* heartbeat_duration is null
  Requested,    \* intervals, in ticks, that applications pass by hand
  Trips,        \* the ticks a ping may take, a timeout included
  Supervised,   \* does the application call run_forever again when it raised?
  MaxMissed,    \* bound: lost pings in a row after which it gives up
  MaxAge        \* bound: ticks the age is watched after the loop ended

Ping == [method |-> "POST", action |-> "ping-heartbeat"]

ASSUME HeartbeatAssumption ==
  /\ Ping \in Requests
  /\ Unset \notin Int
  /\ Durations \subseteq Int \cup {Unset}
  /\ Requested \subseteq Int
  /\ Trips \subseteq Nat
  /\ Supervised \in BOOLEAN
  /\ MaxMissed \in Nat /\ MaxAge \in Nat

VARIABLES
  duration,  \* policy.heartbeat_duration
  sized,     \* was the scheduler built by for_policy?
  interval,  \* self.interval, in ticks
  loop,      \* "check", "ping", "sleep", "returned", "raised"
  stop,      \* _stop
  exists,    \* is the machine's row there?
  beaten,    \* has the server recorded a ping? (otherwise NOT_STARTED)
  age,       \* ticks since it did
  slack,     \* history: the unplanned part of age
  missed,    \* history: pings lost since then
  since      \* history: ticks since the loop last began a ping

loopVars == <<duration, sized, interval, loop, stop, exists, beaten, age, slack,
              missed, since>>
vars == <<callVars, loopVars>>

TypeOK ==
  /\ CallTypeOK
  /\ duration \in Durations
  /\ sized \in BOOLEAN
  /\ interval \in Nat
  /\ loop \in {"check", "ping", "sleep", "returned", "raised"}
  /\ stop \in BOOLEAN /\ exists \in BOOLEAN /\ beaten \in BOOLEAN
  /\ age \in Nat /\ slack \in Nat /\ missed \in Nat /\ since \in Nat

-----------------------------------------------------------------------------
(* Sizing. *)

MinInterval == Tick                \* MIN_HEARTBEAT_INTERVAL
Recommended == 200 * Tick          \* MACHINE_HEARTBEAT_RECOMMENDED_INTERVAL
PingsPerWindow == 3                \* HEARTBEAT_PINGS_PER_WINDOW

(* effective_heartbeat_window_seconds *)
EffectiveWindow(d) == IF d = Unset THEN 600 ELSE IF d <= 0 THEN 600 ELSE d

(* Mutated: two pings in a window. *)
HalfWindow(d) ==
  LET i == (EffectiveWindow(d) \div 2) * Tick
  IN  IF i < MinInterval THEN MinInterval ELSE i

(* heartbeat_interval_for_policy *)
IntervalForPolicy(d) ==
  LET i == (EffectiveWindow(d) \div PingsPerWindow) * Tick
  IN  IF i < MinInterval THEN MinInterval ELSE i

(* Mutated: only what sleep would not accept is replaced. *)
ClampedNonPositive(i) == IF i <= 0 THEN Recommended ELSE i

(* _clamped_heartbeat_interval, applied by __post_init__ to every interval. *)
Clamped(i) ==
  IF i <= 0 THEN Recommended ELSE IF i < MinInterval THEN MinInterval ELSE i

(* The server: only null falls back, and whole seconds are compared, so that *)
(* DEAD begins one second after the window.                                  *)
ServerWindow == IF duration = Unset THEN 600 ELSE duration
Dead == beaten /\ age >= (ServerWindow + 1) * Tick

-----------------------------------------------------------------------------
Init ==
  /\ request = Ping /\ phase = "done" /\ result = "response"
  /\ attempt = 0 /\ pause = 0 /\ slept = 0 /\ sent = 1 /\ carried = 0
  /\ duration \in Durations
  /\ \/ sized = TRUE  /\ interval = Clamped(IntervalForPolicy(duration))
     \/ sized = FALSE /\ \E i \in Requested : interval = Clamped(i)
  /\ loop = "check"
  /\ stop = FALSE /\ exists = TRUE /\ beaten = FALSE
  /\ age = 0 /\ slack = 0 /\ missed = 0
  /\ since = MinInterval

settled == <<duration, sized, interval>>

Elapse(t) ==
  /\ age' = age + t
  /\ since' = since + t

Late(t) == Elapse(t) /\ slack' = slack + t

(* Mutated: the thread does not look at _stop before each ping. *)
CheckForgetful ==
  /\ loop = "check"
  /\ loop' = "ping" /\ Begin(Ping)
  /\ since' = 0
  /\ UNCHANGED <<settled, stop, exists, beaten, age, slack, missed>>

(* The thread looks at _stop and begins the next ping, or returns. *)
Check ==
  /\ loop = "check" /\ ~stop
  /\ loop' = "ping" /\ Begin(Ping)
  /\ since' = 0
  /\ UNCHANGED <<settled, stop, exists, beaten, age, slack, missed>>

Return ==
  /\ loop = "check" /\ stop
  /\ loop' = "returned"
  /\ UNCHANGED <<callVars, settled, stop, exists, beaten, age, slack, missed, since>>

PingSent ==
  /\ loop = "ping" /\ Send
  /\ \E t \in Trips : Late(t)
  /\ UNCHANGED <<settled, loop, stop, exists, beaten, missed>>

(* The server's UPDATE: an unconditional last_heartbeat_at = NOW(). *)
Recorded ==
  /\ exists
  /\ beaten' = TRUE /\ age' = 0 /\ slack' = 0 /\ missed' = 0

Unrecorded ==
  /\ missed' = missed + 1
  /\ UNCHANGED <<beaten, age, slack>>

(* Nothing is read off the answer: the loop goes to sleep. *)
Beat ==
  /\ loop = "ping" /\ Answered /\ carried' = carried + 1
  /\ Recorded
  /\ loop' = "sleep"
  /\ UNCHANGED <<settled, stop, exists, since>>

(* Mutated: a machine that is gone is pinged on. *)
GoneIgnored ==
  /\ loop = "ping" /\ ~exists /\ NotFound
  /\ loop' = "sleep"
  /\ UNCHANGED <<settled, stop, exists, beaten, age, slack, missed, since>>

(* 404: NotFoundError leaves the loop. *)
Gone ==
  /\ loop = "ping" /\ ~exists /\ NotFound
  /\ loop' = "raised"
  /\ UNCHANGED <<settled, stop, exists, beaten, age, slack, missed, since>>

(* Any other failure leaves it, too: 403, 5xx, timeout, 429 to the end.  A   *)
(* ping whose answer was lost may have been recorded.                        *)
Fails ==
  /\ loop = "ping"
  /\ \/ Answered /\ carried' = carried
     \/ Broken
     \/ Surfaces
  /\ IF carried' > carried THEN Recorded ELSE Unrecorded
  /\ loop' = "raised"
  /\ UNCHANGED <<settled, stop, exists, since>>

(* A 429 keeps the ping going, unless its Retry-After makes sleep raise.     *)
PingThrottled ==
  /\ loop = "ping"
  /\ \E after \in RetryAfter \cup {NoHeader} : Throttled(after)
  /\ IF phase' = "done"
     THEN loop' = "raised" /\ Unrecorded
     ELSE UNCHANGED <<loop, beaten, age, slack, missed>>
  /\ UNCHANGED <<settled, stop, exists, since>>

PingAgain ==
  /\ loop = "ping" /\ Wake
  /\ Late(pause)
  /\ UNCHANGED <<settled, loop, stop, exists, beaten, missed>>

(* time.sleep(self.interval.total_seconds()) *)
Sleep ==
  /\ loop = "sleep"
  /\ Elapse(interval)
  /\ loop' = "check"
  /\ UNCHANGED <<callVars, settled, stop, exists, beaten, slack, missed>>

LoopStep ==
  \/ Check \/ Return
  \/ PingSent \/ Beat \/ Gone \/ Fails \/ PingThrottled \/ PingAgain
  \/ Sleep

-----------------------------------------------------------------------------
(* The application and the server. *)

(* stop(), from any thread at any time. *)
Stop ==
  /\ ~stop /\ stop' = TRUE
  /\ UNCHANGED <<callVars, settled, loop, exists, beaten, age, slack, missed, since>>

(* The application runs the loop again, one interval after it raised. *)
RunAgain ==
  /\ Supervised /\ loop = "raised" /\ result # "gone" /\ missed < MaxMissed
  /\ loop' = "check"
  /\ Elapse(interval)
  /\ UNCHANGED <<callVars, settled, stop, exists, beaten, slack, missed>>

(* Time goes by without a loop. *)
Idle ==
  /\ loop \in {"returned", "raised"} /\ age < MaxAge
  /\ Elapse(interval) /\ slack' = slack + interval
  /\ UNCHANGED <<callVars, settled, loop, stop, exists, beaten, missed>>

(* The machine is deleted, or culled after it was DEAD. *)
Removed ==
  /\ exists /\ exists' = FALSE
  /\ UNCHANGED <<callVars, settled, loop, stop, beaten, age, slack, missed, since>>

(* reset_heartbeat, by a privileged token: back to NOT_STARTED, whatever the   *)
(* loop is doing.                                                            *)
ResetHeartbeat ==
  /\ exists /\ beaten
  /\ beaten' = FALSE /\ age' = 0 /\ slack' = 0 /\ missed' = 0
  /\ UNCHANGED <<callVars, settled, loop, stop, exists, since>>

Next == LoopStep \/ Stop \/ RunAgain \/ Idle \/ Removed \/ ResetHeartbeat

Spec == Init /\ [][Next]_vars

(* The thread runs: its sleeps end and its requests are answered or time out. *)
FairSpec == Spec /\ WF_vars(LoopStep)

-----------------------------------------------------------------------------
(* Properties. *)

(* Pings in a row that may be lost under a window: see the table in          *)
(* tests/test_policy_read.py.                                                *)
Tolerated(w) == IF w >= 3 THEN 2 ELSE w - 1

Running == loop \in {"check", "ping", "sleep"}

(* for_policy holds every window of a second or more: as long as trips and    *)
(* pauses cost less than a second in total, a machine whose loop runs is not   *)
(* DEAD, with as many pings lost in a row as the window tolerates.  It is the  *)
(* server's whole seconds that leave room for the trips.                       *)
WindowHeld ==
  sized /\ ServerWindow >= 1 /\ Running /\ slack < Tick /\ missed <= Tolerated(ServerWindow)
  => ~Dead

(* However short the interval asked for, the loop begins at most one ping a   *)
(* second: only a 429 makes it send more.                                     *)
RateBounded == [][loop = "check" /\ loop' = "ping" => since >= MinInterval]_vars

(* stop() ends the loop, and so does the machine's deletion, unless the call   *)
(* that would have noticed failed and the application does not call again.     *)
LoopEnds == (stop \/ ~exists) ~> (loop \in {"returned", "raised"})

(* What the documentation of HEARTBEAT_PINGS_PER_WINDOW says of two losses.   *)
TwoLossesAreHarmless ==
  sized /\ ServerWindow >= 3 /\ Running /\ missed <= 2 => ~Dead

(* The inductive strengthening behind WindowHeld: the age is made of the      *)
(* intervals since the last recorded ping and of the slack.                   *)
HeartbeatInv ==
  /\ TypeOK
  /\ sized => interval = IntervalForPolicy(duration)
  /\ interval >= MinInterval
  /\ loop = "ping" <=> phase # "done"
  /\ phase # "done" => carried = 0
  /\ beaten /\ Running =>
       age <= slack + (IF loop = "sleep" THEN missed ELSE missed + 1) * interval
  /\ beaten /\ loop = "raised" /\ result # "gone" => age <= slack + missed * interval
  /\ loop = "check" => since >= MinInterval
=============================================================================
