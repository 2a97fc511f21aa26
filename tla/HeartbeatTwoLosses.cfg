CONSTANTS
  Tick = 2
  MaxRetries = 1
  RetryAfter <- Hints
  NoHeader = NoHeader
  Requests <- OnlyPings
  Durations <- Windows
  Unset = Unset
  Requested <- ByHand
  Trips <- Instant
  Supervised = TRUE
  MaxMissed = 3
  MaxAge = 0
SPECIFICATION Spec
INVARIANTS
  TwoLossesAreHarmless
CHECK_DEADLOCK FALSE
