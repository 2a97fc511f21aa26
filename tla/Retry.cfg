CONSTANTS
  Tick = 4
  MaxRetries = 3
  RetryAfter <- Headers
  NoHeader = NoHeader
  Requests <- KindsOfRequest
SPECIFICATION RetrySpec
INVARIANTS
  RetryInv
  AtMostOnce
  RepeatsBounded
  LimitedOnlyWhenSpent
  WaitBounded
