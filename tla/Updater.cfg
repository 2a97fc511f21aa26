CONSTANTS
  Tick = 1
  MaxRetries = 2
  RetryAfter <- Hints
  NoHeader = NoHeader
  Requests <- Reads
  Key <- Artifacts
  MaxPage = 2
  Limits <- AskedLimits
  Omitted = Omitted
  LostCursor <- Answers
  MinTtl = 3
  MaxTtl = 6
  DefaultTtl = 4
  Ttls <- Lifetimes
  MaxTrip = 2
  MaxAge = 8
SPECIFICATION FairSpec
INVARIANTS
  UpdaterInv
  CompleteListing
  NeverLapsed
PROPERTIES
  ImplementsListing
  SessionEnds
