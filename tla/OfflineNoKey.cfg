CONSTANTS
  MaxKeys = 3
  MaxTime = 4
  Ttls <- Lifetimes
  NoExpiry = NoExpiry
  Tolerance = 1
  Drifts <- Clocks
  NoKid = NoKid
SPECIFICATION Spec
INVARIANTS
  ForgedMeansForged
