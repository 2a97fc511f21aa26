CONSTANTS
  c1 = c1
  c2 = c2
  c3 = c3
  l1 = l1
  l2 = l2
  f1 = f1
  f2 = f2
  NoRow = NoRow
  Client = {c1, c2, c3}
  License = {l1}
  Fingerprint = {f1, f2}
  Blank = {f2}
  Hits <- Overlap
  Scope <- PolicyScope
  Limit <- OneSeat
  Cap <- Overage
  Rank <- ClientRank
  MaxPages = 2
  Naming = "any"
  HonestPages = FALSE
  PageSize = 1
  MaxCalls = 1
SPECIFICATION FairSpec
INVARIANTS
  ReturnedFingerprint
PROPERTIES
  CallsEnd
CHECK_DEADLOCK FALSE
