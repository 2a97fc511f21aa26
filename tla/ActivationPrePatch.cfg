CONSTANTS
  c1 = c1
  c2 = c2
  c3 = c3
  l1 = l1
  l2 = l2
  f1 = f1
  f2 = f2
  NoRow = NoRow
  Client = {c1, c2}
  License = {l1, l2}
  Fingerprint = {f1, f2}
  Blank = {}
  Hits <- Overlap
  Scope <- PolicyScope
  Limit <- RoomForAll
  Cap <- RoomForAll
  Rank <- ClientRank
  MaxPages = 3
  Naming = "never"
  HonestPages = TRUE
  PageSize = 1
  MaxCalls = 2
SPECIFICATION Spec
INVARIANTS
  ReactivationRecovers
CHECK_DEADLOCK FALSE
