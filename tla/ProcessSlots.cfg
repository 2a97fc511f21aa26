CONSTANTS
  a1 = a1
  a2 = a2
  p1 = p1
  p2 = p2
  NoRow = NoRow
  App = {a1, a2}
  Pid = {p1, p2}
  MaxSlots = 2
  MaxRuns = 2
SYMMETRY Alike
SPECIFICATION Spec
INVARIANTS
  LifecycleInv
  DisposedStaysFree
  OnePingAfterStop
PROPERTIES
  RefusedOnlyAfterLeak
CHECK_DEADLOCK FALSE
