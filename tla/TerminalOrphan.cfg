SPECIFICATION Spec
INVARIANT ClosedLeavesNothing
SYMMETRY Symmetric
CONSTANTS
  None = None
  k1 = k1
  k2 = k2
  i1 = i1
  i2 = i2
  i3 = i3
  p1 = p1
  p2 = p2
  t1 = t1
  t2 = t2
  Keys = {k1, k2}
  Insts = {i1, i2}
  Procs = {p1, p2}
  Threads = {t1, t2}
  MaxSessions = 1
CHECK_DEADLOCK FALSE
