SPECIFICATION FairSpec
INVARIANTS ExactlyOnce RecordsAgree
PROPERTIES ImplementsProtocol OpenIsKept ApprovalsMove
CONSTANTS
  r1 = r1
  r2 = r2
  u1 = u1
  u2 = u2
  d1 = d1
  d2 = d2
  None = None
  Reqs = {r1, r2}
  Turns = {u1}
  Deciders = {d1, d2}
  Wired = {r1}
  MaxRecords = 0
CHECK_DEADLOCK FALSE
