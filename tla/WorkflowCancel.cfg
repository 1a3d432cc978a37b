SPECIFICATION Spec
PROPERTY CancelStays
CONSTANTS
  r1 = r1
  s1 = s1
  s2 = s2
  None = None
  Runs = {r1}
  MaxCalls = 3
  StepList <- ShortList
  Depends <- ShortEdges
  Condition <- ShortIfs
CHECK_DEADLOCK FALSE
