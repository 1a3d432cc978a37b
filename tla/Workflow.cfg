SPECIFICATION Workflows
INVARIANTS RunsAreHonest AcceptsExactly FiresOnce
PROPERTIES EndsAsDecided FiresWhatIsDue
CONSTANTS
  r1 = r1
  s1 = s1
  s2 = s2
  s3 = s3
  i1 = i1
  c1 = c1
  c2 = c2
  Bad = bad
  Unknown = unknown
  NoRow = norow
  DefinitionIds = {i1}
  Clients = {c1, c2}
  Listed <- ThreeSteps
  Submitted <- Submissions
  MaxSuffix = 2
  None = None
  Runs = {r1}
  MaxCalls = 3
  StepList <- List
  Depends <- Edges
  Condition <- Ifs
  Ids <- Two
  Callers <- Two
  Plans <- BothPlans
  Period <- ShortPeriods
  Deadlines <- OneDeadline
  MaxTime = 3
  MaxCrashes = 1
CHECK_DEADLOCK FALSE
