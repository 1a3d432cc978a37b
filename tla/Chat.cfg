SPECIFICATION ChatAndStreams
INVARIANTS CompleteIsVerified GoodAnswerIsKept NothingRunsForever Delivers RepliesStayPut TypingIsTrue
PROPERTIES ImplementsOneAnswer TurnsReturnAndFollowersCatchUp
CONSTANTS
  None = None
  a1 = a1
  p1 = p1
  p2 = p2
  Askers = {a1}
  Targets = {p1, p2}
  MaxFixes = 2
  MaxSteps = 3
  MaxTries = 2
  MaxItems = 6
  MaxLine = 3
  MaxBreaks = 2
  Hot = 3
  Limit = 4
  Recent = 2
  Batch = 2
  MaxPage = 3
CHECK_DEADLOCK FALSE
CONSTANTS
  Nothing = nothing
  t1 = t1
  t2 = t2
  w1 = w1
  Threads = {t1, t2}
  Texts = {w1}
  MaxChats = 1
  MaxKeep = 2
  LastChat = 2
  LastMessage = 2
