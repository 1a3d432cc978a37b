SPECIFICATION RuntimeAndFiles
INVARIANTS AnswersAreTrue RunningWasStarted DescriptorsAreOwned EscapeLeavesNothing
PROPERTIES StatusIsFinal DoesWhatItAnswers
SYMMETRY Symmetry
CONSTANTS
  None = None
  t1 = t1
  t2 = t2
  k1 = k1
  a = a
  b = b
  Threads = {t1, t2}
  Sessions = {k1}
  Requests = {"open", "exec", "close", "restart", "reset", "destroy", "create", "install"}
  MaxShells = 2
  MaxCommands = 2
  MaxRequests = 2
  MaxRestarts = 1
  Names = {a, b}
  Archives <- AllArchives
  MaxMembers = 2
  MaxFileRequests = 2
CHECK_DEADLOCK FALSE
