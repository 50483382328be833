\* Shutting down by a signal when polls outnumber the slots of pollResults.
SPECIFICATION FairSpec
CONSTANTS
  Collectors = {DPLL}
  Announcers = {DevInfo}
  MaxRunningPolls = 2
  PollResultsQueueSize = 1
  FatalBuild = {}
  FatalStart = {}
  FatalCleanUp = {}
  CallbackMayFail = FALSE
  MaxPolls = 2
  MaxIssues = 0
  MaxSignals = 1
PROPERTY SignalEndsInCleanUp
CHECK_DEADLOCK FALSE
