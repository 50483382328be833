\* How the run ends: by its duration, or on a signal.
SPECIFICATION FairSpec
CONSTANTS
  Collectors = {DPLL}
  Announcers = {DevInfo}
  MaxRunningPolls = 1
  PollResultsQueueSize = 1
  FatalBuild = {}
  FatalStart = {}
  FatalCleanUp = {}
  CallbackMayFail = FALSE
  MaxPolls = 2
  MaxIssues = 1
  MaxSignals = 1
PROPERTY DurationEndsInCleanUp
PROPERTY ShutdownWithRoomEnds
\* The runner may stop for good: see RunnerShutdown.cfg.
CHECK_DEADLOCK FALSE
