\* One collector and one announcer; the poll bound, the clean-up and the signals.
SPECIFICATION Spec
CONSTANTS
  Collectors = {DPLL}
  Announcers = {DevInfo}
  MaxRunningPolls = 2
  PollResultsQueueSize = 1
  FatalBuild = {DPLL}
  FatalStart = {DPLL}
  FatalCleanUp = {DPLL}
  CallbackMayFail = TRUE
  MaxPolls = 3
  MaxIssues = 0
  MaxSignals = 2
INVARIANT TypeOK
INVARIANT RunningPollsBounded
INVARIANT CleanUpIsQuiescent
INVARIANT ForwardNeverBlocks
INVARIANT AnnouncersOutliveCollectors
PROPERTY OnePollAfterForward
PROPERTY ImplementsLifecycle
\* The runner may stop for good: see RunnerShutdown.cfg and RunnerErroredPolls.cfg.
CHECK_DEADLOCK FALSE
