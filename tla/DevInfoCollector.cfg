SPECIFICATION Spec
CONSTANTS
  MaxRunningPolls = 2
  PollResultsSize = 2
  ErroredPollsSize = 1
  MaxDaemons = 2
  MaxVersion = 2
  MaxIssues = 2
INVARIANT TypeOK
INVARIANT MonitorNeverBlocks
INVARIANT CleanUpWaits
PROPERTY MainGoesOn
CHECK_DEADLOCK FALSE
