\* More poll errors than erroredPolls has slots.
SPECIFICATION FairSpec
CONSTANTS
  Collectors = {DPLL}
  Announcers = {DevInfo}
  MaxRunningPolls = 2
  PollResultsQueueSize = 1
  FatalBuild = {}
  FatalStart = {}
  FatalCleanUp = {}
  CallbackMayFail = FALSE
  MaxPolls = 2
  MaxIssues = 2
  MaxSignals = 0
PROPERTY ErroredPollsNeverBlockMain
CHECK_DEADLOCK FALSE
