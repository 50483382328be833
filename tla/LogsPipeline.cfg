\* Polls that answer late, streams that do not break.
SPECIFICATION Spec
CONSTANTS
  PollInterval = 1
  MaxRunningPolls = 2
  keepGenerations = 2
  GenerationModulus = 100
  LineSliceChanLength = 1
  LineChanLength = 2
  DumpChannelSize = 1
  KeepLogs = FALSE
  OpenLag = 1
  ReadLag = 1
  StreamsBreak = FALSE
  MaxTime = 13
INVARIANT FileInOrder
INVARIANT NothingLost
INVARIANT NoGap
INVARIANT FlushMakesProgress
INVARIANT NoLateSlice
PROPERTY ImplementsLogWriter
