\* Streams that break anywhere, few generations.
SPECIFICATION FairSpec
CONSTANTS
  PollInterval = 1
  MaxRunningPolls = 2
  keepGenerations = 1
  GenerationModulus = 100
  LineSliceChanLength = 1
  LineChanLength = 2
  DumpChannelSize = 1
  KeepLogs = FALSE
  OpenLag = 0
  ReadLag = 0
  StreamsBreak = TRUE
  MaxTime = 7
INVARIANT TypeOK
INVARIANT FileInOrder
INVARIANT NeverPanics
PROPERTY CleanUpEnds
INVARIANT CleanUpWaits
