SPECIFICATION Spec
CONSTANTS
  Users = {u1, u2}
  Configurable = {u2}
  Nobody = Nobody
  MaxPods = 2
INVARIANT TypeOK
INVARIANT TakesNoLeftOver
INVARIANT NothingLeftRunning
PROPERTY UnmanagedUntouched
PROPERTY EveryCommandEnds
CHECK_DEADLOCK FALSE
