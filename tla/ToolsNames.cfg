SPECIFICATION Spec
CONSTANTS
  Failed = Failed
  Nothing = Nothing
  Bad = Bad
  Zero = Zero
  MaxNames = 2
  Interfaces = {1, 2, 3}
  PTPDevices = {1, 2}
  MaxFiles = 2
  antPowerRetries = 3
  MaxDeviations = 2
  MaxStarts = 3
INVARIANT NamesAreCaseInsensitive
CHECK_DEADLOCK FALSE
