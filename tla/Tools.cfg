SPECIFICATION Spec
CONSTANTS
  Failed = Failed
  Nothing = Nothing
  Bad = Bad
  Zero = Zero
  MaxNames = 3
  Interfaces = {1, 2, 3}
  PTPDevices = {1, 2}
  MaxFiles = 2
  antPowerRetries = 3
  MaxDeviations = 2
  MaxStarts = 3
INVARIANT SelectedOnce
INVARIANT PrimaryKept
INVARIANT FormatsAgree
INVARIANT AntennaFromOneReading
INVARIANT ReadingIsOfThePin
CHECK_DEADLOCK FALSE
