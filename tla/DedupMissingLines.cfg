\* Two windows with lines missing anywhere.
SPECIFICATION Spec
CONSTANTS
  MaxLine = 4
  MaxWindows = 2
INVARIANT MissingLinesStitchedIn
CHECK_DEADLOCK FALSE
