\* Up to three windows with lines missing anywhere.
SPECIFICATION Spec
CONSTANTS
  MaxLine = 5
  MaxWindows = 3
INVARIANT WindowsMergeExactly
INVARIANT IndexInRange
INVARIANT LatestWindowKept
INVARIANT OverlapInOrder
CHECK_DEADLOCK FALSE
