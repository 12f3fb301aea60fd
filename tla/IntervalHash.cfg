SPECIFICATION HashSpec
CONSTANTS
  Cuts = {0, 1, 3, 4, 5, 7, 8}
INVARIANT WellFormed
INVARIANT CoversFinished
INVARIANT NeverTouching
INVARIANT OverlapExact
