SPECIFICATION RowSpec
CONSTANTS
  COLORS <- MCColors
  MAX_VALUE = 4
  MaxRow = 4
INVARIANTS AcceptsExactlySets JokersReadTrue
CHECK_DEADLOCK FALSE
