SPECIFICATION Spec
CONSTANTS
  App = {a}
  None = None
  Wanted = 2
  Kept = 4
  Pauses = FALSE
  MaxLaunches = 1
  MaxLines = 3
  MaxMoves = 0
INVARIANT NoLineSkipped
CHECK_DEADLOCK FALSE
