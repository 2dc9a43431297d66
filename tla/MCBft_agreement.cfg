SPECIFICATION SplitSpec
CONSTANTS
  N = 4
  MaxHeight = 0
  MaxRound = 1
  MaxCrashes = 0
  Absent = {}
  Late <- SplitLate
  Early = FALSE
CHECK_DEADLOCK FALSE
INVARIANT Agreement
