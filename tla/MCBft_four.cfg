SPECIFICATION FirstRoundSpec
CONSTANTS
  N = 4
  MaxHeight = 0
  MaxRound = 1
  MaxCrashes = 0
  Absent = {3}
  Late <- NoneLate
  Early = FALSE
CHECK_DEADLOCK FALSE
INVARIANTS Agreement PreCommitBacked  RoundBacked
