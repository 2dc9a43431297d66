SPECIFICATION Spec
CONSTANTS
  N = 2
  MaxHeight = 1
  MaxRound = 1
  MaxCrashes = 1
  Absent = {}
  Late <- NoneLate
  Early = TRUE
CHECK_DEADLOCK FALSE
INVARIANTS TypeOK  DecisionBacked RoundBacked
PROPERTIES NeverBack
