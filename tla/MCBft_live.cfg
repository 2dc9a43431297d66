SPECIFICATION FairSpec
CONSTANTS
  N = 2
  MaxHeight = 0
  MaxRound = 2
  MaxCrashes = 0
  Absent = {}
  Late <- NoneLate
  Early = FALSE
CHECK_DEADLOCK FALSE
 
PROPERTIES RoundsAdvance
