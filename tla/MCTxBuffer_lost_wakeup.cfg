SPECIFICATION FairSpec
CONSTANTS
  Tx <- ForkTx
  Parents <- ForkParents
  Weight <- ForkWeight
  Have = {"g"}
  Arrivals <- ForkArrivals
  Catchup = {"a", "b"}
  Invalid = {}
  Ill = {}
  Fatal = {}
  Proposing = {}
  MaxExpiries = 0
CHECK_DEADLOCK FALSE
PROPERTIES ParentsGotThenPooled
