SPECIFICATION FairSpec
CONSTANTS
  Tx <- ForkTx
  Parents <- ForkParents
  Weight <- ForkWeight
  Have = {"g"}
  Arrivals <- BatchArrivals
  Catchup = {}
  Invalid = {"b"}
  Ill = {}
  Fatal = {}
  Proposing = {}
  MaxExpiries = 0
CHECK_DEADLOCK FALSE
PROPERTIES ParentsGotThenPooled
