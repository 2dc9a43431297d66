SPECIFICATION Spec
CONSTANTS
  Tx <- RefusedTx
  Parents <- RefusedParents
  Weight <- RefusedWeight
  Have = {"g"}
  Arrivals <- RefusedArrivals
  Catchup = {"b"}
  Invalid = {}
  Ill = {"i"}
  Fatal = {"f"}
  Proposing = {"s"}
  MaxExpiries = 1
CHECK_DEADLOCK FALSE
INVARIANTS ParentsFirst  WaitersRegistered
