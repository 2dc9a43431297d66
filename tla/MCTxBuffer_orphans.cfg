SPECIFICATION FairSpec
CONSTANTS
  Tx <- DiamondTx
  Parents <- DiamondParents
  Weight <- DiamondWeight
  Have = {"g"}
  Arrivals <- DiamondArrivals
  Catchup = {}
  Invalid = {"v"}
  Ill = {}
  Fatal = {}
  Proposing = {}
  MaxExpiries = 0
CHECK_DEADLOCK FALSE
INVARIANTS TypeOK 
PROPERTIES OrphansPooled
