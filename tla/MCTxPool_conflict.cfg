SPECIFICATION Spec
CONSTANTS
    Txs <- ConflictTxs
    tx <- ConflictTx
    Genesis = "g"
    Accounts <- MCAccounts
    Nobody = "nobody"
    GenesisBalance <- MCGenesisBalance
    NoTx = NoTx
    NoBalance = NoBalance
    PoolRejudgeThreshold = 2
    Callers = {c1, c2}
SYMMETRY CallerSymmetry
INVARIANTS
    TypeOK
    PoolPartition
    OnlyLatestSequencer
    LedgerAncestorClosed
    
    GoodParents
    TipsNeverEmpty
    ConfirmedLeavePool
    GoodNoncesFollowLedger
    GoodWithinBalance
    TipsConfirmable
PROPERTIES
    ImplementsLedger
