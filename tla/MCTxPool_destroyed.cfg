SPECIFICATION RunningSpec
CHECK_DEADLOCK FALSE
CONSTANTS
    Txs <- DestroyedTxs
    tx <- DestroyedTx
    Genesis = "g"
    Accounts <- MCAccounts
    Nobody = "nobody"
    GenesisBalance <- MCGenesisBalance
    NoTx = NoTx
    NoBalance = NoBalance
    PoolRejudgeThreshold = 3
    Callers = {c1}
SYMMETRY CallerSymmetry
INVARIANTS
    VerifiedBatchExecutes
