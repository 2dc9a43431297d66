SPECIFICATION RunningSpec
CHECK_DEADLOCK FALSE
CONSTANTS
    Txs <- TokenTxs
    tx <- TokenTx
    Genesis = "g"
    Accounts <- MCAccounts
    Nobody = "nobody"
    GenesisBalance <- MCGenesisBalance
    NoTx = NoTx
    NoBalance = NoBalance
    PoolRejudgeThreshold = 3
    Callers = {c1, c2}
SYMMETRY CallerSymmetry
INVARIANTS
    VerifiedBatchExecutes
    
    
