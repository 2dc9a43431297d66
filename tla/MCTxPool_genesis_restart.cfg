SPECIFICATION Spec
CONSTANTS
    Txs <- DestroyedTxs
    tx <- DestroyedTx
    Genesis = "g"
    Accounts <- MCAccounts
    Nobody = "nobody"
    GenesisBalance <- MCGenesisBalance
    NoTx = NoTx
    NoBalance = NoBalance
    PoolRejudgeThreshold = 2
    Callers = {c1}
SYMMETRY CallerSymmetry
INVARIANTS
    SupplyConserved
