SPECIFICATION Spec
CONSTANTS
    client = client
    router = router
    Peers <- MCPeers
    Cids <- MCCids
    MaxCsn <- MCMaxCsn
    RlSplits <- MCSplits
    LastCsn = 4
    ClientCsn = 3
    RouterCsn = 2
    PreferLargeCidValue = TRUE
    RxMode = {client}
    TxMode = {router}
    PowerTraced = {client}
    RlControlled = {}
    SplittingBurst = 1
    MaxRetxAttempt = 1
INVARIANTS MeasurementAwaitsTsa
CHECK_DEADLOCK FALSE
