SPECIFICATION Spec
CONSTANTS
    client = client
    router = router
    Peers <- MCPeers
    Cids <- MCCids
    MaxCsn <- MCMaxCsn
    RlSplits <- MCSplits
    LastCsn = 4
    ClientCsn = 3
    RouterCsn = 0
    PreferLargeCidValue = TRUE
    RxMode = {client}
    TxMode = {router}
    PowerTraced = {client}
    RlControlled = {client}
    SplittingBurst = 1
    MaxRetxAttempt = 1
INVARIANTS UniqueNumbers AnswersMatch SplitAddsUp
PROPERTIES DefaultsFollowLinks FailedLinkShedsShare
CHECK_DEADLOCK FALSE
