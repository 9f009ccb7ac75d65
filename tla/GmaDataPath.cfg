SPECIFICATION FairSpec
CONSTANTS
    Cids <- MCCids
    PreferLargeCidValue = TRUE
    Modes = {"split", "steer", "duplicate"}
    SplitSet <- MCSplits
    SplitBurst = 4
    LsnReordering = {TRUE, FALSE}
    FirstSn = 0
    FirstLsn = 254
    MaxPackets <- MCMaxPackets
    MaxTsus <- MCMaxTsus
    MaxEvents = 1
    MaxLosses = 1
INVARIANTS InOrderSplit InOrderSteer NothingSkipped ShareAsTold LossesAreCounted
PROPERTIES SendsOnUpLink HeldIsReleased
CHECK_DEADLOCK FALSE
