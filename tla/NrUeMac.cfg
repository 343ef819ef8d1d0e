SPECIFICATION FairSpec
CONSTANTS
    Lcids = {lc1, lc2}
    MaxQueue = 1
    SrTimeout = 3
    DciTimeout = 2
    PrachPeriod = 6
    PrachSubframes = {1}
    NumPrachSlots = 2
    RaWindowBegin = 1
    RaWindowEnd = 7
    MaxPreambleTx = 3
    RlcReportsWhileNotConnected = FALSE
INVARIANTS TypeOK SrTimersMatchState NoDciTimeoutInOtherState SrQuietUnlessConnected RntiMatchesRrc SetupFindsSrInactive OnePhaseAtATime RaNeverForgotten
PROPERTY RandomAccessEnds
CHECK_DEADLOCK FALSE
