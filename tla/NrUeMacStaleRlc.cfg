SPECIFICATION Spec
CONSTANTS
    Lcids = {lc1}
    MaxQueue = 1
    SrTimeout = 3
    DciTimeout = 2
    PrachPeriod = 4
    PrachSubframes = {1}
    NumPrachSlots = 2
    RaWindowBegin = 1
    RaWindowEnd = 4
    MaxPreambleTx = 3
    RlcReportsWhileNotConnected = TRUE
INVARIANTS SetupFindsSrInactive
CHECK_DEADLOCK FALSE
