SPECIFICATION Spec
CONSTANTS
    Lcids = {lc1}
    MaxQueue = 1
    SrTimeout = 1
    DciTimeout = 1
    Ue = ue
    Others = {other}
    MaxLateSrs = 1
    MaxSrList = 2
    MaxInFlight = 2
INVARIANTS TypeOK DemandIsSignalled SrListIsKnown
PROPERTIES GrantsKeepComing RequestIsAnswered
CHECK_DEADLOCK FALSE
