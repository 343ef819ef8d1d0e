SPECIFICATION Spec
CONSTANTS
    SnModulus = 4
    WindowSize = 2
    SduSize = 2
    MaxSdus = 2
    MaxTxBuffer = 3
    MaxOpportunity = 2
    MaxInFlight = 2
    MaxStatusInFlight = 2
    StatusOvertakes = TRUE
    MaxSwitches = 1
    MaxLosses = 2
INVARIANT SenderKeepsUnreceived
CHECK_DEADLOCK FALSE
