SPECIFICATION Spec
CONSTANTS
    SnModulus = 4
    WindowSize = 2
    SduSize = 2
    MaxSdus = 2
    MaxTxBuffer = 3
    MaxOpportunity = 2
    MaxInFlight = 2
    MaxStatusInFlight = 2
    StatusOvertakes = FALSE
    MaxSwitches = 1
    MaxLosses = 1
INVARIANTS TypeOK DeliveredInOrder NoAssertion WindowsAgree SenderKeepsUnreceived
PROPERTY EverySduArrives
CHECK_DEADLOCK FALSE
