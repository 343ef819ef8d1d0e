SPECIFICATION RaSpec
CONSTANTS
    PrachPeriod = 6
    PrachSubframes = {1}
    NumPrachSlots = 2
    RaWindowBegin = 1
    RaWindowEnd = 7
    MaxPreambleTx = 3
INVARIANT RaSuccessIsExpected
CHECK_DEADLOCK FALSE
