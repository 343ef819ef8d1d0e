SPECIFICATION Spec
CONSTANTS
    Ues = {u1, u2, u3, u4}
    Periodicities = {2, 3}
    StartPeriodicity = 2
    CounterWrap = 8
INVARIANTS TypeOK NoSharedSrsSlot OffsetsPartitioned
PROPERTY EveryUeIsSounded
CHECK_DEADLOCK FALSE
