SPECIFICATION Spec
CONSTANTS
    Ues = {u1, u2}
    Preambles = {1, 2}
    PrachConfigs <- AgreedConfigs
    Fdm = 2
    RapIdKeys = 256
    MaxPreambleTx = 2
    RaWindowBegin = 1
    RaWindowEnd = 11
    MaxDlGap = 1
    MaxRarAge = 2
    ConnectionRequestTimeoutDuration = 15
    ConnectionRejectedTimeoutDuration = 3
INVARIANTS TypeOK RarIsForMe NoUnexpectedRrcEvent
PROPERTIES RarReachesItsSender ContextsAreReclaimed
