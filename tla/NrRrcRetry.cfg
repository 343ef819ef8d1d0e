SPECIFICATION BroadcastSpec
CONSTANTS
    Rntis = {1, 2}
    ProcDelay = 1
    T300 = 5
    ConnEstFailLimit = 2
    MaxStored = 1
    SdtChoices = {FALSE}
    ConnectionRequestTimeoutDuration = 2
    ConnectionSetupTimeoutDuration = 4
    ConnectionRejectedTimeoutDuration = 2
    DataInactivityInterval = 3
    SetupBwpSwitch = 2
    ResumeBwpSwitch = 1
    ReleaseBwpSwitch = 1
    MaxBuffered = 0
    AdmitChoices = {TRUE}
    RedCapChoices = {TRUE, FALSE}
    MaxDelay = 0
    EarlyRelease = FALSE
PROPERTIES RetryFollows
