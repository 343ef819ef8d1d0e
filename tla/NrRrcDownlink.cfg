SPECIFICATION Spec
CONSTANTS
    Rntis = {1, 2}
    ProcDelay = 1
    T300 = 4
    ConnEstFailLimit = 2
    MaxStored = 1
    SdtChoices = {TRUE, FALSE}
    ConnectionRequestTimeoutDuration = 2
    ConnectionSetupTimeoutDuration = 3
    ConnectionRejectedTimeoutDuration = 2
    DataInactivityInterval = 3
    SetupBwpSwitch = 2
    ResumeBwpSwitch = 1
    ReleaseBwpSwitch = 1
    MaxBuffered = 1
    AdmitChoices = {TRUE}
    RedCapChoices = {TRUE, FALSE}
    MaxDelay = 0
    EarlyRelease = FALSE
INVARIANTS OnlyDownlinkErrors PagingFrameIsDefined DownlinkHasContext
