SPECIFICATION Spec
CONSTANTS
    Rntis = {1, 2, 3}
    ProcDelay = 1
    T300 = 5
    ConnEstFailLimit = 2
    MaxStored = 1
    SdtChoices = {TRUE, FALSE}
    ConnectionRequestTimeoutDuration = 1
    ConnectionSetupTimeoutDuration = 4
    ConnectionRejectedTimeoutDuration = 2
    DataInactivityInterval = 3
    SetupBwpSwitch = 2
    ResumeBwpSwitch = 1
    ReleaseBwpSwitch = 1
    MaxBuffered = 0
    AdmitChoices = {TRUE, FALSE}
    RedCapChoices = {TRUE, FALSE}
    MaxDelay = 1
    EarlyRelease = TRUE
INVARIANTS TypeOK NoUnexpectedEvent EventsFitTheContext EventsFitTheUe ContextsAgree
PROPERTIES ConnectionSpec AttemptsEnd StoredDataLeaves
