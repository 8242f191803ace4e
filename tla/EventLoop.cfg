\* An application that handles every event faster than Sleep and may call pvWait.
SPECIFICATION FairSpec
CONSTANTS
    Sleep = 3
    Minute = 7
    HelloMax = 4
    MaxWork = 1
    ForceNull = TRUE
    AllowPause = TRUE
    AppWaits = TRUE
    MaxInbox = 2
    MaxSilence = 14
INVARIANTS SilentClientLeaves
PROPERTIES LinesReceived PauseEnds
CHECK_DEADLOCK FALSE
