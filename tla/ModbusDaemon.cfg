SPECIFICATION FairSpec
CONSTANTS
    N = 2
    Targets = {1}
    Sizes = {"fits", "big", "long"}
    Viewers = 2
    QueueMax = 1
    MaxCommands = 2
    MaxFaults = 2
INVARIANTS TypeOK AnswerMatches NoStaleCommand TornOnlyByOwnUnlock
PROPERTIES MirrorsPlc MailboxDrains
CHECK_DEADLOCK FALSE
