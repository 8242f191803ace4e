\* A logger that is started twice.
SPECIFICATION Spec
CONSTANTS
    Files = 3
    MaxHours = 1
    MaxLines = 1
    MaxPush = 3
    MaxClock = 4
    MaxEvents = 2
    Misjudged = {}
PROPERTY OldestReused
CHECK_DEADLOCK FALSE
