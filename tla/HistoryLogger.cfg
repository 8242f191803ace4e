SPECIFICATION Spec
CONSTANTS
    Files = 3
    MaxHours = 1
    MaxLines = 2
    MaxPush = 4
    MaxClock = 5
    MaxEvents = 2
    Misjudged <- NewYearMisjudged
INVARIANTS TypeOK NewestInMemory CursorAlive CatComplete
CHECK_DEADLOCK FALSE
