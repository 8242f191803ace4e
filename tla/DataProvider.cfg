\* A client that puts and takes, one that takes and waits for the semaphore.
SPECIFICATION FairSpec
CONSTANTS
    Clients = {c1, c2}
    Threads = {1, 2, 3}
    Win32 = FALSE
    CMax = 1000
    Putters = {c1}
    Waiters = {c2}
    MaxPuts = 1
    MaxWaits = 1
    MaxNews = 1
    MaxFaults = 1
INVARIANTS TypeOK AnswerMatches ExactlyOnce
PROPERTIES PutServed
CHECK_DEADLOCK FALSE
