\* Three threads, three slots and a limit of two clients, every failure, an application that locks.
SPECIFICATION Spec
CONSTANTS
    t1 = t1
    t2 = t2
    t3 = t3
    s1 = s1
    s2 = s2
    s3 = s3
    a1 = a1
    a2 = a2
    Main = Main
    Nobody = Nobody
    NoAddress = NoAddress
    Threads = {t1, t2, t3}
    Sockets = {s1, s2, s3}
    Addresses = {a1}
    Allowed = {a1}
    Denied = {a1}
    MAX_CLIENTS = 3
    RequestedMax = 2
    RequestedPerIp = 0
    ExitAfterLast = TRUE
    Failures = {"accept", "malloc", "pthread_create"}
    MainReturns = TRUE
    AppLocks = {}
SYMMETRY Symmetry
INVARIANTS TypeOK SlotPerSession ThreadsCounted NoGhostClient
PROPERTY RefusedOnlyAtLimit
CHECK_DEADLOCK FALSE
