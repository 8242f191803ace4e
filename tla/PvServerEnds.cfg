\* The process ends after its last client; everything may fail, also within pvlock.
SPECIFICATION FairSpec
CONSTANTS
    t1 = t1
    t2 = t2
    t3 = t3
    s1 = s1
    s2 = s2
    s3 = s3
    a1 = a1
    a2 = a2
    Main = Main
    Nobody = Nobody
    NoAddress = NoAddress
    Threads = {t1, t2}
    Sockets = {s1, s2}
    Addresses = {a1}
    Allowed = {a1}
    Denied = {}
    MAX_CLIENTS = 2
    RequestedMax = 0
    RequestedPerIp = 0
    ExitAfterLast = TRUE
    Failures = {"accept", "malloc", "pthread_create"}
    MainReturns = FALSE
    AppLocks = {"calls"}
PROPERTIES SlotReclaimed ExitsAfterLast ThreadsTerminate
CHECK_DEADLOCK FALSE
