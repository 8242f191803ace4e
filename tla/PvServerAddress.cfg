\* Two clients from different addresses start at the same time.
SPECIFICATION Spec
CONSTANTS
    t1 = t1
    t2 = t2
    t3 = t3
    s1 = s1
    s2 = s2
    s3 = s3
    a1 = a1
    a2 = a2
    Main = Main
    Nobody = Nobody
    NoAddress = NoAddress
    Threads = {t1, t2}
    Sockets = {s1, s2}
    Addresses = {a1, a2}
    Allowed = {a1, a2}
    Denied = {}
    MAX_CLIENTS = 2
    RequestedMax = 0
    RequestedPerIp = 0
    ExitAfterLast = FALSE
    Failures = {}
    MainReturns = FALSE
    AppLocks = {}
INVARIANTS AddressOfClient
CHECK_DEADLOCK FALSE
