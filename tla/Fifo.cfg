\* Two readers and two writers, POSIX, a limit of one message, small buffers.
SPECIFICATION Spec
CONSTANTS
    r1 = r1
    r2 = r2
    w1 = w1
    w2 = w2
    Threads = {r1, r2, w1, w2}
    Readers = {r1, r2}
    Writers = {w1, w2}
    Win32 = FALSE
    CMax = 1000
    MaxMes = 1
    Lengths = {1, 2}
    Buffers = {1, 2}
    MaxWrites = 2
SYMMETRY Symmetry
INVARIANTS TypeOK NoNullHead TokenPerMessage Overshoot
PROPERTY AbstractQueue
CHECK_DEADLOCK FALSE
