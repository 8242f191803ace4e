\* Two consumers that read in a loop, with or without poll, with buffers for
\* every message.
SPECIFICATION LoopingSpec
CONSTANTS
    r1 = r1
    r2 = r2
    w1 = w1
    w2 = w2
    Threads = {r1, r2, w1, w2}
    Readers = {r1, r2}
    Writers = {w1, w2}
    Win32 = FALSE
    CMax = 1000
    MaxMes = 2
    Lengths = {1}
    Buffers = {1}
    MaxWrites = 2
PROPERTIES AllDelivered PollPromise
CHECK_DEADLOCK FALSE
