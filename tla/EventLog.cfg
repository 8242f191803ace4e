\* A reader of a ring of four that may be overtaken twice; two events per file.
SPECIFICATION Spec
CONSTANTS
    r1 = r1
    Readers = {r1}
    M = 4
    MaxEvents = 1
    MaxMinute = 2
    MaxPut = 9
INVARIANTS TypeOK ReadInOrder MissesTwoAtMost FileOvershoot
PROPERTIES LostByReopeningOnly
CHECK_DEADLOCK FALSE
