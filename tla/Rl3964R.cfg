SPECIFICATION FairSpec
CONSTANTS
    MaxTelegrams = 3
    MaxNoise = 1
    MaxUpsets = 1
INVARIANTS TypeOK
PROPERTIES  WriteEnds
CHECK_DEADLOCK FALSE
