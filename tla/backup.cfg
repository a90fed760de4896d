SPECIFICATION FairSpec
CONSTANTS
    Blocks = 4
    Stable = 3
    Timeout = 8
    MaxUploads = 2
INVARIANTS
    TypeOK
    PassIsBacked
PROPERTIES
    TestEnds
CHECK_DEADLOCK FALSE
