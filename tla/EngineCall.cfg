SPECIFICATION FairSpec
CONSTANTS
    Cap = 1
    Keep = 1
    MaxIn = 2
    MaxOut = 2
    Polls = 1
    None = None
INVARIANTS
    TypeOK
    OutputIsWhole
    EndsClean
PROPERTIES
    EngineIsDrained
    CallEnds
CHECK_DEADLOCK FALSE
