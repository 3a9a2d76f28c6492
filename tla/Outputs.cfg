SPECIFICATION Spec
CONSTANTS
    Procs = {p1, p2}
    Menu = {"export", "backup", "apply", "result", "convert", "replace", "seed", "acquire", "exchange", "unpack"}
    Last = 2
    Versions = {7, 8}
    MaxMoves = 3
    MaxFaults = 2
    Foreign = Foreign
    None = None
INVARIANTS
    TypeOK
    NothingHalf
PROPERTIES
    SuccessIsWhole
    NothingReplaced
CHECK_DEADLOCK FALSE
