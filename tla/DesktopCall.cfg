SPECIFICATION FairSpec
CONSTANTS
    a = a
    b = b
    x = x
    y = y
    Procs = {p1}
    Profiles = {1, 2}
    Ports = {q1, q2}
    Accounts = {a, b}
    Projects = {x, y}
    Menu <- MCMenu
    Sessions <- MCSessions
    SignIns <- MCSignIns
    Installed = 1
    Polls = 1
    MaxStarts = 2
    MaxMoves = 1
    MaxFaults = 1
    None = None
INVARIANTS
    TypeOK
    ActsAsHeadless
    ReportsTellTruth
    SearchMissesNothing
PROPERTIES
    CommandsEnd
CHECK_DEADLOCK FALSE
