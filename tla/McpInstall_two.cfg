SPECIFICATION FairSpec
CONSTANTS
    Procs = {p1, p2}
    Entries = {e1, e2}
    Others = {s1}
    Attempts = 2
    MaxEdits = 2
    MaxFaults = 1
    None = None
    Malformed = Malformed
INVARIANTS
    TypeOK
PROPERTIES
    InstallsEnd
    BackupIsPredecessor
    InstallsSerialize
