SPECIFICATION Spec
CONSTANTS
    Procs = {p1, p2, p3}
    MaxVersions = 4
    MaxFaults = 3
    None = None
INVARIANTS
    TypeOK
    ReportedSurvives
    FilesAreSound
PROPERTIES
    IsAtomicCell
