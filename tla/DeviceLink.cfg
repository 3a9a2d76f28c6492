SPECIFICATION Spec
CONSTANTS
    Procs = {p1, p2}
    MaxLinks = 2
    MaxFaults = 3
    None = None
INVARIANTS
    TypeOK
    LinkIsWhole
PROPERTIES
    ValueKeepsOrder
SYMMETRY Interchangeable
