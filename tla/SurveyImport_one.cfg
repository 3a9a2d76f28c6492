SPECIFICATION FairSpec
CONSTANTS
    r1 = r1
    r2 = r2
    c1 = c1
    c2 = c2
    a = a
    b = b
    a1 = a1
    a2 = a2
    b1 = b1
    Procs = {p1}
    Receipts = {r1}
    Checkpoints = {c1}
    Pairs <- OnePair
    Sources <- EditedSource
    Bindings = {u1, u2}
    InvalidRows = {b1}
    MaxFaults = 3
    PidReuse = FALSE
    Rows <- MCRows
    Keys <- MCKeys
    KeyOf <- MCKeyOf
    None = None
    Torn = Torn
    Foreign = Foreign
INVARIANTS
    EvidenceIsTrue
PROPERTIES
    SuccessIsWhole
    KeepsPromise
    RerunCompletes
