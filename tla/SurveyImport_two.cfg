SPECIFICATION Spec
CONSTANTS
    r1 = r1
    r2 = r2
    c1 = c1
    c2 = c2
    a = a
    b = b
    a1 = a1
    a2 = a2
    b1 = b1
    Procs = {p1, p2}
    Receipts = {r1, r2}
    Checkpoints = {c1, c2}
    Pairs <- Crossed
    Sources <- OneSource
    Bindings = {u1}
    InvalidRows = {a1}
    MaxFaults = 2
    PidReuse = FALSE
    Rows <- MCRows
    Keys <- MCKeys
    KeyOf <- MCKeyOf
    None = None
    Torn = Torn
    Foreign = Foreign
SYMMETRY Interchangeable
INVARIANTS
    TypeOK
    ReceiptLeadsCheckpoint
    RowsAccountedFor
PROPERTIES
    EvidenceOnlyGrows
    CheckpointNeverRegresses
