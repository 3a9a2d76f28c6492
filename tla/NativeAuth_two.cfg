SPECIFICATION Spec
CONSTANTS
    a = a
    b = b
    x = x
    y = y
    Procs = {p1, p2}
    Users = {a, b}
    Projects = {x, y}
    Visible <- MCApart
    Mix = {"login", "logout", "use", "call", "link", "unlink"}
    MaxLogins = 2
    MaxFaults = 1
    None = None
INVARIANTS
    TypeOK
    NoCircularWait
    CallsInOwnProject
PROPERTIES
    SignInsAreWhole
    SelectsForCurrentLogin
SYMMETRY Interchangeable
