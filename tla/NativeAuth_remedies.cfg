SPECIFICATION FairSpec
CONSTANTS
    a = a
    b = b
    x = x
    y = y
    Procs = {p1}
    Users = {a, b}
    Projects = {x, y}
    Visible <- MCVisible
    Mix = {"login", "logout", "status", "list", "use", "call", "link", "unlink"}
    MaxLogins = 2
    MaxFaults = 0
    None = None
INVARIANTS
    RemediesWork
