SPECIFICATION FairSpec
CONSTANTS
    a = a
    b = b
    x = x
    y = y
    Procs = {p1, p2}
    Users = {a, b}
    Projects = {x, y}
    Visible <- MCApart
    Mix = {"login", "use", "list", "status", "link", "unlink"}
    MaxLogins = 1
    MaxFaults = 0
    None = None
PROPERTIES
    CommandsEnd
