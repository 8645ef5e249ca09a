SPECIFICATION Spec
CONSTANTS
    c1 = c1  c2 = c2  r1 = r1  r2 = r2
    Clients = {c1}
    Consoles = {c1}
    Leavers = {}
    Requests = {r1, r2}
    Menu <- MCMenu
    Target <- MCTarget
    Asker <- MCAsker
    MaxSyncs = 1
    Nobody = Nobody
    None = None
    MaxFaults = 1
    Silences = FALSE
INVARIANTS
    ViewsAgree
CHECK_DEADLOCK FALSE
