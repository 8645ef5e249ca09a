SPECIFICATION Spec
CONSTANTS
    c1 = c1  c2 = c2  r1 = r1  r2 = r2
    Clients = {c1, c2}
    Consoles = {c1}
    Leavers = {c1, c2}
    Requests = {}
    Menu <- MCMenu
    Target <- MCTarget
    Asker <- MCAsker
    MaxSyncs = 1
    Nobody = Nobody
    None = None
    MaxFaults = 1
    Silences = TRUE
INVARIANTS
    HeardTheMonitor
PROPERTIES
    LinkNoticed
CHECK_DEADLOCK FALSE
