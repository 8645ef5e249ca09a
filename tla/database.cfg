SPECIFICATION DatabaseSpec
CONSTANTS
    m1 = m1
    m2 = m2
    r1 = r1
    r2 = r2
    r3 = r3
    Requests = {r1, r2, r3}
    Menus <- MCMenus
    Macs = {m1, m2}
    Programs <- MCPrograms
    None = None
INVARIANTS
    RowsSerial
    CountsExecutions
CHECK_DEADLOCK FALSE
