SPECIFICATION Spec
CONSTANTS
    Macs = {m1, m2}
    Named = {m1}
    Chosen = {m2}
    Flows = {f1}
    Calls = {k1, k2}
    Settings <- MCSettings
    MaxInbox = 2
    MaxOps = 2
    MaxReloads = 2
    MaxFaults = 1
INVARIANTS
    SelectionShown
    OptionsAvailable
PROPERTY
    PresenceSettles
