\* The socket manager keeps the promise of the priority list.
SPECIFICATION ManagerSpec
CONSTANTS
    a = a
    b = b
    c = c
    Paths = {a, b, c}
    Configs <- MCConfigs
    MaxStamp = 4
    StrictClock = FALSE
INVARIANT ManagerTypeOK
PROPERTY KeepsPriority
