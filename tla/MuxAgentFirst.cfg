\* The README on the agent listed first, against the code.
SPECIFICATION MuxSpec
CONSTANTS
    a = a
    b = b
    r = r
    s = s
    None = None
    List = List
    Bind = Bind
    Paths = {a, b}
    Keys = {k}
    Sessions = {r}
    Binders = {b}
    Volatile = {}
    Flaky = {}
    Hung = {}
    Clogged = {}
    MaxStamp = 0
    StrictClock = TRUE
    MaxGen = 1
    Managed = FALSE
    Configs <- ConfigAB
INVARIANT FirstListedAgentSigns
