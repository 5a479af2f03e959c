\* One agent hangs, one comes and goes; a reload may drop the one that hangs.
SPECIFICATION FairMuxSpec
CONSTANTS
    a = a
    b = b
    r = r
    s = s
    None = None
    List = List
    Bind = Bind
    Paths = {a, b}
    Keys = {k}
    Sessions = {r, s}
    Binders = {a}
    Volatile = {a}
    Flaky = {}
    Hung = {b}
    Clogged = {b}
    MaxStamp = 0
    StrictClock = TRUE
    MaxGen = 2
    Managed = FALSE
    Configs <- ConfigDrop
INVARIANTS
    RoutesStayInGeneration
    NobodyWaitsInVain
PROPERTIES
    RequestsAdvance
    EveryRequestAnswered
