\* Two sessions over a configured agent and a watched one that come and go.
SPECIFICATION MuxSpec
CONSTANTS
    a = a
    b = b
    r = r
    s = s
    None = None
    List = List
    Bind = Bind
    Paths = {a, b}
    Keys = {k}
    Sessions = {r, s}
    Binders = {b}
    Volatile = {a, b}
    Flaky = {a}
    Hung = {}
    Clogged = {a}
    MaxStamp = 1
    StrictClock = TRUE
    MaxGen = 1
    Managed = TRUE
    Configs <- ConfigA
SYMMETRY Symmetric
INVARIANTS
    MuxTypeOK
    LockDiscipline
    CacheIsWhatWasHeard
PROPERTIES
    ListingIsComplete
    RefusalsAreHonest
