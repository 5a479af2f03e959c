\* Another user's directory is in /tmp when the daemon starts.
SPECIFICATION WatchSpec
CONSTANTS
    a = a
    b = b
    d = d
    e = e
    Paths = {a, b}
    Dirs = {d, e}
    DirOf <- BothIn
    ReadDirs = {d, e}
    Sealed = {e}
    OldDirs = {d, e}
    Modes = {"smart"}
    Cleanups = TRUE
    Faults = FALSE
    MaxChanges <- None
    MaxStamp = 0
    StrictClock = FALSE
    Configs <- NoConfig
PROPERTY StartupFindsAgents
