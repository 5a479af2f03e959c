\* The smart watcher or the polling fallback while /tmp changes, with the health check and Reload.
SPECIFICATION FairWatchSpec
CONSTANTS
    a = a
    b = b
    d = d
    e = e
    Paths = {a, b}
    Dirs = {d, e}
    DirOf <- Apart
    ReadDirs = {d}
    Sealed = {}
    OldDirs = {d}
    Modes = {"smart", "polling"}
    Cleanups = TRUE
    Faults = TRUE
    MaxChanges <- Changes
    MaxStamp = 0
    StrictClock = FALSE
    Configs <- NoConfig
INVARIANTS
    WatchTypeOK
    LastWordIsTrue
PROPERTY StaleSocketsGo
PROPERTY NothingElseIsMissed
PROPERTY ReloadIsExact
PROPERTY PollMissesOnlyKnown
