\* Two connections that may time out, beside the watcher, the cleanup and SIGHUP;
\* one agent accepts no more connections.
SPECIFICATION FairControlSpec
CONSTANTS
    a = a
    b = b
    c = c
    d = d
    Paths = {a, b}
    Clients = {c, d}
    Stubborn = {}
    Forwarded = {a}
    WatchEnabled = TRUE
    Clogged = {b}
    MaxSent = 2
    MaxStamp = 0
    StrictClock = FALSE
    Configs <- ConfigB
INVARIANT ControlTypeOK
PROPERTY AtomicCalls
PROPERTY EveryRequestServed
CHECK_DEADLOCK FALSE
