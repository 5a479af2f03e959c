\* An instance kept up by a service manager and two that are started by hand, on the same
\* paths; any may be stopped for good.
SPECIFICATION FairDaemonSpec
CONSTANTS
    p = p
    q = q
    r = r
    Nobody = Nobody
    Instances = {p, q, r}
    Supervised = {p}
    Watchdog = {p}
    Cleaning = {p}
    Tampering = TRUE
    MaxFaults = 3
INVARIANT DaemonTypeOK
INVARIANT ServesItsOwnSocket
PROPERTY NoSpuriousExit
PROPERTY ServiceRecovers
CHECK_DEADLOCK FALSE
