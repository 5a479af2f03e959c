\* One daemon whose start does not remove what its last life left; it may be stopped for good.
SPECIFICATION FairDaemonSpec
CONSTANTS
    p = p
    q = q
    r = r
    Nobody = Nobody
    Instances = {p}
    Supervised = {p}
    Watchdog = {p}
    Cleaning = {}
    Tampering = FALSE
    MaxFaults = 1
PROPERTY ServiceRecovers
CHECK_DEADLOCK FALSE
