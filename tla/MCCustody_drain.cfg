CONSTANTS
    e1 = e1  e2 = e2  p1 = p1  p2 = p2
    Env = {e1, e2}
    Alerts = {}
    Malformed = {}
    Procs = {p1, p2}
    Watchdog = Watchdog
    None = None
    Orphan = Orphan
    IngressMax = 2
    OpenedMax = 1
    DeadMax = 1
    MaxFaults = 1
    MaxLapses = 0
    MaxHires = 1
SPECIFICATION FairSpec
INVARIANT InOrder
PROPERTY IngressDrains
