CONSTANTS
    e1 = e1  e2 = e2  p1 = p1  p2 = p2
    Env = {e1, e2}
    Alerts = {}
    Malformed = {e2}
    Procs = {p1, p2}
    Watchdog = Watchdog
    None = None
    Orphan = Orphan
    IngressMax = 1
    OpenedMax = 1
    DeadMax = 1
    MaxFaults = 1
    MaxLapses = 1
    MaxHires = 2
SPECIFICATION Spec
SYMMETRY Symmetry
INVARIANTS
    TypeOK
    OneCustody
    AtMostOnce
    TruthfulCustody
    NoticeTruthful
    OwnershipKept
PROPERTY PromiseKept
