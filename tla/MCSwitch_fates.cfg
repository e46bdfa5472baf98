CONSTANTS
    Agents = {1, 2, 3}
    Frames = {1, 2}
    Home <- MCHome
    Claim <- MCClaim
    Dest <- MCDest
    All = All
    Garbled = {}
    Spent = {}
    Portless = {3}
    SwitchName = SwitchName
    Nobody = Nobody
    IngressMax = 1
    DeadMax = 1
    Attempts = 2
    MaxHires = 1
SPECIFICATION Spec
INVARIANTS
    TypeOK
    FrameKept
    AllOrNone
    RecordTrue
PROPERTY PromiseKept
