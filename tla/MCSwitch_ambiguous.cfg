CONSTANTS
    Agents = {1, 2}
    Frames = {1, 3}
    Home <- MCHome
    Claim <- MCClaim
    Dest <- MCDest
    All = All
    Garbled = {}
    Spent = {}
    Portless = {}
    SwitchName = SwitchName
    Nobody = Nobody
    IngressMax = 1
    DeadMax = 1
    Attempts = 2
    MaxHires = 1
SPECIFICATION Spec
INVARIANT EveryFateRecorded
