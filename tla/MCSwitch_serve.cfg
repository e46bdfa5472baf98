CONSTANTS
    Agents = {1, 2}
    Frames = {1, 2, 3}
    Home <- MCHome
    Claim <- MCClaim
    Dest <- MCDest
    All = All
    Garbled = {1}
    Spent = {3}
    Portless = {2}
    SwitchName = SwitchName
    Nobody = Nobody
    IngressMax = 1
    DeadMax = 1
    Attempts = 2
    MaxHires = 1
SPECIFICATION FairSpec
INVARIANT FairTurn
PROPERTIES
    HandFreed
    EgressServed
