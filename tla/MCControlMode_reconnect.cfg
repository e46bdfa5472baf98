CONSTANTS
    v1 = v1  v2 = v2
    Viewers = {v1, v2}
    Main = Main
    Refresher = Refresher
    None = None
    QueueMax = 2
    MaxOutput = 0
    MaxAsks = 1
    MaxRenames = 0
    MaxBreaks = 1
SPECIFICATION FairSpec
PROPERTY Recovers
CHECK_DEADLOCK FALSE
