CONSTANTS
    v1 = v1  v2 = v2
    Viewers = {v1, v2}
    Main = Main
    Refresher = Refresher
    None = None
    QueueMax = 2
    MaxOutput = 2
    MaxAsks = 2
    MaxRenames = 1
    MaxBreaks = 2
SPECIFICATION Spec
SYMMETRY Symmetry
INVARIANTS
    TypeOK
    LockAccounted
    AnswersMatch
    NoGap
CHECK_DEADLOCK FALSE
