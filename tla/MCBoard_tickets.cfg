CONSTANTS
    p1 = p1  p2 = p2  a1 = a1  a2 = a2  id1 = id1  id2 = id2  t1 = t1  t2 = t2
    Procs = {p1, p2}
    Adds = {a1, a2}
    Ids = {id1, id2}
    Titles = {t1, t2}
    Original = t1
    Outcomes = {"failed"}
    None = None
    NotesMax = 1
    DoneMax = 1
    MaxCommands = 3
SPECIFICATION Spec
SYMMETRY Symmetry
INVARIANTS
    TypeOK
    OneDoing
    TicketKept
    RecordKept
PROPERTY PromiseKept
CHECK_DEADLOCK FALSE
