SPECIFICATION ListedSpec
CONSTANTS
    None = None
    j1 = j1
    j2 = j2
    j3 = j3
    p1 = p1
    b1 = b1
    b2 = b2
    ListOf <- OneListOfTwo
    Sessions = {s1}
    Platforms = {p1}
    Jobs = {j1, j2}
    Site <- OneSite
    BoundJobs = {j1}
    Undrafted = {}
    Batches = {b1}
    Children <- EveryItem
    MaxItems = 2
    Cap = 1
    MinGap = 1
    LeaseTicks = 2
    DayTicks = 2
    MaxNow = 0
    MaxRev = 1
    Commands = {"approve"}
    Recordable = {}
    Disciplined = FALSE
    DraftLists = {}
    Tier <- EqualTiers
    Workers = {}
    Tasks = {}
    Fetches <- FetchAll
    Handlers = {h1, h2}
    Signals = {}
    OpKeys = {k1, k2}
INVARIANTS DecisionsStand
CHECK_DEADLOCK FALSE
