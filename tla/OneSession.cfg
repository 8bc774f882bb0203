SPECIFICATION ApprovedSpec
CONSTANTS
    None = None
    j1 = j1
    j2 = j2
    j3 = j3
    p1 = p1
    b1 = b1
    b2 = b2
    ListOf <- OneListOfTwo
    Sessions = {s1}
    Platforms = {p1}
    Jobs = {j1, j2}
    Site <- OneSite
    BoundJobs = {j1}
    Undrafted = {}
    Batches = {b1}
    Children = {}
    MaxItems = 2
    Cap = 1
    MinGap = 1
    LeaseTicks = 2
    DayTicks = 2
    MaxNow = 3
    MaxRev = 1
    Commands = {"lease", "release", "next", "record"}
    Recordable = {"sent", "duplicate_found", "failed", "intervention", "withdrawn"}
    Disciplined = TRUE
    DraftLists = {}
    Tier <- EqualTiers
    Workers = {}
    Tasks = {}
    Fetches <- FetchAll
    Handlers = {}
    Signals = {}
    OpKeys = {}
INVARIANTS SendsPaced
CHECK_DEADLOCK FALSE
