SPECIFICATION ListedSpec
CONSTANTS
    None = None
    j1 = j1
    j2 = j2
    j3 = j3
    p1 = p1
    b1 = b1
    b2 = b2
    ListOf <- ListsOfOne
    Sessions = {s1, s2}
    Platforms = {p1}
    Jobs = {j1, j2}
    Site <- OneSite
    BoundJobs = {j1}
    Undrafted = {}
    Batches = {b1}
    Children = {}
    MaxItems = 1
    Cap = 1
    MinGap = 1
    LeaseTicks = 2
    DayTicks = 2
    MaxNow = 1
    MaxRev = 0
    Commands = {"approve", "withdraw", "lease", "next"}
    Recordable = {}
    Disciplined = FALSE
    DraftLists = {}
    Tier <- EqualTiers
    Workers = {}
    Tasks = {}
    Fetches <- FetchAll
    Handlers = {}
    Signals = {}
    OpKeys = {}
PROPERTIES WithdrawnNeverReleased
CHECK_DEADLOCK FALSE
