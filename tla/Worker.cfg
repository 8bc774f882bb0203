SPECIFICATION ApprovedSpec
CONSTANTS
    None = None
    j1 = j1
    j2 = j2
    j3 = j3
    p1 = p1
    b1 = b1
    b2 = b2
    ListOf <- TwoListsShareAJob
    Sessions = {s1, s2}
    Platforms = {p1}
    Jobs = {j1, j2}
    Site <- OneSite
    BoundJobs = {j1}
    Undrafted = {}
    Batches = {b1, b2}
    Children = {}
    MaxItems = 2
    Cap = 2
    MinGap = 1
    LeaseTicks = 1
    DayTicks = 2
    MaxNow = 1
    MaxRev = 0
    Commands = {"lease", "record"}
    Recordable = {"sent"}
    Disciplined = FALSE
    DraftLists = {}
    Tier <- EqualTiers
    Workers = {s1, s2}
    Tasks = {}
    Fetches <- FetchAll
    Handlers = {}
    Signals = {}
    OpKeys = {}
INVARIANTS TypeOK OneResultPerItem ConfirmedSendsPaced ConfirmedSendsFirst OneOpenClaim CompletionTogether
PROPERTIES PromiseKept
CHECK_DEADLOCK FALSE
SYMMETRY SessionSymmetry
