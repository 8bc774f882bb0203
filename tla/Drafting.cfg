SPECIFICATION Spec
CONSTANTS
    None = None
    j1 = j1
    j2 = j2
    j3 = j3
    p1 = p1
    b1 = b1
    b2 = b2
    ListOf <- OneListOfTwo
    Sessions = {s1, s2}
    Platforms = {p1}
    Jobs = {j1, j2, j3}
    Site <- OneSite
    BoundJobs = {j1}
    Undrafted = {j3}
    Batches = {b1}
    Children = {}
    MaxItems = 2
    Cap = 1
    MinGap = 1
    LeaseTicks = 2
    DayTicks = 2
    MaxNow = 1
    MaxRev = 1
    Commands = {"draft", "ask", "approve", "withdraw"}
    Recordable = {}
    Disciplined = TRUE
    DraftLists <- MixedDrafts
    Tier <- MixedTiers
    Workers = {}
    Tasks = {t1}
    Fetches <- FetchAll
    Handlers = {}
    Signals = {"approved", "declined"}
    OpKeys = {}
INVARIANTS ApprovalAnswersQuestion
PROPERTIES FeedbackKept
CHECK_DEADLOCK FALSE
