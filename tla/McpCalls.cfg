\* One round with two batches, and a read of the host, on one day; the rules change once.
SPECIFICATION Spec
CONSTANTS
    None = None
    Runs = {"s1"}
    Attempts = {"c1", "c2", "c3", "h1"}
    QueryLimit = 1
    DetailLimit = 2
    DailyLimit = 2
    DayLength = 1
    MaxNow = 0
    MaxRevision = 1
    Rounds <- CallsRounds
    Calls <- CallsCalls
    Batches = {"b1", "b2"}
    Actions = {}
    References = {}
    SourcingOf <- CallsSourcing
    PreviousOf <- CallsPrevious
    CandidateOf <- CallsCandidate
    RoundOf <- CallsRound
    BatchOf <- CallsBatch
    OpOf <- CallsOp
    ActionRound <- NoActions
    McpTotal = 2
    CallLimit = 2
    MaxParallel = 1
    BatchSize = 2
    Spacing = 1
INVARIANTS ReadsSound CallsSound
PROPERTIES CallsStand
CHECK_DEADLOCK FALSE
