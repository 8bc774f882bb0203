\* One round with one call and two deliveries; two days of two ticks.
SPECIFICATION Spec
CONSTANTS
    None = None
    Runs = {"s1"}
    Attempts = {"c1"}
    QueryLimit = 1
    DetailLimit = 1
    DailyLimit = 1
    DayLength = 2
    MaxNow = 2
    MaxRevision = 0
    Rounds <- CallsRounds
    Calls <- PairCalls
    Batches = {"b1"}
    Actions = {"d1", "d2"}
    References = {"x"}
    SourcingOf <- CallsSourcing
    PreviousOf <- CallsPrevious
    CandidateOf <- CallsCandidate
    RoundOf <- PairRound
    BatchOf <- PairBatch
    OpOf <- PairOp
    ActionRound <- PairActions
    McpTotal = 1
    CallLimit = 1
    MaxParallel = 1
    BatchSize = 1
    Spacing = 1
INVARIANTS DeliveriesSound
PROPERTIES StopRespected
CHECK_DEADLOCK FALSE
