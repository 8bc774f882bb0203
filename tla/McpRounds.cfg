\* Two rounds of a candidate with a call each, the first with two deliveries; one day of two ticks.
SPECIFICATION Spec
CONSTANTS
    None = None
    Runs = {"s1", "s2"}
    Attempts = {"c1", "c2"}
    QueryLimit = 1
    DetailLimit = 1
    DailyLimit = 2
    DayLength = 2
    MaxNow = 1
    MaxRevision = 0
    Rounds <- TwoRounds
    Calls <- TwoCalls
    Batches = {"b1", "b2"}
    Actions = {"d1", "d2"}
    References = {x, y}
    SourcingOf <- TwoSourcing
    PreviousOf <- TwoPrevious
    CandidateOf <- TwoCandidate
    RoundOf <- TwoCallRound
    BatchOf <- TwoBatch
    OpOf <- TwoOp
    ActionRound <- PairActions
    McpTotal = 1
    CallLimit = 2
    MaxParallel = 1
    BatchSize = 1
    Spacing = 1
SYMMETRY ReferenceSymmetry
INVARIANTS RoundsSound
CHECK_DEADLOCK FALSE
