SPECIFICATION HiringSpec
CONSTANTS
    Nothing = Nothing
    Targets = {"u", "l"}
    UrlTargets = {"u"}
    Jobs = {"j"}
    Occasions <- LateOnly
    Policies = {"p"}
    Openings = {"o"}
    People = {"a", "b"}
    Resolvers = {"p", "q"}
    Learners = {l}
    Rounds = {k}
    MaxSearches = 1
    Candidates = {"a"}
    Makers = {m}
    NoFact = NoFact
    Stories <- MCStories
    Wordings = {"g"}
    Silence = 1
    MaxClock = 3
    MaxLag = 1
    MaxRounds = 2
    MaxSnapshots = 1
    Tracks = {"a", "b"}
    NoTime = NoTime
    CheckEvery = 1
    SilenceTicks = 2
    Letters <- MCLetters
    LastMoment = 3
    MaxEvents <- MCEvents
    Names = {"q", "c"}
    BaseNames = {"q"}
    Unset = Unset
    Requests <- MCRequests
    Hunts = {"h1"}
    LastHour = 2
    MaxQuestions = 3
    Scopes = {s}
    Editors = {e}
    MaxFigures = 1
    MaxEdits = 1
    MaxDiagnoses = 2
    MaxProposals = 3
    MaxDecisions = 3
    Pipes = {"p"}
    Trackings = {"t"}
    Pages = {"out", "in"}
    Lost = {"out"}
    Reporters = {d}
    Reports = {"i"}
    LastInstant = 2
    MaxChanges = 2
    Unfiled = Unfiled
    Tellers = {h}
    Legacies = {"w"}
    Parts = {"intakes"}
INVARIANTS InterestRecovers
CHECK_DEADLOCK FALSE
