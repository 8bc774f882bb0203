SPECIFICATION DeskSpec
CONSTANTS
    NoOne = NoOne
    Sessions = {"h1", "h2"}
    Drafters = {"h1", "h2"}
    Convs = {"c1"}
    CompanyOf <- OneCompany
    JobKnown = {"c1"}
    Greeted = {"c1"}
    Messages <- MCMessages
    Targets = {"silent", "closed"}
    Texts = {"t1", "t2"}
    Kinds = {"follow_up", "answer", "resume"}
    Files = {"f1"}
    MaxLog = 6
    MaxInbound = 2
    LastDay = 1
    NoWork = NoWork
    Postings = {"j"}
    Letters = {"a"}
    Resumes = {f, g}
    MaxAttempts = 2
    Posters = {w}
    Nobody = Nobody
    MaxPosts = 3
    LastMinute = 1
    Wakers = {"w", "v"}
    NoCheck = NoCheck
    BaseEvery = 3
    EscEvery = 2
    EscFor = 2
    Slack = 1
    Stale = 3
    ActiveTicks = {0, 1, 2, 3, 5, 6}
    LastTick = 7
    MaxChecks = 3
    NoList = NoList
    Rows = {"r2"}
    FitsOf <- Ambiguous
    MaxSnaps = 3
    MaxWords = 2
    Procs = {w, v}
    FirstVersion = 0
    LatestVersion = 4
    Rebuilds = {2}
    Adoptions = {"old", "new"}
    KindOf <- OneOfEach
    Movers = {m}
    Entries = {"r", "s"}
    Linked = {"r"}
    Declared = {"r"}
    Referred = {"r"}
    Facts <- OneFact
    LastVersion = 2
    NoMove = NoMove
    Backfillers = {b}
    Requests = {"b1", "b2"}
    MaxShots = 2
    MaxMoves = 4
    Idle = Idle
    Learners = {l, k}
    Watchers = {x}
    Feedback <- Decided
    Proposals <- MCProposals
    Wordings = {"t1", "t2"}
    Statutes = {"c1"}
    MaxLearnings = 2
    NoLearning = NoLearning
    Scenes = {"talks", "drafts", "deliveries", "mail", "checks", "lists", "schema",
              "adoption", "backfills", "learning", "contexts"}
INVARIANTS TalksSound DeliveriesApproved MailKept PatrolPaced ListsTold ScriptsInOrder
    AdoptionSound LinkProven PreferencesLearned PreferencesUsed
PROPERTIES DeskHistory
CHECK_DEADLOCK FALSE
