\* Two processes of two sessions of one host, on one run with one artifact.
SPECIFICATION FairSpec
CONSTANTS
    p1 = p1
    p2 = p2
    Procs = {p1, p2}
    Sessions = {"a", "b"}
    Hosts = {"codex"}
    Runs = {"RUN_1"}
    Paths = {"base"}
    Phases <- MCPhases
    Terminal <- MCTerminal
    Runtimes = {"release-a", "release-b"}
    LeaseTicks = 1
    MaxNow = 1
    MaxDigest = 1
    None = None
    Abandoned = Abandoned
INVARIANTS NoLostUpdate OwnerWrites
PROPERTIES RunsKeepPromise LockGivenUp
CHECK_DEADLOCK FALSE
