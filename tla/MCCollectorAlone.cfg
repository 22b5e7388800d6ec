\* One account: ordinary runs, a continuation, crashes and the recovery command.
CONSTANTS
    r1 = r1
    r2 = r2
    r3 = r3
    v1 = v1
    v2 = v2
    a1 = a1
    a2 = a2
    c1 = c1
    c2 = c2
    None = None
    Reels = {r1, r2}
    Contents = {v1, v2}
    Accounts = {a1}
    Collectors = {c1, c2}
    AccountOf <- OneAccount
    Continuing = {c2}
    Target = 1
    Requests = {1, 2}
    Desired = 2
    Minimum = 1
    MaxAdvances = 2
    MaxRuns = 2
    Killable = {c1}
    CancelLive = FALSE
    LostCommits = FALSE
SPECIFICATION FairSpec
INVARIANTS
    SourceDurable
PROPERTIES
    RunEnds
CHECK_DEADLOCK FALSE
