\* Two accounts whose collectors meet the same Reels, are killed or interrupted.
CONSTANTS
    r1 = r1
    r2 = r2
    r3 = r3
    v1 = v1
    v2 = v2
    a1 = a1
    a2 = a2
    c1 = c1
    c2 = c2
    None = None
    Reels = {r1, r2}
    Contents = {v1}
    Accounts = {a1, a2}
    Collectors = {c1, c2}
    AccountOf <- TwoAccounts
    Continuing = {}
    Target = 2
    Requests = {2}
    Desired = 0
    Minimum = 0
    MaxAdvances = 0
    MaxRuns = 2
    Killable = {c1}
    CancelLive = FALSE
    LostCommits = TRUE
SPECIFICATION Spec
SYMMETRY Symmetry
INVARIANTS
    TypeOK
    RunAddsUp
PROPERTIES
    TerminalFrozen
    DurableKept
CHECK_DEADLOCK FALSE
