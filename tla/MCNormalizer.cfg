\* Two workers that may outlive their leases, one that may be killed, on two Reels
\* that normalize to the same file.
CONSTANTS
    r1 = r1
    r2 = r2
    k1 = k1
    k2 = k2
    w1 = w1
    w2 = w2
    op = op
    None = None
    Reels = {r1, r2}
    Keys = {k1}
    Outputs <- SharedOutput
    Workers = {w1, w2}
    Commands = {}
    Killable = {w1}
    MaxAttempts = 2
    MaxCollects = 1
    SlowWorkers = TRUE
SPECIFICATION Spec
SYMMETRY ReelSymmetry
INVARIANTS
    TypeOK
    JobsMatchReel
    SourceKept
    CleanupRemembered
PROPERTIES
    StaleWorkerHarmless
    ImplementsReelLife
CHECK_DEADLOCK FALSE
