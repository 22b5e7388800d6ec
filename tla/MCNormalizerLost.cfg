\* An attempt that outlives its lease: a final object in use is compensated.
CONSTANTS
    r1 = r1
    r2 = r2
    k1 = k1
    k2 = k2
    w1 = w1
    w2 = w2
    op = op
    None = None
    Reels = {r1}
    Keys = {k1}
    Outputs <- DistinctOutputs
    Workers = {w1, w2}
    Commands = {}
    Killable = {}
    MaxAttempts = 2
    MaxCollects = 1
    SlowWorkers = TRUE
SPECIFICATION Spec
INVARIANTS
    ReadyHasFinal
CHECK_DEADLOCK FALSE
