\* A worker that is killed, one that is kept running and repeated --reconcile
\* commands; no attempt outlives its lease.
CONSTANTS
    r1 = r1
    r2 = r2
    k1 = k1
    k2 = k2
    w1 = w1
    w2 = w2
    op = op
    None = None
    Reels = {r1}
    Keys = {k1}
    Outputs <- DistinctOutputs
    Workers = {w1, w2}
    Commands = {op}
    Killable = {w1}
    MaxAttempts = 2
    MaxCollects = 1
    SlowWorkers = FALSE
SPECIFICATION FairSpec
INVARIANTS
    ReadyHasFinal
PROPERTIES
    Settles
    SourceRemoved
CHECK_DEADLOCK FALSE
