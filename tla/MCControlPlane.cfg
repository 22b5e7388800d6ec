\* Three requests of one code's device: exchanges, commands and their repetitions,
\* with revocation, rotated tokens and everything expiring.
CONSTANTS
    q1 = q1
    q2 = q2
    q3 = q3
    d1 = d1
    d2 = d2
    c1 = c1
    k1 = k1
    v1 = v1
    v2 = v2
    None = None
    Requests = {q1, q2, q3}
    Devices = {d1, d2}
    Codes = {c1}
    Keys = {k1}
    Batches = {{v1}, {v1, v2}}
    Owned = {v1}
    CodeTTL = 1
    SessionTTL = 3
    RecordTTL = 3
    Window = 2
    Limit = 1
    Delay = 1
    MaxClock = 3
SPECIFICATION Spec
SYMMETRY RequestSymmetry
INVARIANTS
    TypeOK
    AppliedOnce
    PairedOnce
    StaleRefused
    WindowBounded
CHECK_DEADLOCK FALSE
