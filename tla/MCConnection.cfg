\* Two login sessions, the gateway and its browser, plain Collector runs, a reset.
CONSTANTS
    s1 = s1
    s2 = s2
    Sessions = {s1, s2}
    Kinds = {"plain"}
    Resets = 1
    MaxLost = 0
SPECIFICATION Spec
SYMMETRY SessionSymmetry
INVARIANTS
    TypeOK
    LoginOwnsAccount
    ExclusiveProfile
PROPERTIES
    ClosedStays
CHECK_DEADLOCK FALSE
