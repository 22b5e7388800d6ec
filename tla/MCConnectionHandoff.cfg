\* A Collector process that offers a handoff, beside one login session whose
\* gateway may lose a reply or restart.
CONSTANTS
    s1 = s1
    s2 = s2
    Sessions = {s1}
    Kinds = {"plain", "handoff"}
    Resets = 0
    MaxLost = 1
SPECIFICATION FairSpec
INVARIANTS
    VerifiedOnce
    HandoffConfirmed
PROPERTIES
    HandoffEnds
CHECK_DEADLOCK FALSE
