SPECIFICATION FairSpec
CONSTANTS
    r1 = r1
    r2 = r2
    r3 = r3
    Reels = {r1, r2, r3}
    None = None
    MaxCodes = 2
    MaxKnown = 4
    Target = 2
    Scripts <- AnyScripts
    Payloads <- AnyPayloads
    Feeds = {"source", "gesture"}
    Stages = {"3b", "3c1"}
    Remaining = 1
    MaxTransitions = 2
    MaxObservations = 3
    MaxWheels = 2
    MaxScrolls = 3
    MaxPolls = 2
    MorePolls = 1
    MaxObs = 1
INVARIANTS TypeOK HandedOnce GestureVerified
PROPERTIES Tidy WalkEnds
