\* One Reel and two acts: requests of the user, reloads, ignored failures.
CONSTANTS
    v1 = v1
    Videos = {v1}
    None = None
    MaxActs = 2
SPECIFICATION FairSpec
INVARIANTS
    TypeOK
PROPERTIES
    TombstoneHolds
    ViewedRemoved
