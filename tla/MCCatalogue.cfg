\* Two seed commands, a client that reads the catalogue and one that streams.
CONSTANTS
    f1 = f1
    f2 = f2
    s1 = s1
    s2 = s2
    None = None
    Seeders = {s1, s2}
    Files = {f1, f2}
    ProbeOf <- TwoKinds
    SizeOf <- Sizes
    MaxSeeds = 3
    MaxTime = 2
    MaxKeys = 2
    Limits = {1, 2}
SPECIFICATION Spec
SYMMETRY SeederSymmetry
INVARIANTS
    TypeOK
    CatalogueComplete
    RowsBacked
    RangesExact
    NoStrayObjects
CHECK_DEADLOCK FALSE
