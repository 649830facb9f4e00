SPECIFICATION Spec
CONSTANTS
    gpo = gpo
    NoGpo = NoGpo
    Fingerprints = {k1}
    Gpos <- MCGpos
    GpoOf <- MCGpoOf
    OldSnapshots = 0
    MaxRuns = 3
PROPERTY
    DeletingNewestFallsBack
CHECK_DEADLOCK FALSE
