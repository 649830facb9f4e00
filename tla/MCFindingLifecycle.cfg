SPECIFICATION Spec
CONSTANTS
    gpo = gpo
    NoGpo = NoGpo
    Fingerprints = {k1}
    Gpos <- MCGpos
    GpoOf <- MCGpoOf
    OldSnapshots = 0
    MaxRuns = 5
INVARIANTS
    TypeOK
    AtMostOneOpen
    PredecessorsFormChains
    ResolutionIsJustified
    NothingGoneStaysOpen
    RunIdsNeverDangle
    PastRunsStayTrue
    CompleteDeltaIsTrue
PROPERTY
    ResolvedIsFinal
CHECK_DEADLOCK FALSE
