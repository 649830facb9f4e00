SPECIFICATION ImportSpec
CONSTANTS
    gpo = gpo
    onGpo = onGpo
    general = general
    Importers = {web, cli}
    NoOne = NoOne
    NoGpo = NoGpo
    Fingerprints <- MCFingerprints
    Gpos <- MCGpos
    GpoOf <- MCGpoOf
    OldSnapshots = 1
    MaxRuns = 2
INVARIANTS
    ImportTypeOK
    FailureMarksNobody
PROPERTY
    ImportsAreAtomic
CHECK_DEADLOCK FALSE
