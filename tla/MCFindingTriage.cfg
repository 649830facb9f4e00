SPECIFICATION TriageSpec
CONSTANTS
    NoGpo = NoGpo
    Fingerprints = {k}
    Gpos = {}
    GpoOf <- MCGpoOf
    OldSnapshots = 0
    MaxRuns = 2
    Requests = {w1}
    Actions = {"accepted_risk", "risk_acceptance_revoked"}
    Expiries = {0, 2}
    MaxClock = 2
    MaxEvents = 3
INVARIANTS
    TriageTypeOK
    RegisterHasEveryAcceptance
    ActiveAcceptanceIsDecided
    ReopeningWinsTheInstant
    UnstableNeverDecided
PROPERTY
    DecisionsSurviveImports
CHECK_DEADLOCK FALSE
