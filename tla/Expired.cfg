SPECIFICATION TriageSpec
CONSTANTS
    NoGpo = NoGpo
    Fingerprints = {k}
    Gpos = {}
    GpoOf <- MCGpoOf
    OldSnapshots = 0
    MaxRuns = 1
    Requests = {w1}
    Actions = {"accepted_risk"}
    Expiries = {2}
    MaxClock = 2
    MaxEvents = 1
INVARIANT
    ExpiredIsActionable
CHECK_DEADLOCK FALSE
