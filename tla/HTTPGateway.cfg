SPECIFICATION Spec
CONSTANTS
    Aliases = {a}
    Requests = {r1, r2, r3}
    Creds = {k}
    Policies <- MCPolicies
    NoLimit = NoLimit
    NoRoute = NoRoute
    None = None
    MaxInFlight = 2
    Minute = 1
    MaxClock = 2
SYMMETRY Symmetry
INVARIANTS
    TypeOK
    SlotsMatchHolders
    LimitersMatchHolders
    RateBoundPerMinute
    ActivityTellsTruth
    NeverWaitsForOthers
PROPERTY RefusedOnlyAtLimit
