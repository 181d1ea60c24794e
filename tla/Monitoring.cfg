SPECIFICATION Spec
CONSTANTS
    Visitors = {v1, v2}
    MaxTarget = 2
    ActivityLimit = 1
    AuditLimit = 1
    Faults = {"before", "after"}
    NoRoute = NoRoute
    NoHealth = NoHealth
SYMMETRY VisitorSymmetry
INVARIANTS
    TypeOK
    HealthOfPresentTarget
    NeverAnOlderTarget
    RecordsKeepTheNewest
CHECK_DEADLOCK FALSE
