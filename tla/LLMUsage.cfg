SPECIFICATION Spec
CONSTANTS
    Aliases = {a}
    Requests = {r1, r2}
    NoRoute = NoRoute
    None = None
    Models = {m1, m2}
    Absent = Absent
    Malformed = Malformed
    Refused = Refused
    MaxTokens = 3
    MaxBytes = 2
    Lines <- AllLines
    MaxCount = 3
    MaxLines = 4
    MaxCapture = 2
SYMMETRY Symmetry
INVARIANTS
    TypeOK
    UsageExactUnlessOverlapped
    PolicyAdmitsExactly
    UsageIndependentOfPieces
