SPECIFICATION FairSpec
CONSTANTS
    Conns = {c1, c2}
    Chans = {s1, s2}
    Aliases = {a}
    Users = {u, v}
    Policies <- MCPolicies
    NoRoute = NoRoute
    None = None
    MaxConnections = 1
    MaxSessions = 1
INVARIANTS
    TypeOK
    SlotsMatchHolders
    ShellsHoldSlots
PROPERTIES
    NoWorkOnRevokedRoute
    ConnectionsEnd
    AbandonedSessionsEnd
