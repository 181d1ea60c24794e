SPECIFICATION Spec
CONSTANTS
    Aliases = {a, host}
    Users = {u, v}
    Creds = {k}
    Confs = {c}
    NoUser = NoUser
    NoRoute = NoRoute
    HostAlias = host
    Faults = {"before"}
INVARIANT HostIdentityPersists
