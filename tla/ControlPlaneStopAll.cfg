SPECIFICATION Spec
CONSTANTS
    Aliases = {a, b}
    Users = {u, v}
    Creds = {k}
    Confs = {c}
    NoUser = NoUser
    NoRoute = NoRoute
    HostAlias = host
    Faults = {"before"}
PROPERTY StopAllErrorRestoresRoutes
