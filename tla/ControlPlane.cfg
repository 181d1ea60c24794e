SPECIFICATION Spec
CONSTANTS
    Aliases = {a, b}
    Users = {u, v}
    Creds = {k}
    Confs = {c}
    NoUser = NoUser
    NoRoute = NoRoute
    HostAlias = b
    Faults = {"before", "after"}
SYMMETRY Symmetry
INVARIANTS
    TypeOK
    AliasesDisjoint
    FilesMatchRegistries
    PersistedRoutesHaveTargets
    NeverEnabledUnasked
    RefusedForCause
PROPERTY ImplementsCatalogue
