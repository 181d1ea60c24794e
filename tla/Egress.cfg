SPECIFICATION Spec
CONSTANTS
    Flows = {f1, f2}
    Proxies = {p, q}
    NoProxy = NoProxy
    Faults = {"before", "after"}
SYMMETRY Symmetry
INVARIANTS
    TypeOK
    PolicyDecidesTheWay
    SentAtMostOnce
    ProxyInForce
    ProxyOnlyIfWanted
PROPERTY ImplementsProxySetting
