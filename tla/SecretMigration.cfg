SPECIFICATION Spec
CONSTANTS
    Aliases = {a1}
    Proxy = Proxy
    Identity = Identity
INVARIANT TypeOK
INVARIANT StoredSecretsSurvive
INVARIANT SettingsMatchCore
INVARIANT CommandsGoOn
PROPERTY ServedStoreUntouched
PROPERTY CommandsLeadForward
