\* One task issuing every operation, no faults.
SPECIFICATION Spec
CONSTANTS
    Clients <- MCClientsOne
    Keys = {k1}
    c1 = c1
    c2 = c2
    k1 = k1
    Objects <- MCObjects
    Metas <- MCMetas
    Ops <- MCOpsAll
    Faults <- MCFaultsNone
    None = None
    NoFile = NoFile
INVARIANT TypeOK GetReturnsPutObject TiersAgree
PROPERTY ImplementsCacheStore
