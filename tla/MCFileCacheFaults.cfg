\* One task, every operation, crashes and failed writes.
SPECIFICATION Spec
CONSTANTS
    Clients <- MCClientsOne
    Keys = {k1}
    c1 = c1
    c2 = c2
    k1 = k1
    Objects <- MCObjects
    Metas <- MCMetas
    Ops <- MCOpsAll
    Faults <- MCFaultsAll
    None = None
    NoFile = NoFile
INVARIANT DiskHoldsPrefix
