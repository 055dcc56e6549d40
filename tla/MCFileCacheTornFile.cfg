\* Two tasks doing gets and puts of one key, with crashes and failed writes.
SPECIFICATION Spec
CONSTANTS
    Clients <- MCClientsTwo
    Keys = {k1}
    c1 = c1
    c2 = c2
    k1 = k1
    Objects <- MCObjects
    Metas <- MCMetas
    Ops <- MCOpsGetPut
    Faults <- MCFaultsAll
    None = None
    NoFile = NoFile
INVARIANT GetReturnsPutObject
