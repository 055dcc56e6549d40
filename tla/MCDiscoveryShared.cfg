\* Two locations using the upstream: two background services; every
\* address is kept, so that a change of answer changes the set.
SPECIFICATION Spec
CONSTANTS
    h1 = h1
    h2 = h2
    a1 = a1
    a2 = a2
    a6 = a6
    l1 = l1
    l2 = l2
    Hosts <- MCHosts
    Addrs <- MCAddrs
    V4 <- MCV4
    Answers <- MCAnswers
    Ipv4Only = FALSE
    Locations <- MCLocationsTwo
    MaxChanges = 3
    Fail = Fail
    NoPeer = NoPeer
    None = None
PROPERTY NoRollback
