\* One server over every configuration of three locations with weights 1
\* and 2 (ties and no ties) and two configured upstreams, a static one
\* (ipv4_only) whose address fails to resolve, answers IPv4 or IPv6 only,
\* and a DNS one.
\* Startup ends once every server is built and run: the assembly stops
\* there and the servers serve (ProxyServer, Discovery), so deadlock is
\* not checked.
SPECIFICATION Spec
CONSTANTS
    None = None
    ValidB64 = ValidB64
    InvalidB64 = InvalidB64
    PemBytes = PemBytes
    DefaultTemplate = DefaultTemplate
    Configurations <- MCConfigurations
    l1 = l1
    l2 = l2
    l3 = l3
    lx = lx
    u1 = u1
    u2 = u2
    s1 = s1
    a4 = a4
    a6 = a6
    Fail = Fail
    V4 <- MCV4
CHECK_DEADLOCK FALSE
INVARIANT LocationsInWeightOrder ServerNewFailsOnlyOnOwn
