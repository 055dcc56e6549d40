\* The request lifecycle with one limiter and a filter per chain: counters,
\* limiter accounting and the concurrency limit, over the stats, admin and
\* proxy paths.
CONSTANTS
    r1 = r1  r2 = r2   loc1 = loc1  loc2 = loc2
    lim1 = lim1  lim2 = lim2  waf = waf  k1 = k1  k2 = k2  s1 = s1  s2 = s2
    Requests <- MCRequests2
    Locations = {loc1, loc2}
    NoLocation = NoLocation
    Chain <- MCChainOne
    Limiters = {lim1}
    Filters = {waf}
    Wafs = {}
    LimitTag <- MCLimitTag
    LimitMax <- MCLimitMax
    Keys = {k1}
    NoKey = NoKey
    None = None
    Slots = {s1}
    Hash <- MCHashOne
    UpstreamKind <- MCUpstreamOne
    IsAdmin = FALSE
    Kinds = {"stats", "admin", "proxy"}
    HeaderValues = {"ascii"}
    UpstreamStatus = {200}
SPECIFICATION Spec
INVARIANT TypeOK ProcessingBalance InflightAccounting LimitRespected
