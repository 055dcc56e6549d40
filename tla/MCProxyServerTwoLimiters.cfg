\* A chain with a cookie limiter and an ip limiter (both max 1): the second
\* guard stored in ctx.guard drops the first one while the request runs.
CONSTANTS
    r1 = r1  r2 = r2   loc1 = loc1  loc2 = loc2
    lim1 = lim1  lim2 = lim2  waf = waf  k1 = k1  k2 = k2  s1 = s1  s2 = s2
    Requests <- MCRequests2
    Locations = {loc1}
    NoLocation = NoLocation
    Chain <- MCChainTwo
    Limiters = {lim1, lim2}
    Filters = {}
    Wafs = {}
    LimitTag <- MCLimitTag
    LimitMax <- MCLimitMax
    Keys = {k1, k2}
    NoKey = NoKey
    None = None
    Slots = {s1, s2}
    Hash <- MCHash
    UpstreamKind <- MCUpstreamTwo
    IsAdmin = FALSE
    Kinds = {"proxy"}
    HeaderValues = {"ascii"}
    UpstreamStatus = {200}
SPECIFICATION Spec
INVARIANT LimitRespected
