--------------------------- MODULE MCProxyServer ---------------------------
(* Instances of ProxyServer for TLC: one location whose chain is a cookie  *)
(* limiter followed by an expression filter, one location with two        *)
(* limiters, and a mock upstream.                                          *)
EXTENDS ProxyServer, TLC

CONSTANTS r1, r2, loc1, loc2, lim1, lim2, waf, k1, k2, s1, s2

MCRequests2 == {r1, r2}


\* loc1: "~deviceId 1" then the expression filter; loc2: a mock upstream.
MCChainOne == [l \in {loc1, loc2} |->
                  IF l = loc1 THEN <<lim1, waf>> ELSE <<>>]
MCUpstreamOne == [l \in {loc1, loc2} |-> IF l = loc1 THEN "proxy" ELSE "mock"]

\* loc1: a cookie limiter then an ip limiter, both with max 1.
MCChainTwo == [l \in {loc1} |-> <<lim1, lim2>>]
MCUpstreamTwo == [l \in {loc1} |-> "proxy"]

MCLimitTag == [l \in {lim1, lim2} |-> IF l = lim1 THEN "cookie" ELSE "ip"]
MCLimitMax == [l \in {lim1, lim2} |-> 1]

\* A one-to-one estimator hash.
MCHash == [k \in {k1, k2} |-> IF k = k1 THEN s1 ELSE s2]
MCHashOne == [k \in {k1} |-> s1]


=============================================================================
