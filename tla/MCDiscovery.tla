----------------------------- MODULE MCDiscovery -----------------------------
EXTENDS Discovery

CONSTANTS h1, h2, a1, a2, a6, l1, l2

\* Two hosts, so that one can fail while the other answers.
MCHosts == <<h1, h2>>
MCAddrs == {a1, a2, a6}
MCV4 == {a1, a2}
\* Every answer holds an IPv4 address next to the IPv6 one.
MCAnswers == {{a1}, {a1, a6}, {a2, a6}}
MCLocationsOne == {l1}
MCLocationsTwo == {l1, l2}
=============================================================================
