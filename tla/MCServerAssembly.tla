--------------------------- MODULE MCServerAssembly ---------------------------
(***************************************************************************)
(* Checks the startup assembly of one server over bounded configurations: *)
(* three configured locations in every map order, weights with and        *)
(* without ties, two configured upstreams (in one map order: only the    *)
(* order of the kept upstreams depends on it), used or unused, a          *)
(* locations list that is None or names any of them and a missing one,   *)
(* a static upstream whose startup resolution fails, answers IPv4 or     *)
(* IPv6 only, a DNS upstream, and a failing Location::new.                *)
(***************************************************************************)
EXTENDS ServerAssembly, TLC

CONSTANTS
    l1, l2, l3,   \* configured locations
    lx,           \* a location name no location is configured under
    u1, u2,       \* configured upstreams: u1 static, u2 DNS discovered
    a4, a6,       \* an IPv4 and an IPv6 address
    s1            \* the server

MCLocations == {l1, l2, l3}

MCV4 == {a4}

\* The TLS blobs, error template and failing locations a configuration
\* may carry, taken together so that each choice occurs without
\* multiplying the others.
MCExtras ==
    {[cert |-> None, key |-> None, tpl |-> "", bad |-> {}],
     [cert |-> ValidB64, key |-> ValidB64, tpl |-> "custom", bad |-> {}],
     [cert |-> InvalidB64, key |-> ValidB64, tpl |-> "", bad |-> {l1}],
     [cert |-> None, key |-> None, tpl |-> "custom", bad |-> {l1}]}

MCConfigurations ==
    {[loc_order |-> order, weight |-> w, upstream |-> up, up_order |-> <<u1, u2>>,
      servers |-> [s \in {s1} |->
                     [locations |-> named, tls_cert |-> x.cert, tls_key |-> x.key]],
      discovery |-> [u \in {u1, u2} |-> IF u = u1 THEN "static" ELSE "dns"],
      resolved |-> (u1 :> r1 @@ u2 :> {a4}),
      ipv4_only |-> [u \in {u1, u2} |-> TRUE],
      error_template |-> x.tpl, bad_locations |-> x.bad] :
        order \in SetToSeqs(MCLocations),
        w \in [MCLocations -> {1, 2}], up \in [MCLocations -> {u1, u2}],
        named \in SUBSET (MCLocations \cup {lx}) \cup {None},
        r1 \in {Fail, {a4}, {a6}}, x \in MCExtras}

-----------------------------------------------------------------------------

\* The position of a location in the map order conf.locations iterates in.
Idx(l) == CHOOSE i \in 1..Len(conf.loc_order) : conf.loc_order[i] = l

\* The configured locations a server names.
Named(srv) ==
    LET n == conf.servers[srv].locations
    IN {l \in ToSet(conf.loc_order) : n # None /\ l \in n}

Rank(l, S) ==
    Cardinality({m \in S : \/ conf.weight[m] > conf.weight[l]
                           \/ conf.weight[m] = conf.weight[l] /\ Idx(m) < Idx(l)})

\* What the spec asks of the order (3, 4.D), with ties left to the map
\* order: each named location at the place its rank gives it, ranked by
\* descending weight and then by that order.
ExpectedOrder(srv) ==
    [i \in 1..Cardinality(Named(srv)) |->
        CHOOSE l \in Named(srv) : Rank(l, Named(srv)) = i - 1]

\* Every ServerConf From<PingapConf> built lists exactly the configured
\* locations its server names, descending in weight and keeping the map
\* order between equal weights: the stable sort_by_key followed by the
\* contains filter gives the order request_filter's first-match lookup
\* relies on.
LocationsInWeightOrder ==
    server_confs # None =>
        \A srv \in DOMAIN server_confs :
            server_confs[srv].locations = ExpectedOrder(srv)

\* Server::new, run on what From<PingapConf> built for a server, fails only
\* for a fault of that server's own locations: a configured static upstream
\* one of them names whose address does not resolve at startup, or one of
\* them whose Location::new fails; an upstream or location no location of
\* the server uses never stops it, and a DNS upstream never does.
ServerNewFailsOnlyOnOwn ==
    \A srv \in DOMAIN servers :
        servers[srv] # None =>
            LET own == Named(srv)
                ownFault ==
                    \/ \E l \in own : /\ conf.discovery[conf.upstream[l]] = "static"
                                     /\ conf.resolved[conf.upstream[l]] = Fail
                    \/ own \cap conf.bad_locations # {}
            IN servers[srv].error # "none" <=> ownFault
=============================================================================
