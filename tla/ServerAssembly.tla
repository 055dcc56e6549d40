---------------------------- MODULE ServerAssembly ----------------------------
(***************************************************************************)
(* How the proxy servers are assembled from the configuration             *)
(* (src/src/proxy/server.rs): From<PingapConf> for Vec<ServerConf> picks  *)
(* each server's locations and upstreams, Server::new instantiates them   *)
(* and Server::run adds the listener (its refresh services are in the    *)
(* Discovery module).  The conversions are operators of a configuration   *)
(* record; startup applies them in three steps: From<PingapConf>, then    *)
(* Server::new and Server::run for each ServerConf.                       *)
(* The configuration record has the fields:                              *)
(*   loc_order   the names of conf.locations in the map's iteration order *)
(*   weight      get_weight of each location                              *)
(*   upstream    the upstream each location names (possibly unconfigured) *)
(*   up_order    the names of conf.upstreams in the map's iteration order *)
(*   servers     per server: the set of names in item.locations, or None, *)
(*               and its tls_cert and tls_key blobs                       *)
(*   discovery   per upstream: "static" (a literal address list) or "dns" *)
(*   resolved    per upstream: what the system resolver answers for its   *)
(*               address at startup, an address set or Fail               *)
(*   ipv4_only   per upstream                                             *)
(*   error_template, bad_locations (Location::new fails on them).         *)
(* A TLS blob is None, a valid base64 text or an invalid one; what it     *)
(* decodes to is PemBytes or the empty vector.                           *)
(***************************************************************************)
EXTENDS Integers, Sequences, SequencesExt, FiniteSets

CONSTANTS
    None,                           \* Option::None
    ValidB64, InvalidB64,           \* a decodable and an undecodable blob
    PemBytes,                       \* what a valid blob decodes to
    DefaultTemplate,                \* ERROR_TEMPLATE
    Configurations,                 \* the configurations startup may load
    V4,                             \* the IPv4 addresses
    Fail                            \* a resolution that fails

\* The locations vector after `locations.sort_by_key(|b|
\* Reverse(b.1.get_weight()))`: a stable sort, descending in weight.
\* InsertByWeight puts x after every location of at least its weight,
\* which is what a stable sort does with the elements it has already
\* placed.
RECURSIVE InsertByWeightBeforeTies(_, _, _), InsertByWeight(_, _, _)

\* Fault variant for checking the properties: an unstable sort, which may
\* put a location before those of equal weight (sort_unstable_by_key).
InsertByWeightBeforeTies(w, x, s) ==
    IF s = <<>> \/ w[Head(s)] <= w[x]
    THEN <<x>> \o s
    ELSE <<Head(s)>> \o InsertByWeightBeforeTies(w, x, Tail(s))

InsertByWeight(w, x, s) ==
    IF s = <<>> \/ w[Head(s)] < w[x]
    THEN <<x>> \o s
    ELSE <<Head(s)>> \o InsertByWeight(w, x, Tail(s))

SortByWeight(conf) ==
    FoldLeft(LAMBDA acc, x : InsertByWeight(conf.weight, x, acc),
             <<>>, conf.loc_order)

\* The server's filter_locations: the sorted locations it names
\* (`item.locations.unwrap_or_default()`), in sorted order; a name with no
\* configured location is dropped.
FilterLocations(conf, srv) ==
    LET named == conf.servers[srv].locations
        valid_locations == IF named = None THEN {} ELSE named
    IN SelectSeq(SortByWeight(conf), LAMBDA l : l \in valid_locations)

\* valid_upstreams: the upstream every kept location names.
ValidUpstreams(conf, srv) ==
    {conf.upstream[l] : l \in ToSet(FilterLocations(conf, srv))}

\* filter_upstreams: the configured upstreams among them, in map order.
FilterUpstreams(conf, srv) ==
    SelectSeq(conf.up_order, LAMBDA u : u \in ValidUpstreams(conf, srv))

\* STANDARD.decode(value).unwrap_or_default(): an invalid blob becomes an
\* empty vector, and Some of it all the same.
DecodeBlob(b) ==
    CASE b = None       -> None
      [] b = ValidB64   -> PemBytes
      [] b = InvalidB64 -> <<>>

\* An empty conf.error_template falls back to ERROR_TEMPLATE.
ErrorTemplate(conf) ==
    IF conf.error_template = "" THEN DefaultTemplate ELSE conf.error_template

\* The ServerConf that From<PingapConf> builds for one server.
ToServerConf(conf, srv) ==
    [locations |-> FilterLocations(conf, srv),
     upstreams |-> FilterUpstreams(conf, srv),
     tls_cert  |-> DecodeBlob(conf.servers[srv].tls_cert),
     tls_key   |-> DecodeBlob(conf.servers[srv].tls_key),
     error_template |-> ErrorTemplate(conf)]

ServerConfs(conf) == [srv \in DOMAIN conf.servers |-> ToServerConf(conf, srv)]

\* The addresses a discovery keeps of an answer: with ipv4_only, the IPv4
\* ones.
Usable(a, ipv4_only) == {x \in a : ~ipv4_only \/ x \in V4}

\* Fault variant: an address that does not resolve skipped instead of
\* failing the discovery.
StaticDiscoverSkipsFailure(conf, u) ==
    IF conf.resolved[u] = Fail THEN {}
    ELSE Usable(conf.resolved[u], conf.ipv4_only[u])

\* new_common_discover_backends: to_socket_addrs resolves the address once,
\* `?` turns a failure into the error of the whole discovery, the
\* ipv4_only filter drops the other addresses, and the Static discovery
\* holds that set for good.
StaticDiscover(conf, u) ==
    IF conf.resolved[u] = Fail THEN Fail
    ELSE Usable(conf.resolved[u], conf.ipv4_only[u])

\* The backends an upstream's discovery starts with, or Fail when creating
\* it fails: new_dns_discover_backends (Dns::new) only formats the
\* addresses and resolves nothing, so a DNS upstream starts empty until
\* its first refresh (the Discovery module) and never fails here.
InitialBackends(conf, u) ==
    IF conf.discovery[u] = "static" THEN StaticDiscover(conf, u) ELSE {}

\* Server::new: the upstreams no location of the server uses are skipped,
\* the first used one whose Upstream::new fails (its discovery could not be
\* created) ends it with the "upstream" error, and then the first location
\* whose Location::new fails ends it with the "location" error.
ServerNew(conf, sc) ==
    LET in_used == {conf.upstream[l] : l \in ToSet(sc.locations)}
        ups     == SelectSeq(sc.upstreams, LAMBDA u : u \in in_used)
    IN CASE \E u \in ToSet(ups) : InitialBackends(conf, u) = Fail
              -> [error |-> "upstream"]
         [] \E l \in ToSet(sc.locations) : l \in conf.bad_locations
              -> [error |-> "location"]
         [] OTHER
              -> [error |-> "none", upstreams |-> ups,
                  backends |-> [u \in ToSet(ups) |-> InitialBackends(conf, u)],
                  locations |-> sc.locations, tls_cert |-> sc.tls_cert,
                  tls_key |-> sc.tls_key, error_template |-> sc.error_template]

\* Server::run's listener: TCP without a certificate; with one, the cert
\* and key (an absent key as the empty vector) are written to files and
\* TlsSettings::intermediate loads them, failing with the "tls" error
\* unless both hold PEM.
Listener(server) ==
    CASE server.tls_cert = None -> "tcp"
      [] server.tls_cert = PemBytes /\ server.tls_key = PemBytes -> "tls"
      [] OTHER -> "tls_error"

-----------------------------------------------------------------------------

VARIABLES
    conf,          \* the PingapConf loaded at startup
    server_confs,  \* the Vec<ServerConf> From<PingapConf> built, or None
    servers,       \* per server: what Server::new returned, or None
    listeners      \* per server: the listener Server::run added, or None

vars == <<conf, server_confs, servers, listeners>>

Init ==
    /\ conf \in Configurations
    /\ server_confs = None
    /\ servers = [srv \in DOMAIN conf.servers |-> None]
    /\ listeners = [srv \in DOMAIN conf.servers |-> None]

\* The configuration is converted into the servers' ServerConfs.
LoadServerConfs ==
    /\ server_confs = None
    /\ server_confs' = ServerConfs(conf)
    /\ UNCHANGED <<conf, servers, listeners>>

\* A server is instantiated from its ServerConf.
NewServer(srv) ==
    /\ server_confs # None
    /\ servers[srv] = None
    /\ servers' = [servers EXCEPT ![srv] = ServerNew(conf, server_confs[srv])]
    /\ UNCHANGED <<conf, server_confs, listeners>>

\* A server that Server::new built is run: its listener is added.
RunServer(srv) ==
    /\ servers[srv] # None
    /\ servers[srv].error = "none"
    /\ listeners[srv] = None
    /\ listeners' = [listeners EXCEPT ![srv] = Listener(servers[srv])]
    /\ UNCHANGED <<conf, server_confs, servers>>

Next ==
    \/ LoadServerConfs
    \/ \E srv \in DOMAIN conf.servers : NewServer(srv) \/ RunServer(srv)

Spec == Init /\ [][Next]_vars
=============================================================================
