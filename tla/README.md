# TLA+ models of pingap

This directory holds TLA+ models of the pingap reverse proxy sources under
`src/src/`. They are checked with TLC. Each module says which functions it
translates, and `PROJECT.json` maps every definition to its source lines.
It also lists the runs, the fault variants (mutants) that each property must
detect, the findings and the hazards.

## 1. Inventory

### Components, their state and operations

| Component | Source | State | Operations |
|---|---|---|---|
| Proxy state machine (F) | `proxy/server.rs` | per server: atomics `accepted` (u64) and `processing` (i32); per request: `State` (ctx): `location_index`, `guard`, `status`, `response_body_size`, `reused`, `upstream_address`, `client_ip` | `request_filter` (stats path, admin server / admin path with Basic auth, location lookup, rewrite, compression, plugin chain), `proxy_upstream_filter`, `upstream_peer`, `connected_to_upstream`, `upstream_request_filter`, `upstream_response_filter`, `upstream_response_body_filter`, `fail_to_proxy`, `logging` |
| Server assembly (H) | `proxy/server.rs` | `ServerConf` list; `Server` | `From<PingapConf>` (sort locations by weight, filter per server), `Server::new`, `Server::run` (background services, TCP/TLS listener) |
| Inflight limit plugin (E) | `plugin/limit.rs` | `Inflight` estimator per limiter (counters keyed by a hash of the dimension value); the guard in ctx | `Limiter::new` (parse `"<prefix><key> <max>"`), `incr`, `handle` |
| Expression filter and WAF plugins (E) | `plugin/wirefilter_plugin.rs`, `plugin/owasp_crs_plugin.rs` | configuration only | `try_from` (compile check, step check), `handle_request` (bind fields, evaluate, render headers, answer 403) |
| Cache storage (A) | `cache/http_cache.rs`, `cache/file.rs` | memory tier (TinyUfo); one file per key; per hit: `CompleteHit{done, range_start, range_end}`; per miss: buffered body | codec `From<Vec<u8>>` / `From<CacheObject>`; `FileCache::get/put/remove`; `lookup`, `get_miss_handler`, `write_body`, `finish`, `purge`, `update_meta`; `CompleteHit::get/seek` |
| Discovery (B) | `discovery/dns.rs`, `discovery/common.rs` | host list, ipv4_only; the backend set in pingora's `Backends` | static resolution once; `Dns::discover` per refresh (async or blocking resolver), ServiceDiscoverFail webhook on failure |
| Validity monitor (G) | `acme/validity_checker.rs` | certificate list, offset (7 days) | daily `run`: `validity_check`, webhook on the first problem |
| Config file storage | `config/file.rs` | path | `load_config`, `save_config` |
| Upstream pool (C), location matcher (D), admin console, webhook transport | not under `src/` | | used through their results only |

### How they interact

The pingora runtime drives one task per request through the `ProxyHttp`
callbacks of `Server`, in phase order. Tasks run in parallel on worker
threads. They share the `processing` counter of the server and the
`Inflight` table of each limiter. A limiter's guard lives in the request's
`State` and decrements the counter when that state is dropped, after
`logging`. An error from any hook goes to `fail_to_proxy` and then to
`logging`. A panic unwinds the task and skips both.

`upstream_peer` asks the upstream for a peer. The upstream's backend set is
replaced by the discovery background service. The cache storage is reached
through pingora's `Storage` trait. It has a memory tier and a disk tier, and
the disk tier survives restarts. The validity monitor runs on its own timer
and sends webhooks.

### What is hard

- Parallel request tasks on shared atomics. An increment above the limit is
  visible to other threads until it is undone.
- A single `ctx.guard` slot, shared by every limiter in a chain.
- Panics in plugins, which skip `logging`.
- An upstream or client failure after the response header was sent.
- Client disconnects and upstream timeouts. Every request must still reach
  `logging`.
- Non-atomic file writes in the cache, racing readers or crashes.
- The memory tier and the disk tier of the cache disagreeing.
- Discovery failing for one host out of several.
- Several refresh services storing into one backend set, one per location
  of a shared upstream, each awaiting its lookups one host at a time.
- Range seeks that reuse the end of an earlier seek.
- The validity monitor stopping at the first problem it finds.

### Properties that make each component correct

- Proxy: `processing` equals the number of requests between `request_filter`
  and `logging`, and every request is logged exactly once (a panic breaks
  this, filter_panic). The logged status is the status the client received
  (`fail_to_proxy` breaks this, see the observations; no run states it).
- Limiter: every increment is undone exactly once. At most `max` admitted
  requests per key are in flight. A request is rejected only when `max`
  requests hold the key.
- Cache: `decode(encode(x)) = x`. A get returns the last object put, and
  nothing after a remove. A read or crash during a put never yields a
  corrupt object or a panic. A seek and read returns
  `body[start, min(len, end))`.
- Discovery: a failure keeps the previous set and sends a webhook. A success
  replaces the set with exactly the resolved addresses.
- Validity: every certificate within the offset of expiry, or not yet
  valid, is eventually reported.

## 2. Plan

In order of importance (status in brackets):

1. **ProxyServer** [done]: the request lifecycle of `server.rs` composed
   with `Limiter` and the filter plugins. This is where the concurrency is.
2. **CacheCodec** [done]: the binary layout as operators, with decode of
   encode checked against the identity, and decoding of arbitrary buffers.
3. **FileCache** and **CacheStore** [done]: the two tiers with concurrent
   get, put, update_meta and purge, non-atomic writes, eviction, write
   errors and crash/restart. CacheStore is the abstract store that
   FileCache refines (INSTANCE ... WITH).
4. **CacheHit** [done]: `CompleteHit` seek and read, checked against the
   range the spec gives.
5. **ValidityChecker** [done]: the periodic task over a certificate list
   and a clock.
6. **Discovery** [done]: DNS refresh with per-host failures and
   ipv4_only, the refresh services `Server::run` spawns, and the
   `upstream_peer` that reads the set. The swap itself (`Backends::update`)
   is pingora code and is modelled from the spec.
7. **ServerAssembly** [done]: `From<PingapConf>`, `Server::new` and the
   listener of `Server::run`, as operators applied by three startup steps
   over every small configuration. It includes the creation of each
   upstream's discovery: static resolution once, which can fail startup,
   and DNS discovery, which starts empty.
8. **LocationMatch** [open] (modelled from the spec): host and path
   matching, first match in weight order.

## 3. Modules and runs

### ProxyServer (`ProxyServer.tla`, `MCProxyServer.tla`)

Each element of `Requests` is a request task slot. When its request is done,
the slot may carry the next one, so the state space is finite but unbounded
in time. The variables are:

- `pc`: the phase. `idle`, `plugins`, `limit_exceeded`, `upstream_filter`,
  `peer`, `connect`, `response`, `body`, `fail`, `logging` and `done`
  follow the callback order of `ProxyHttp`.
- `lo`, `pi`: `ctx.location_index` and the position in the plugin chain.
- `guard`: `ctx.guard`.
- `pending`: the guard `Inflight::incr` returned above the limit, which is
  dropped on return.
- `status`: `ctx.status`.
- `sent`: the header the client received.
- `open`: whether the downstream connection is still open.
- `processing`: the server counter.
- `inflight[l][slot]`: the estimator counters of each limiter.
- `admitted`: a history variable, the keys that admitted the request.

The actions, and the code each one models:

- `RequestFilter`: `request_filter` up to the chain, on a new session
  (its `sent` starts at 0 unless a branch writes a header), with
  `serve_stats_admin` and `send_stats_response`. `ServeAdmin` is
  `serve_admin` with `auth_validate`: a 401, whose failed send `?`
  returns as the error, or the admin routes. `AdminServe` is the outcome
  of `ADMIN_SERVE.handle`, which is not under `src/`: it answers, returns
  `Ok(false)` and the request is located like any other, or fails into
  `fail_to_proxy`. `Locate` is the location lookup, with its 500.
- `LimitIncr` and `LimitReject`: `Limiter::incr` and `Limiter::handle`.
- `FilterPlugin`: `handle_request` of the filter plugins. `Verdicts`
  gives a WAF (`OwaspCrsPlugin`) its constant answer: it forbids every
  request (`allow = false`).
- `PluginsDone`: the end of `request_filter`.
- `ProxyUpstreamFilter`, `UpstreamPeer`, `Connect`, `UpstreamResponse` and
  `Body`: the upstream callbacks.
- `FailToProxy` and `Logging`.
- `ClientClose`: the environment closing the connection.

Data is abstracted. Paths, headers and keys are model values or small sets.
The stats JSON, the error page, rewrite and header injection are not
modelled because no decision reads them.

**Fairness.** None. The properties are safety properties. That every
request is logged would hold by the shape of the model (the phases are
acyclic), and a panicking task skips `logging` in the code anyway, which
filter_panic shows with `ProcessingBalance`.

### CacheCodec and CacheHit (`CacheCodec.tla`, `CacheHit.tla`, `MCCacheCodec.tla`)

`CacheCodec` holds operators only: `Encode` is `From<CacheObject> for
Vec<u8>` and `Decode` is `From<Vec<u8>> for CacheObject`. They work on byte
sequences, with the big-endian u32 header (`PutU32`, `U32At`). A header
that asks for more bytes than the buffer has gives `SlicePanic`, the panic
of the slice in the code. The `as u32` cast of lengths is left out: TLC's
integers stop at 2^31 and the lengths here are a few bytes.

`CacheHit` is the `CompleteHit` that `lookup` builds. Its variables are
the struct's fields `body`, `done`, `range_start` and `range_end`, plus
`served`, the result of the last read. `Seek` is `CompleteHit::seek`, error path included. `Read` is
`get`, with a slice that panics like Rust's.

`MCCacheCodec` enumerates the inputs in `Init`. Each input is an object
with fields of up to two bytes over {0, 255}, or a buffer of up to 10
bytes over {0, 1, 2}. Buffers over {0, 1, 2} give header lengths of 0..2,
of 65536 and more. A `CompleteHit` over the object's body then seeks, with
every start and end up to one past the body and without an end, and
reads. No property is stated about the hit handler (see the
observations): its run makes sure its steps are reachable and never
break the codec properties.

### FileCache and CacheStore (`FileCache.tla`, `CacheStore.tla`, `MCFileCache.tla`)

Tasks (`Clients`) call the storage concurrently. Each `.await` of the code
is a step boundary. The variables are:

- `mem`: TinyUfo.
- `disk`: the file of each key, as bytes or `NoFile`.
- per task: `pc`, `op`, `key`, `meta`, and the buffer and offset of its
  write (`buf`, `wrote`).
- `linked`: whether the task's descriptor still names the file at the path.
- results: `got` (of a get) and `purged` (of a purge).
- `puts`: a history of the objects put under each key.

The actions:

- `Get` and `ReadFile`: `FileCache::get`. A memory hit is answered at
  once. On a miss, `fs::read` is an atomic snapshot of the file, then the
  length check and `CacheObject::from`.
- `Put`: `ObjectMissHandler::finish`.
- `UpdateMeta`: `HttpCache::update_meta`, with its get, then a put that
  keeps the old body.
- `StartWrite`: `FileCache::put` up to its await. It puts into TinyUfo and
  encodes.
- `OpenFile` and `WriteChunk`: `fs::write`. The open truncates. Each
  chunk is a write(2) at the task's own offset, and a file that another
  writer truncated gets a hole of zeros.
- `WriteError`: a failed write.
- `Purge`: `HttpCache::purge` with `FileCache::remove`. It unlinks the
  file and answers `is_some()` of `Ok(None)`.
- `Evict`: TinyUfo eviction.
- `Crash`: a restart. `new_file_cache` builds an empty TinyUfo over the
  same files.

`CacheStore` is what the storage promises: an atomic map with put,
update_meta and purge. The only freedom is the documented one: a purged
object may stay visible from memory until it is forgotten. The mapping
`AbsStore` is what a get would return, counting the object of a put in
flight as stored. `AbsRemoved` is whether the key was purged since its last
put. The mapping names the one writer in flight, so the refinement is
checked for a single task.

### ValidityChecker (`ValidityChecker.tla`, `MCValidityChecker.tla`)

`cert` maps each name to its `<<not_before, not_after>>`. `Init` takes every
window over `0..MaxTime` and every start time. The actions:

- `Run`: `ValidityChecker::run`, with `validity_check` as the recursive
  `FirstProblemFrom`. The checks are `WillExpire` and `NotYetValid`, in
  the code's order.
- `Tick`: the service interval. The interval loop is not under `src/`,
  so it is modelled from the spec (every 24 h).

`warned` is a history of the certificates named in webhooks. The runs use
`Offset = 2` and `Interval = 1`, the ratio of 7 days to 1 day reduced.
Past `MaxTime` the clock stops and `Tick` stutters. The service itself
never stops.

### Discovery (`Discovery.tla`, `MCDiscovery.tla`)

The DNS is an environment: `dns[h]` is what `lookup_ip` answers for host
`h` now, a non-empty address set or `Fail` (`Error::Resolve`). It changes
at most `MaxChanges` times (`ChangeDns`); `hver[h]` counts the changes of a
host. `backends` is the set installed in the upstream's `Backends`, and
`installed[h]` is a history: the `hver` of the answer of `h` that set came
from. `svc[l]` is the refresh service of location `l`: its phase, the next
host to look up, the usable addresses kept so far and the answer versions
seen. `Init` is `Server::run`: one service per location whose upstream is
round robin or consistent, and nothing installed yet. The actions:

- `StartDiscover`: the service is due and `run_discover` starts.
- `LookupHost`: one `lookup_ip` await of `tokio_lookup_ip` that answers,
  for a host that is not the last; `Usable` is the ipv4_only filter.
- `LookupFails`: a lookup answers `Error::Resolve`. `discover` sends the
  ServiceDiscoverFail webhook and returns Err, and the set is kept.
- `FinishDiscover`: the last host answers, `run_discover` builds the
  `BTreeSet` and the store replaces the installed set.
- `UpstreamPeer`: `Server::upstream_peer`, a member of the set or 503.

Addresses stand for `Backend`s. Ports and weights are left out because no
decision reads them.

**Fairness.** Every step of every refresh service is weakly fair. The
service runs `discover` every update frequency for as long as the server
runs, and a lookup always ends, with an answer or with the resolver's
timeout error. The DNS and the requests get no fairness.

### ServerAssembly (`ServerAssembly.tla`, `MCServerAssembly.tla`)

The conversions are operators of a configuration record whose fields are
what `From<PingapConf>` reads: the names of `conf.locations` in the order
the map iterates them (`loc_order`), each location's weight and upstream,
the names of `conf.upstreams` in map order, per server the set of names
in `item.locations` (or `None`) and its TLS blobs, the error template,
per upstream its discovery (static or DNS), what the system resolver
answers for its address at startup and its ipv4_only flag, and which
locations `Location::new` rejects (that code is not under `src/`, so only
its outcome is modelled).

- `SortByWeight` is `sort_by_key(|b| Reverse(b.1.get_weight()))`: a fold
  of `InsertByWeight`, which places a location after every location of at
  least its weight, as a stable sort does.
- `FilterLocations`, `ValidUpstreams` and `FilterUpstreams` are the two
  filter loops; `None` for a server's list is the empty list.
- `DecodeBlob` is `STANDARD.decode(..).unwrap_or_default()`: an invalid
  blob becomes `Some` of the empty vector. `ErrorTemplate` is the
  fallback to `ERROR_TEMPLATE`.
- `StaticDiscover` is `new_common_discover_backends`: `to_socket_addrs`
  once, `?` turning a resolution failure into `Fail`, and `Usable`, the
  ipv4_only filter; the `Static` discovery keeps that set for good.
  `InitialBackends` is what an upstream's discovery starts with: the
  static set, or the empty set for DNS, because `new_dns_discover_backends`
  (`Dns::new`) only formats the addresses and never fails.
- `ServerNew` is `Server::new`: unused upstreams skipped, the "upstream"
  error when a used upstream's discovery cannot be created, then the
  "location" error; a built server records each upstream's initial
  backends.
- `Listener` is the listener `Server::run` adds: TCP without a
  certificate, TLS when cert and key hold PEM, the "tls" error otherwise.

The variables are the startup state: `conf`, `server_confs` (what `From`
built), `servers` (what `Server::new` returned) and `listeners`. The
actions are the three steps: `LoadServerConfs`, `NewServer(srv)` and
`RunServer(srv)`. Where `From` is called is not under `src/`; the order of
the steps is the only order their data allows.

`MCServerAssembly` enumerates the configurations in `Init`.
`LocationsInWeightOrder` compares the result of the sort and filter with a
reference definition: each named location at the position its rank gives
it, by descending weight and then map order. `ServerNewFailsOnlyOnOwn`
relates the two steps: `Server::new` on what `From` built fails exactly
when one of the server's own locations is at fault, by using a static
upstream whose address does not resolve or by failing `Location::new`;
an unused static upstream and a DNS upstream never stop it.

### Runs

| Run | cfg | expect | what it shows |
|---|---|---|---|
| proxy_lifecycle | `MCProxyServer.cfg` | pass | Two request slots; stats, admin and proxy requests; chain `<<cookie limiter max 1, filter>>`; a proxied and a mock location; client closes. The admin path answers 401, fails to send it, or is served, declined or failed by `ADMIN_SERVE`. `TypeOK`, `ProcessingBalance`, `InflightAccounting` and `LimitRespected` hold (19k states, a few seconds). |
| two_limiters | `MCProxyServerTwoLimiters.cfg` | violation | Chain `<<cookie limiter, ip limiter>>`, both max 1. The ip guard replaces the cookie guard in `ctx.guard`, so two requests with the same cookie are admitted together. |
| filter_panic | `MCProxyServerPanic.cfg` | violation | A non-ASCII header value panics the filter, here an `OwaspCrsPlugin`. `logging` never runs and `processing` stays incremented for good. |
| codec_layout | `MCCacheCodec.cfg` | pass | `RoundTrip` (decode of encode is the identity); `CanonicalLayout` (a buffer that decodes without panic is the encoding of its result); the hit handler seeks and reads alongside (180k states). |
| cache_sequential | `MCFileCache.cfg` | pass | One task, every operation, evictions. `TypeOK`, `GetReturnsPutObject`, `TiersAgree`, and `ImplementsCacheStore` (the refinement). |
| cache_faults | `MCFileCacheFaults.cfg` | pass | One task with crashes and failed writes. `DiskHoldsPrefix`: a file is always a prefix of one encoding. |
| cache_torn_file | `MCFileCacheTornFile.cfg` | violation | A get reads a file that a put has truncated and only partly rewritten, and `CacheObject::from` panics. The same happens after a crash or a failed write. |
| validity_warns | `MCValidityChecker.cfg` | pass | One certificate, every window and start: it is warned about before expiry. |
| validity_first_problem | `MCValidityTwoCerts.cfg` | violation | An expired first certificate hides the second, which expires unwarned. |
| discovery_refresh | `MCDiscovery.cfg` | pass | One refresh service; two hosts whose answers change 3 times, fail or mix IPv4 and IPv6; ipv4_only. `NoPeerOnlyBeforeFirstDiscovery`: a failed discovery, on one host or all of them, never leaves `upstream_peer` without a peer once a discovery succeeded. `BackendsFollowDns`: once the DNS settles with every host resolving, the set becomes and stays its usable addresses (14k states). |
| server_assembly | `MCServerAssembly.cfg` | pass | One server over every configuration: three locations in every map order, weights 1 and 2, a static upstream resolving to nothing (failure), IPv4 only or IPv6 only, and a DNS upstream, a locations list that is `None` or any subset of the configured names plus a missing one, a failing `Location::new`, and the three kinds of TLS blob. `LocationsInWeightOrder` and `ServerNewFailsOnlyOnOwn` hold (285k states, 30 s). |
| discovery_shared_upstream | `MCDiscovery.cfg` with two locations | violation | Two refresh services on one upstream. A discovery that looked `h1` up before a change finishes after one that looked it up after, and the set goes back from `{a1, a6}` to `{a1}` while the DNS says `{a1, a6}` (`NoRollback`). |

Each property of a passing run has a fault variant (mutant) in
`PROJECT.json`. This is a copy of the action with one plausible slip, and
the property must catch it.

Examples of slips:

- a guard kept after a 429;
- `>` replaced by `>= max + 1`;
- no truncation on open;
- a single write(2) taken for `write_all`;
- little-endian header reads;
- seek ends not clamped;
- an Error::Resolve skipped like an empty answer;
- the previous discovery's addresses not cleared;
- the warning offset left out;
- an unstable sort of the locations;
- a server without a locations list taking every location.

### Observations not given a run

These disagreements with the spec get no run. Some are plain from the
code. Others were shown by a run in an earlier version of the project,
whose slot went to a new module when the run budget was full:

- `CompleteHit::seek` changes `range_end` only when an end is given
  (`http_cache.rs:129`). `seek(0, Some(1))` then `seek(0, None)` reads one
  byte instead of the whole body, and a later start past the old end
  panics the slice. The code comment says one handler serves several
  ranges. codec_layout reaches it, but the spec does not say what such a
  pair of seeks should return, so no property states it.
- Locations of equal weight keep the order the `conf.locations` map
  iterates in (`server.rs:95`, a stable sort). The spec (3) says ties are
  broken by insertion order. The map type is not under `src/`; a hash map
  iterates in an order unrelated to the file, so which of two equal-weight
  locations matches first is then not the one written first.
  `LocationsInWeightOrder` states the order the code gives.
- An invalid base64 certificate or key (`server.rs:120`) becomes an empty
  vector instead of a configuration error; `Server::run` then fails with
  the tls error (`Listener`). The comment at line 117 says the
  configuration was validated before, in code outside `src/`.

- `fail_to_proxy` overwrites `ctx.status` with the error code after the
  upstream's header was sent (`server.rs:598`). The log then records a
  502 that the client never saw. A property that the logged status is
  the one sent fails in proxy_lifecycle for this reason, so it is not
  stated there.
- `purge` always answers false, because `FileCache::remove` returns
  `Ok(None)` (`file.rs:84`, `http_cache.rs:282`).
- A request over the limit holds its increment until the guard is
  dropped on return (`limit.rs:95`). A request on the same key in that
  window gets a 429 while fewer than max requests hold the limit.
- Two concurrent puts of one key (`file.rs:69`) update TinyUfo in one
  order and write the file in another, with interleaved chunks.
  `TiersAgree` then fails; it holds for one task (cache_sequential).
- With ipv4_only, a host whose answer is IPv6 only (`dns.rs:87`) makes a
  successful discovery that installs the empty set. Every request then
  gets 503, and `NoPeerOnlyBeforeFirstDiscovery` fails. The spec says
  only that ipv4-only pools reject non-IPv4 entries, so this is a gap in
  the spec, and discovery_refresh gives every answer an IPv4 address.
- The same holds for a static upstream at startup (`common.rs:39`): with
  ipv4_only and an IPv6-only answer, `Server::new` succeeds with an empty
  `Static` set that is never refreshed. server_assembly reaches it (u1
  answering {a6}). Spec 4.B says static discovery resolves once, so every
  request then gets 503 until a restart, with no error at startup.
- `get_miss_handler` allows several writers for one key (the TODO at
  `http_cache.rs:247`); their finishes are the concurrent puts that
  cache_torn_file races. It also preallocates the upstream's declared
  Content-Length (`http_cache.rs:266`), which a model of control cannot
  observe.

### Bounds, and why they are enough

- **ProxyServer.** Two slots are enough for every property here. With max
  1, two requests on one key exercise the limit: admission, rejection,
  the overwritten guard and the transient increment. A finished slot
  carries the next request, which supplies the "later request" of the
  spurious rejection (see the observations). A third slot adds no
  interaction the properties can tell apart: every property is about
  one key and one limit of 1.
- **FileCache.** One key and two objects of different encoded lengths
  (11 and 10 bytes). Rewriting the longer with the shorter is what an
  open without truncation gets wrong. Two tasks are the smallest number
  that can race. `WriteChunk` picks any chunk boundary, so every
  truncation point of an encoding is reached.
- **Codec.** Fields of 0..2 bytes cover empty and non-empty meta and
  body. Buffers of up to 10 bytes cover every header split and short
  tails.
- **ValidityChecker.** Windows over 0..5 with offset 2 cover expiry
  before, during and after the warning window, and "not yet valid". Two
  certificates are the smallest list where one can hide another.

- **Discovery.** Two hosts are the smallest list where one fails while
  another answers, and where a change lands between the lookups of one
  discovery. Three answers, {a1}, {a1, a6} and {a2, a6}, give a change
  that ipv4_only hides and one it does not. Three changes allow a change,
  a failure and a recovery in one behaviour. Two locations are the
  smallest number that can race.
- **ServerAssembly.** Three locations with two weights give every tie
  pattern (none, a pair, all three) in every map order, which is where a
  sort that is not stable, or a reversed key, differs. A locations list
  of any subset, `None` and a missing name covers the filter's cases.
  One static upstream whose resolution fails, answers IPv4 or answers
  IPv6 only, a DNS upstream, and one failing location are enough to put a
  fault on the server's own locations or only on others. The failing
  location travels with the TLS and template choices, which no decision
  relates to it, to keep the run short. The upstream map order
  is fixed: only the order of the kept upstreams depends on it, and no
  decision reads that order.

Discovery has liveness properties. ProxyServer, the cache, the validity
monitor and the server assembly are checked for safety only, so they
assume no fairness.

## 4. Not modelled, and why

- Configuration loading and saving (`config/file.rs`): TOML file I/O,
  with parsing, `get_toml` and every caller outside `src/`. Without the
  callers the only state is the files. The one question a model could ask
  is a load reading a file that `save_config`'s `fs::write` has
  truncated. That is the non-atomic write FileCache models and
  cache_torn_file shows violated, so a module of its own would repeat
  that run under other names. It is listed as a hazard.
- Static discovery after startup (`discovery/common.rs`): its creation
  is modelled in ServerAssembly. After that, its discover returns the
  same set every time, so no later step of it interleaves with anything.
- The blocking resolver of `Dns::lookup_ip`: it is used only outside a
  tokio runtime, which the refresh service never is.
- Load-balancing policy: it is pingora code, and `upstream_peer` is
  modelled by its result.
- Server assembly: `ServerConf::validate` is an empty TODO; the threads,
  paths and access-log fields are copied through unchanged and no
  decision reads them. `TlsSettings::intermediate` is reduced to whether
  both files hold PEM.
- The admin console, webhook delivery and the
  access-log format: external collaborators, or formatting.
- Pingora internals:
  - the count-min estimator is reduced to a hash from keys to slots (an
    injective hash in the runs);
  - connection pooling is not modelled;
  - `CacheMeta` (de)serialization is pingora code;
  - `ObjectMissHandler::write_body` only appends to a buffer.
- The `u32` truncation of meta lengths of 4 GiB or more: beyond TLC's
  integers.
- `update_meta` racing a put (a lost update) needs a two-task
  linearizability check. The refinement mapping covers one task only.
