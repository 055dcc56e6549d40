---------------------------- MODULE ProxyServer ----------------------------
(***************************************************************************)
(* The per-request lifecycle of a pingap server (src/src/proxy/server.rs,  *)
(* the ProxyHttp callbacks of Server) composed with the inflight limit     *)
(* plugin (src/src/plugin/limit.rs).  Every element of Requests is one     *)
(* concurrently running request task; when a task is done its slot may     *)
(* carry the next request.  Shared between the tasks are the atomic        *)
(* counter `processing` of the Server and the inflight tables of the       *)
(* Limiters.  Per task we keep the fields of State (ctx) that a decision   *)
(* reads: the located location, the inflight guard, the status, plus the   *)
(* phase the framework is in and the response header already written.     *)
(***************************************************************************)
EXTENDS Integers, FiniteSets, Sequences

CONSTANTS
    Requests,       \* request task slots (model values)
    Locations,      \* configured locations of the server
    NoLocation,     \* result of a lookup that matches no location
    Chain,          \* Chain[loc]: the location's request plugin chain
    Limiters,       \* plugin ids that are Limiter instances
    Filters,        \* plugin ids that are expression filter / WAF plugins
    Wafs,           \* the filters that are OwaspCrsPlugin instances
    LimitTag,       \* LimitTag[l] \in {"ip", "header", "cookie", "query"}
    LimitMax,       \* LimitMax[l]: the `max` of "<prefix><key> <max>"
    Keys,           \* dimension values a limiter can extract
    NoKey,          \* the empty dimension value
    Slots,          \* counters of the inflight estimator
    Hash,           \* Hash[k] \in Slots: the estimator slot of key k
    UpstreamKind,   \* UpstreamKind[loc] \in {"proxy", "mock"}
    IsAdmin,        \* Server.admin
    Kinds,          \* request paths the server sees: "stats", "admin", "proxy"
    HeaderValues,   \* header encodings a client sends: "ascii", "non_ascii"
    UpstreamStatus, \* statuses upstream responses carry
    None            \* an empty Option (model value)

Plugins == Limiters \cup Filters

ASSUME /\ Limiters \cap Filters = {}
       /\ Wafs \subseteq Filters
       /\ \A loc \in Locations : Chain[loc] \in Seq(Plugins)
       /\ \A l \in Limiters : LimitMax[l] \in Nat /\ LimitTag[l] \in {"ip", "header", "cookie", "query"}
       /\ Hash \in [Keys -> Slots]
       /\ IsAdmin \in BOOLEAN

VARIABLES
    pc,          \* phase of the request task
    lo,          \* location found by request_filter (ctx.location_index)
    pi,          \* index of the next plugin of the chain to run
    guard,       \* ctx.guard: the inflight guard the request owns, or None
    pending,     \* guard returned by Inflight::incr that is over the limit
    admitted,    \* (history) limiter dimensions that admitted this request
    err,         \* error handed to fail_to_proxy
    status,      \* ctx.status (0 is None)
    sent,        \* status of the response header written downstream (0: none)
    open,        \* the downstream connection is still open
    processing,  \* Server.processing
    inflight     \* inflight[l][s]: estimator counter of limiter l

vars == <<pc, lo, pi, guard, pending, admitted, err, status, sent, open,
          processing, inflight>>

Phases == {"idle", "plugins", "limit_exceeded", "upstream_filter", "peer",
           "connect", "response", "body", "fail", "logging", "done"}

ErrorKinds == {"status", "upstream", "down_write", "down_read", "down_closed",
               "down_other", "internal"}

StatusErr(code) == [kind |-> "status", code |-> code]
KindErr(kind) == [kind |-> kind, code |-> 0]

\* A request is between request_filter and the end of logging.
Live(r) == pc[r] \notin {"idle", "done"}

\* Key values Limiter::incr can extract: a client ip is never empty.
KeyValues(l) == IF LimitTag[l] = "ip" THEN Keys ELSE Keys \cup {NoKey}

\* Counter delta of dropping guard g (None drops nothing).
Drop(cnt, g) ==
    IF g = None THEN cnt
    ELSE [cnt EXCEPT ![g[1]][Hash[g[2]]] = @ - 1]

\* HttpResponse::send / write_response_header: the header is written when
\* the connection is open; a second header is ignored by the session.
Respond(r, code) ==
    sent' = [sent EXCEPT ![r] = IF open[r] /\ @ = 0 THEN code ELSE @]

\* The error of a write to a closed downstream connection.
DownstreamErr == {KindErr("down_write"), KindErr("down_closed")}

Fail(r, e) ==
    /\ err' = [err EXCEPT ![r] = e]
    /\ pc' = [pc EXCEPT ![r] = "fail"]

\* fail_to_proxy: map the error to the response code.
ErrorCode(e) ==
    CASE e.kind = "status"                       -> e.code
      [] e.kind = "upstream"                     -> 502
      [] e.kind \in {"down_write", "down_read"}  -> 500
      [] e.kind = "down_closed"                  -> 499
      [] e.kind = "down_other"                   -> 400
      [] OTHER                                   -> 500

-----------------------------------------------------------------------------

Init ==
    /\ pc = [r \in Requests |-> "idle"]
    /\ lo = [r \in Requests |-> NoLocation]
    /\ pi = [r \in Requests |-> 1]
    /\ guard = [r \in Requests |-> None]
    /\ pending = [r \in Requests |-> None]
    /\ admitted = [r \in Requests |-> {}]
    /\ err = [r \in Requests |-> KindErr("internal")]
    /\ status = [r \in Requests |-> 0]
    /\ sent = [r \in Requests |-> 0]
    /\ open = [r \in Requests |-> TRUE]
    /\ processing = 0
    /\ inflight = [l \in Limiters |-> [s \in Slots |-> 0]]

\* The fresh State of a new request on slot r (new_ctx).
NewCtx(r) ==
    /\ guard' = [guard EXCEPT ![r] = None]
    /\ pending' = [pending EXCEPT ![r] = None]
    /\ admitted' = [admitted EXCEPT ![r] = {}]
    /\ pi' = [pi EXCEPT ![r] = 1]

\* ctx is dropped when the task ends: the per-request fields are cleared
\* (the logged status and the written header stay until the slot's next
\* request sets them).
DropCtx(r) ==
    /\ guard' = [guard EXCEPT ![r] = None]
    /\ lo' = [lo EXCEPT ![r] = NoLocation]
    /\ pi' = [pi EXCEPT ![r] = 1]
    /\ admitted' = [admitted EXCEPT ![r] = {}]
    /\ open' = [open EXCEPT ![r] = TRUE]
    /\ pc' = [pc EXCEPT ![r] = "done"]

-----------------------------------------------------------------------------
(* Fault variants of the definitions below, each a plausible slip in the   *)
(* code they model.  They are not part of Spec; substituted for the        *)
(* definition they vary, each must make a checked property fail.           *)

\* `value >= max` written as `value > max + 1`.
ExceedsOffByOne(l, value) == value > LimitMax[l] + 1

\* The over-limit guard is leaked instead of dropped.
LimitRejectKeepsGuard(r) ==
    /\ pc[r] = "limit_exceeded"
    /\ pending' = [pending EXCEPT ![r] = None]
    /\ Fail(r, StatusErr(429))
    /\ UNCHANGED <<lo, pi, guard, admitted, status, sent, open, processing,
                   inflight>>

\* fail_to_proxy decrements processing as well as logging.
FailToProxyCounts(r) ==
    /\ pc[r] = "fail"
    /\ status' = [status EXCEPT ![r] = ErrorCode(err[r])]
    /\ Respond(r, ErrorCode(err[r]))
    /\ pc' = [pc EXCEPT ![r] = "logging"]
    /\ err' = [err EXCEPT ![r] = KindErr("internal")]
    /\ processing' = processing - 1
    /\ UNCHANGED <<lo, pi, guard, pending, admitted, open, inflight>>

\* The decrement of logging placed inside `if ctx.status.is_none()`.
LoggingCountsUnset(r) ==
    /\ pc[r] = "logging"
    /\ processing' = IF status[r] = 0 THEN processing - 1 ELSE processing
    /\ status' = [status EXCEPT ![r] = IF @ = 0 THEN sent[r] ELSE @]
    /\ inflight' = Drop(inflight, guard[r])
    /\ DropCtx(r)
    /\ UNCHANGED <<pending, err, sent>>

-----------------------------------------------------------------------------

\* Limiter::incr: the incremented value is over the limit.
Exceeds(l, value) == value > LimitMax[l]

\* The location lookup of request_filter: "Location not found" (500) when
\* no location matches, otherwise the location's plugin chain runs next.
Locate(r) ==
    \E loc \in Locations \cup {NoLocation} :
       IF loc = NoLocation
       THEN /\ Fail(r, StatusErr(500))
            /\ UNCHANGED lo
       ELSE /\ lo' = [lo EXCEPT ![r] = loc]
            /\ pc' = [pc EXCEPT ![r] = "plugins"]
            /\ UNCHANGED err

\* ADMIN_SERVE.handle (the admin routes are not under src/): it answers the
\* request, or returns Ok(false) and request_filter goes on to the
\* locations, or fails and `?` hands the error to fail_to_proxy.
AdminServe(r) ==
    \/ /\ sent' = [sent EXCEPT ![r] = 200]
       /\ pc' = [pc EXCEPT ![r] = "logging"]
       /\ UNCHANGED <<lo, err>>
    \/ /\ sent' = [sent EXCEPT ![r] = 0]
       /\ Locate(r)
    \/ /\ sent' = [sent EXCEPT ![r] = 0]
       /\ Fail(r, KindErr("internal"))
       /\ UNCHANGED lo

\* serve_admin: a failed auth_validate sends 401, and `?` returns a failed
\* send as the error; otherwise ADMIN_SERVE handles the request.
ServeAdmin(r) ==
    \/ /\ sent' = [sent EXCEPT ![r] = 401]
       /\ pc' = [pc EXCEPT ![r] = "logging"]
       /\ UNCHANGED <<lo, err>>
    \/ /\ sent' = [sent EXCEPT ![r] = 0]
       /\ \E e \in DownstreamErr : Fail(r, e)
       /\ UNCHANGED lo
    \/ AdminServe(r)

\* request_filter up to the plugin chain, on a new session: count the
\* request, then serve_stats_admin serves the stats path, hands every
\* request of an admin server to ADMIN_SERVE and the admin path to
\* serve_admin; what is not served is located.
RequestFilter(r) ==
    /\ pc[r] \in {"idle", "done"}
    /\ processing' = processing + 1
    /\ NewCtx(r)
    /\ \E kind \in Kinds :
       \/ /\ kind = "stats"
          \* send_stats_response ignores a send error and records 200
          /\ sent' = [sent EXCEPT ![r] = 200]
          /\ status' = [status EXCEPT ![r] = 200]
          /\ pc' = [pc EXCEPT ![r] = "logging"]
          /\ UNCHANGED <<lo, err>>
       \/ /\ kind # "stats" /\ (kind = "admin" \/ IsAdmin)
          /\ IF IsAdmin THEN AdminServe(r) ELSE ServeAdmin(r)
          /\ status' = [status EXCEPT ![r] = 0]
       \/ /\ kind = "proxy" /\ ~IsAdmin
          /\ sent' = [sent EXCEPT ![r] = 0]
          /\ Locate(r)
          /\ status' = [status EXCEPT ![r] = 0]
    /\ open' = [open EXCEPT ![r] = TRUE]
    /\ UNCHANGED inflight

\* The plugin at index pi of the request's chain.
CurrentPlugin(r) == Chain[lo[r]][pi[r]]
InChain(r) == pc[r] = "plugins" /\ pi[r] <= Len(Chain[lo[r]])

\* Limiter::incr as called by Limiter::handle.  An empty key continues;
\* otherwise the estimator slot is incremented and the returned value
\* compared with max.  Within the limit the guard is stored in ctx.guard,
\* which drops the guard stored there before.
LimitIncr(r) ==
    /\ InChain(r)
    /\ CurrentPlugin(r) \in Limiters
    /\ LET l == CurrentPlugin(r) IN
       \E k \in KeyValues(l) :
       \/ /\ k = NoKey
          /\ pi' = [pi EXCEPT ![r] = @ + 1]
          /\ UNCHANGED <<pc, guard, pending, admitted, inflight>>
       \/ /\ k # NoKey
          /\ LET value == inflight[l][Hash[k]] + 1
                 incr == [inflight EXCEPT ![l][Hash[k]] = value]
             IN IF Exceeds(l, value)
                THEN /\ inflight' = incr
                     /\ pending' = [pending EXCEPT ![r] = <<l, k>>]
                     /\ pc' = [pc EXCEPT ![r] = "limit_exceeded"]
                     /\ UNCHANGED <<pi, guard, admitted>>
                ELSE /\ inflight' = Drop(incr, guard[r])
                     /\ guard' = [guard EXCEPT ![r] = <<l, k>>]
                     /\ admitted' = [admitted EXCEPT ![r] = @ \cup {<<l, k>>}]
                     /\ pi' = [pi EXCEPT ![r] = @ + 1]
                     /\ UNCHANGED <<pc, pending>>
    /\ UNCHANGED <<lo, err, status, sent, open, processing>>

\* Limiter::incr returns Error::Exceed: the guard is dropped on return and
\* handle maps the error to status 429.
LimitReject(r) ==
    /\ pc[r] = "limit_exceeded"
    /\ inflight' = Drop(inflight, pending[r])
    /\ pending' = [pending EXCEPT ![r] = None]
    /\ Fail(r, StatusErr(429))
    /\ UNCHANGED <<lo, pi, guard, admitted, status, sent, open, processing>>

\* Whether a filter plugin forbids the request: an expression may match or
\* not; OwaspCrsPlugin::handle_request has `allow = false` and forbids
\* every request it sees.
Verdicts(p) == IF p \in Wafs THEN {TRUE} ELSE BOOLEAN

\* A filter plugin (WirefilterPlugin, OwaspCrsPlugin) of the chain.  Both
\* render every request header with `to_str().unwrap()`, which panics on a
\* header value that is not visible ASCII: the task unwinds, ctx (and its
\* guard) is dropped, and neither fail_to_proxy nor logging runs.  A
\* matching expression answers 403 and ends request_filter.
FilterPlugin(r) ==
    /\ InChain(r)
    /\ CurrentPlugin(r) \in Filters
    /\ \E hv \in HeaderValues, matched \in Verdicts(CurrentPlugin(r)) :
       \/ /\ hv = "non_ascii"
          /\ inflight' = Drop(inflight, guard[r])
          /\ DropCtx(r)
          /\ UNCHANGED <<err, sent>>
       \/ /\ hv = "ascii" /\ matched
          /\ IF open[r]
             THEN /\ Respond(r, 403)
                  /\ pc' = [pc EXCEPT ![r] = "logging"]
                  /\ UNCHANGED err
             ELSE /\ \E e \in DownstreamErr : Fail(r, e)
                  /\ UNCHANGED sent
          /\ UNCHANGED <<pi, guard, inflight, lo, admitted, open>>
       \/ /\ hv = "ascii" /\ ~matched
          /\ pi' = [pi EXCEPT ![r] = @ + 1]
          /\ UNCHANGED <<pc, err, sent, guard, inflight, lo, admitted, open>>
    /\ UNCHANGED <<pending, status, processing>>

\* The chain has run without a response: ctx.location_index is recorded and
\* request_filter returns false.
PluginsDone(r) ==
    /\ pc[r] = "plugins"
    /\ pi[r] > Len(Chain[lo[r]])
    /\ pc' = [pc EXCEPT ![r] = "upstream_filter"]
    /\ pi' = [pi EXCEPT ![r] = 1]
    /\ UNCHANGED <<lo, guard, pending, admitted, err, status, sent, open,
                   processing, inflight>>

\* proxy_upstream_filter: a mock (or directory) upstream writes the response
\* itself and the request is finished; otherwise proxy to upstream_peer.
ProxyUpstreamFilter(r) ==
    /\ pc[r] = "upstream_filter"
    /\ \/ /\ UpstreamKind[lo[r]] = "mock"
          /\ IF open[r]
             THEN /\ Respond(r, 200)
                  /\ pc' = [pc EXCEPT ![r] = "logging"]
                  /\ UNCHANGED err
             ELSE /\ \E e \in DownstreamErr : Fail(r, e)
                  /\ UNCHANGED sent
       \/ /\ UpstreamKind[lo[r]] = "proxy"
          /\ pc' = [pc EXCEPT ![r] = "peer"]
          /\ UNCHANGED <<err, sent>>
    /\ UNCHANGED <<lo, pi, guard, pending, admitted, status, open, processing,
                   inflight>>

\* upstream_peer: new_http_peer finds no backend -> 503.
UpstreamPeer(r) ==
    /\ pc[r] = "peer"
    /\ \/ Fail(r, StatusErr(503))
       \/ /\ pc' = [pc EXCEPT ![r] = "connect"]
          /\ UNCHANGED err
    /\ UNCHANGED <<lo, pi, guard, pending, admitted, status, sent, open,
                   processing, inflight>>

\* The framework connects to the peer; on success connected_to_upstream
\* records reused and the address, upstream_request_filter adds the
\* forwarding headers.  A refused or timed out connect is an upstream error.
Connect(r) ==
    /\ pc[r] = "connect"
    /\ \/ Fail(r, KindErr("upstream"))
       \/ /\ pc' = [pc EXCEPT ![r] = "response"]
          /\ UNCHANGED err
    /\ UNCHANGED <<lo, pi, guard, pending, admitted, status, sent, open,
                   processing, inflight>>

\* The upstream response header arrives: upstream_response_filter records
\* the status if none is set yet, then the header is written downstream.
UpstreamResponse(r) ==
    /\ pc[r] = "response"
    /\ \/ /\ Fail(r, KindErr("upstream"))
          /\ UNCHANGED <<status, sent>>
       \/ \E s \in UpstreamStatus :
          /\ status' = [status EXCEPT ![r] = IF @ = 0 THEN s ELSE @]
          /\ IF open[r]
             THEN /\ Respond(r, s)
                  /\ pc' = [pc EXCEPT ![r] = "body"]
                  /\ UNCHANGED err
             ELSE /\ \E e \in DownstreamErr : Fail(r, e)
                  /\ UNCHANGED sent
    /\ UNCHANGED <<lo, pi, guard, pending, admitted, open, processing, inflight>>

\* The body is streamed (upstream_response_body_filter counts its size):
\* it ends, the upstream fails, or the downstream write fails.
Body(r) ==
    /\ pc[r] = "body"
    /\ \/ /\ pc' = [pc EXCEPT ![r] = "logging"]
          /\ UNCHANGED err
       \/ Fail(r, KindErr("upstream"))
       \/ /\ ~open[r]
          /\ \E e \in DownstreamErr : Fail(r, e)
    /\ UNCHANGED <<lo, pi, guard, pending, admitted, status, sent, open,
                   processing, inflight>>

\* The client closes its connection while the request is in flight.
ClientClose(r) ==
    /\ Live(r)
    /\ open[r]
    /\ open' = [open EXCEPT ![r] = FALSE]
    /\ UNCHANGED <<pc, lo, pi, guard, pending, admitted, err, status, sent,
                   processing, inflight>>

\* fail_to_proxy: map the error to a code, record it as ctx.status and
\* write the error page (ignored when a header was already written).
FailToProxy(r) ==
    /\ pc[r] = "fail"
    /\ status' = [status EXCEPT ![r] = ErrorCode(err[r])]
    /\ Respond(r, ErrorCode(err[r]))
    /\ pc' = [pc EXCEPT ![r] = "logging"]
    /\ err' = [err EXCEPT ![r] = KindErr("internal")]
    /\ UNCHANGED <<lo, pi, guard, pending, admitted, open, processing,
                   inflight>>

\* logging: decrement processing and take the status from the written
\* response when none is recorded; then ctx, and with it the guard, is
\* dropped.
Logging(r) ==
    /\ pc[r] = "logging"
    /\ processing' = processing - 1
    /\ status' = [status EXCEPT ![r] = IF @ = 0 THEN sent[r] ELSE @]
    /\ inflight' = Drop(inflight, guard[r])
    /\ DropCtx(r)
    /\ UNCHANGED <<pending, err, sent>>

\* The steps of request task r.
RequestStep(r) ==
    \/ RequestFilter(r)
    \/ LimitIncr(r)
    \/ LimitReject(r)
    \/ FilterPlugin(r)
    \/ PluginsDone(r)
    \/ ProxyUpstreamFilter(r)
    \/ UpstreamPeer(r)
    \/ Connect(r)
    \/ UpstreamResponse(r)
    \/ Body(r)
    \/ FailToProxy(r)
    \/ Logging(r)

Next == \E r \in Requests : RequestStep(r) \/ ClientClose(r)

Spec == Init /\ [][Next]_vars

-----------------------------------------------------------------------------
(* Properties *)

TypeOK ==
    /\ pc \in [Requests -> Phases]
    /\ lo \in [Requests -> Locations \cup {NoLocation}]
    /\ pi \in [Requests -> Nat]
    /\ guard \in [Requests -> (Limiters \X Keys) \cup {None}]
    /\ pending \in [Requests -> (Limiters \X Keys) \cup {None}]
    /\ admitted \in [Requests -> SUBSET (Limiters \X Keys)]
    /\ err \in [Requests -> [kind : ErrorKinds, code : Nat]]
    /\ status \in [Requests -> Nat]
    /\ sent \in [Requests -> Nat]
    /\ open \in [Requests -> BOOLEAN]
    /\ processing \in 0..Cardinality(Requests)
    /\ inflight \in [Limiters -> [Slots -> 0..Cardinality(Requests)]]

\* Server.processing, incremented in request_filter and decremented in
\* logging, equals the number of requests between the two at all times:
\* no path through the phases (stats, admin, plugin response, errors,
\* panics) skips the decrement or runs it twice.
ProcessingBalance ==
    processing = Cardinality({r \in Requests : Live(r)})

\* Requests that own (or transiently hold) a guard on slot s of limiter l.
GuardsOn(g, l, s) ==
    {r \in Requests : g[r] # None /\ g[r][1] = l /\ Hash[g[r][2]] = s}

\* Every estimator counter of every Limiter equals the number of live
\* inflight guards on it: each Inflight::incr is undone exactly once, by
\* the drop of the over-limit guard, by overwriting ctx.guard, or by
\* dropping ctx after logging or a panic.
InflightAccounting ==
    \A l \in Limiters, s \in Slots :
        inflight[l][s] = Cardinality(GuardsOn(guard, l, s))
                         + Cardinality(GuardsOn(pending, l, s))

\* At most `max` requests that a Limiter admitted for a key are in flight
\* together: the concurrency limit of the limit plugin holds.
LimitRespected ==
    \A l \in Limiters, k \in Keys :
        Cardinality({r \in Requests : Live(r) /\ <<l, k>> \in admitted[r]})
            <= LimitMax[l]

=============================================================================
