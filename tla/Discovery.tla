------------------------------ MODULE Discovery ------------------------------
(***************************************************************************)
(* DNS discovery of an upstream (src/src/discovery/dns.rs), refreshed by  *)
(* the background services Server::run spawns (src/src/proxy/server.rs), *)
(* and the peer selection of upstream_peer reading the set they install.  *)
(* Each spawned service runs discover periodically: one lookup_ip per     *)
(* host, each an await and so a step of its own; an Error::Resolve of any *)
(* host fails the whole discovery, which Backends::update propagates,     *)
(* keeping the installed set; otherwise the usable addresses of every     *)
(* host replace the set in one store.  Server::run spawns one service per *)
(* location, so an upstream used by several locations has several.  The   *)
(* DNS is an environment whose answers change at most MaxChanges times.   *)
(***************************************************************************)
EXTENDS Integers, Sequences, FiniteSets, FiniteSetsExt

CONSTANTS
    Hosts,       \* Dns.hosts: the host of each address, in order
    Addrs,       \* IP addresses the resolver may answer with
    V4,          \* the IPv4 addresses among Addrs
    Answers,     \* the address sets a successful lookup_ip may return
    Ipv4Only,    \* Dns.ipv4_only
    Locations,   \* the locations whose upstream this is
    MaxChanges,  \* bound on the changes of the DNS answers
    Fail,        \* a lookup_ip answering Error::Resolve
    NoPeer,      \* upstream_peer's 503 "No available upstream"
    None         \* no request has asked for a peer yet

ASSUME /\ V4 \subseteq Addrs
       /\ \A a \in Answers : a # {} /\ a \subseteq Addrs
       /\ Ipv4Only \in BOOLEAN
       /\ MaxChanges \in Nat

HostSet == {Hosts[i] : i \in 1..Len(Hosts)}

VARIABLES
    dns,        \* what lookup_ip answers for each host now: an address set or Fail
    hver,       \* history: how often each host's answer has changed
    backends,   \* the BackendSet installed in the upstream's Backends
    installed,  \* history: for each host, the hver of its answer in backends (-1: none)
    svc,        \* each location's background service
    peer        \* history: what the last upstream_peer returned

vars == <<dns, hver, backends, installed, svc, peer>>

\* The changes of the DNS so far.
Changes == MapThenSumSet(LAMBDA h : hver[h], HostSet)

\* The addresses run_discover keeps of one answer: with ipv4_only, the
\* IPv4 ones.
Usable(a) == {x \in a : ~Ipv4Only \/ x \in V4}

Init ==
    /\ dns \in [HostSet -> Answers \cup {Fail}]
    /\ hver = [h \in HostSet |-> 0]
    /\ backends = {}
    /\ installed = [h \in HostSet |-> -1]
    /\ svc = [l \in Locations |->
                [phase |-> "idle", next |-> 1, got |-> {},
                 seen |-> [h \in HostSet |-> -1]]]
    /\ peer = None

\* The answer of a host changes (a DNS record is updated or the name
\* stops resolving).
ChangeDns(h, a) ==
    /\ Changes < MaxChanges
    /\ a # dns[h]
    /\ dns' = [dns EXCEPT ![h] = a]
    /\ hver' = [hver EXCEPT ![h] = @ + 1]
    /\ UNCHANGED <<backends, installed, svc, peer>>

\* Fault variants for checking the properties: the answers of the previous
\* discovery kept; a lookup past the last host; an Error::Resolve skipped
\* like an empty answer instead of ending the discovery.
StartDiscoverKeepsAnswers(l) ==
    /\ svc[l].phase = "idle"
    /\ svc' = [svc EXCEPT ![l] = [phase |-> "lookup", next |-> 1, got |-> svc[l].got,
                                  seen |-> [h \in HostSet |-> -1]]]
    /\ UNCHANGED <<dns, hver, backends, installed, peer>>

LookupHostPastLast(l) ==
    LET s == svc[l]
        h == Hosts[s.next]
    IN /\ s.phase = "lookup"
       /\ dns[h] # Fail
       /\ s.next <= Len(Hosts)
       /\ svc' = [svc EXCEPT ![l].next = @ + 1,
                             ![l].got = @ \cup Usable(dns[h]),
                             ![l].seen[h] = hver[h]]
       /\ UNCHANGED <<dns, hver, backends, installed, peer>>

LookupFailsSkipsHost(l) ==
    LET s == svc[l]
        h == Hosts[s.next]
    IN /\ s.phase = "lookup"
       /\ dns[h] = Fail
       /\ IF s.next < Len(Hosts)
            THEN /\ svc' = [svc EXCEPT ![l].next = @ + 1]
                 /\ UNCHANGED <<backends, installed>>
            ELSE /\ backends' = s.got
                 /\ installed' = [s.seen EXCEPT ![h] = hver[h]]
                 /\ svc' = [svc EXCEPT ![l].phase = "idle"]
       /\ UNCHANGED <<dns, hver, peer>>

\* The service is due: discover enters run_discover, which creates the
\* resolver and starts with an empty list of answers.
StartDiscover(l) ==
    /\ svc[l].phase = "idle"
    /\ svc' = [svc EXCEPT ![l] = [phase |-> "lookup", next |-> 1, got |-> {},
                                  seen |-> [h \in HostSet |-> -1]]]
    /\ UNCHANGED <<dns, hver, backends, installed, peer>>

\* The lookup_ip of a host that is not the last answers; its usable
\* addresses are kept and the next host is looked up.
LookupHost(l) ==
    LET s == svc[l]
        h == Hosts[s.next]
    IN /\ s.phase = "lookup"
       /\ dns[h] # Fail
       /\ s.next < Len(Hosts)
       /\ svc' = [svc EXCEPT ![l].next = @ + 1,
                             ![l].got = @ \cup Usable(dns[h]),
                             ![l].seen[h] = hver[h]]
       /\ UNCHANGED <<dns, hver, backends, installed, peer>>

\* A lookup_ip answers Error::Resolve: `?` ends run_discover, discover
\* logs it, sends the ServiceDiscoverFail webhook and returns Err, and
\* Backends::update returns before touching the installed set.
LookupFails(l) ==
    /\ svc[l].phase = "lookup"
    /\ dns[Hosts[svc[l].next]] = Fail
    /\ svc' = [svc EXCEPT ![l].phase = "idle"]
    /\ UNCHANGED <<dns, hver, backends, installed, peer>>

\* The last host answers: run_discover turns every kept address into a
\* Backend, collects them in a BTreeSet and returns it with no readiness
\* map, and Backends::update stores it in place of the installed set.
FinishDiscover(l) ==
    LET s == svc[l]
        h == Hosts[s.next]
    IN /\ s.phase = "lookup"
       /\ dns[h] # Fail
       /\ s.next = Len(Hosts)
       /\ backends' = s.got \cup Usable(dns[h])
       /\ installed' = [s.seen EXCEPT ![h] = hver[h]]
       /\ svc' = [svc EXCEPT ![l].phase = "idle"]
       /\ UNCHANGED <<dns, hver, peer>>

\* Server::upstream_peer: a peer from the installed set, or the 503
\* "No available upstream" when the set is empty.
UpstreamPeer ==
    /\ \/ backends = {} /\ peer' = NoPeer
       \/ \E b \in backends : peer' = b
    /\ UNCHANGED <<dns, hver, backends, installed, svc>>

Next ==
    \/ \E h \in HostSet, a \in Answers \cup {Fail} : ChangeDns(h, a)
    \/ \E l \in Locations :
         StartDiscover(l) \/ LookupHost(l) \/ LookupFails(l) \/ FinishDiscover(l)
    \/ UpstreamPeer

\* The background service runs discover every update frequency for as
\* long as the server runs, and every lookup_ip ends (with an answer or
\* with the resolver's timeout error).
Fairness ==
    \A l \in Locations :
        /\ WF_vars(StartDiscover(l))
        /\ WF_vars(LookupHost(l))
        /\ WF_vars(LookupFails(l))
        /\ WF_vars(FinishDiscover(l))

Spec == Init /\ [][Next]_vars /\ Fairness

-----------------------------------------------------------------------------

\* Every host resolves, and what the installed set would be if discover ran
\* now.
Resolvable == \A h \in HostSet : dns[h] # Fail
Expected == UNION {Usable(dns[h]) : h \in HostSet}

TypeOK ==
    /\ dns \in [HostSet -> Answers \cup {Fail}]
    /\ backends \subseteq Addrs
    /\ \A l \in Locations :
         /\ svc[l].phase \in {"idle", "lookup"}
         /\ svc[l].next \in 1..Len(Hosts)
         /\ svc[l].got \subseteq Addrs
    /\ peer \in Addrs \cup {NoPeer, None}

\* upstream_peer answers 503 "No available upstream" only while no
\* discovery has succeeded yet: a discovery failing on one host of
\* several, or on all of them, leaves the set the last good one installed.
NoPeerOnlyBeforeFirstDiscovery ==
    [][UpstreamPeer /\ peer' = NoPeer => \A h \in HostSet : installed[h] = -1]_vars

\* Once the DNS stops changing and every host resolves, the installed set
\* becomes, and stays, the usable addresses of the current answers: the
\* refresh picks up every DNS change and keeps no address it no longer
\* returns.
BackendsFollowDns == <>[](Resolvable => backends = Expected)

\* The installed set never goes back to an answer of a host older than the
\* one it already holds: a discovery never overwrites a fresher one.
NoRollback == [][\A h \in HostSet : installed'[h] >= installed[h]]_installed

=============================================================================
