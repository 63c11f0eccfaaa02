----------------------------- MODULE ResolverProps -----------------------------
(* What the resolver promises of a lookup, whatever the others go through. *)
EXTENDS Resolver

Pcs == {"idle", "acquire", "submit", "ask", "wait", "release", "failed",
        "note", "try", "canary", "judge", "charge"}

SlotTypes == udp \in Nat /\ byClient \in [Lanes -> Nat] /\ byZone \in [Zones -> Nat]

ThreadTypes ==
    /\ pc \in [Queries -> Pcs] /\ request \in [Queries -> Requests \cup {None}]
    /\ \A q \in Queries : pc[q] = "idle" <=> request[q] = None
    /\ hit \in [Queries -> BOOLEAN] /\ verdict \in [Queries -> BOOLEAN]

OtherTypes ==
    /\ up \in BOOLEAN /\ bad \subseteq Zones
    /\ failed \subseteq Names /\ failures \in [Zones -> Nat] /\ held \subseteq Zones
    /\ ok \in BOOLEAN /\ recent \in BOOLEAN /\ probe \in BOOLEAN
    /\ fresh \in BOOLEAN /\ canary \in BOOLEAN /\ asking \in Queries \cup {None}

\* Every variable keeps its type, and a thread has a request exactly when it is at one.
TypeOK == SlotTypes /\ ThreadTypes /\ OtherTypes

\* The threads that hold a slot.
Holders == {q \in Queries : pc[q] \in {"submit", "ask", "wait", "release", "failed"}}

\* "An _UpstreamWork holding a guard slot": the counters are the threads that hold one,
\* so none leaks on any way out, stop and exceptions included, and no cap is exceeded.
SlotsBalance ==
    /\ udp = Cardinality({q \in Holders : ~Tcp(q)}) /\ udp <= Total
    /\ \A l \in Lanes :
         byClient[l] = Cardinality({q \in Holders : Lane(q) = l}) /\ byClient[l] <= PerClient
    /\ \A z \in Zones :
         byZone[z] = Cardinality({q \in Holders : Zone(q) = z}) /\ byZone[z] <= PerZone

\* "One name's or one zone's trouble stays with that name or zone": as long as the
\* upstreams themselves answer, the breaker stays closed and no name of a zone that
\* answers is failed without being asked for, however many others fail.
TroubleStaysLocal ==
    []up => [](ok /\ held \subseteq Flaky /\ \A n \in failed : ZoneOf[n] \in Flaky)

\* "A healthy canary also closes a breaker a failed probe left open": once the upstreams
\* are back, the breaker closes for good as long as lookups go on being tried, even if
\* every one of them is for a name that fails (and none dies of something else).
BreakerRecovers ==
    /\ <>[]up
    /\ []<>(\E q \in Queries : pc[q] = "ask")
    /\ <>[][\A q \in Queries : ~(~ok /\ (Raise(q) \/ CanaryRaises(q)))]_vars
    => <>[]ok
================================================================================
