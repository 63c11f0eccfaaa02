------------------------------- MODULE Resolver -------------------------------
(***************************************************************************)
(* How the resolver asks its upstreams: the guard that keeps one name's,   *)
(* zone's or client's trouble from the others (_UpstreamGuard in           *)
(* homesoc/dnsfilter/server.py) and the circuit breaker with its canary    *)
(* (homesoc/dnsfilter/upstream.py).                                        *)
(*                                                                         *)
(* Each action is one region under a lock of the guard or the breaker, or  *)
(* one wait for the network.  UDP workers, threads of the pool and TCP     *)
(* handlers (Queries: what each of them works on) interleave between any   *)
(* two.  A query that the policy blocks, the cache answers or guard.check  *)
(* refuses changes nothing here and is left out.                           *)
(*                                                                         *)
(* Time is what it makes possible: an age that ends something is an action *)
(* that may be taken any time later.                                       *)
(***************************************************************************)
EXTENDS Naturals, FiniteSets

CONSTANTS
    Queries,    \* threads that can be at a query at the same time
    Handlers,   \* those of TCP connections
    Names,      \* (qname, qtype) pairs
    Zones,      \* registrable domains
    ZoneOf,     \* _zone_of
    Clients,    \* source addresses
    Requests,   \* what they ask: [client, name, tcp]
    Flaky,      \* zones whose own servers may be slow
    Outages,    \* whether the upstreams may be out of reach
    PerClient,  \* UPSTREAM_INFLIGHT_PER_CLIENT
    PerZone,    \* UPSTREAM_INFLIGHT_PER_ZONE
    Total,      \* UPSTREAM_INFLIGHT_TOTAL, for UDP
    Threshold,  \* ZONE_FAIL_THRESHOLD
    None        \* nobody

Lanes == Clients \X BOOLEAN  \* ckey: a client over TCP (TRUE) or over UDP

ASSUME ResolverAssumption ==
    /\ IsFiniteSet(Queries) /\ Handlers \subseteq Queries /\ None \notin Queries \cup Requests
    /\ ZoneOf \in [Names -> Zones] /\ Flaky \subseteq Zones /\ Outages \in BOOLEAN
    /\ Requests \subseteq [client : Clients, name : Names, tcp : BOOLEAN]
    /\ {PerClient, PerZone, Total, Threshold} \subseteq Nat \ {0}

VARIABLES
    \* the network
    up,          \* the upstreams answer
    bad,         \* zones that do not answer them
    \* _UpstreamGuard
    udp,         \* inflight_udp
    byClient,    \* _inflight_client
    byZone,      \* _inflight_zone
    failed,      \* _failed_names that have not expired
    failures,    \* _zone_failures: how many within the window
    held,        \* _zone_hold that has not expired
    \* Upstream
    ok,          \* health.ok: the breaker is closed
    recent,      \* last_ok_at is less than RECENT_SUCCESS_SECONDS ago
    probe,       \* _next_probe_at has passed
    fresh,       \* _canary_at is less than BREAKER_PROBE_SECONDS ago
    canary,      \* _canary_ok
    asking,      \* who holds _canary_lock
    \* DnsServer
    pc,          \* where each thread is between _process_local and its reply
    request,     \* the query it is at
    hit,         \* the upstreams, or the name's zone, were out of reach while it waited
    verdict      \* what it makes of the canary

worldVars   == <<up, bad>>
slotVars    == <<udp, byClient, byZone>>
holdVars    == <<failed, failures, held>>
breakerVars == <<ok, recent, probe>>
canaryVars  == <<fresh, canary, asking>>
queryVars   == <<pc, request, hit, verdict>>
vars == <<worldVars, slotVars, holdVars, breakerVars, canaryVars, queryVars>>

Name(q) == request[q].name
Zone(q) == ZoneOf[Name(q)]
Lane(q) == <<request[q].client, request[q].tcp>>
Tcp(q)  == request[q].tcp

Init ==
    /\ up = TRUE /\ bad = {}
    /\ udp = 0 /\ byClient = [l \in Lanes |-> 0] /\ byZone = [z \in Zones |-> 0]
    /\ failed = {} /\ failures = [z \in Zones |-> 0] /\ held = {}
    /\ ok = TRUE /\ recent = FALSE /\ probe = TRUE
    /\ fresh = FALSE /\ canary = TRUE /\ asking = None
    /\ pc = [q \in Queries |-> "idle"] /\ request = [q \in Queries |-> None]
    /\ hit = [q \in Queries |-> FALSE] /\ verdict = [q \in Queries |-> FALSE]

\* On to the next step.
Goto(q, label) ==
    pc' = [pc EXCEPT ![q] = label] /\ UNCHANGED <<request, hit, verdict>>

\* To a wait for what may be out of reach already, and out of it.
Wait(q, label, out) ==
    pc' = [pc EXCEPT ![q] = label] /\ hit' = [hit EXCEPT ![q] = out] /\ UNCHANGED <<request, verdict>>

\* The reply goes out.
Reply(q) ==
    /\ pc' = [pc EXCEPT ![q] = "idle"] /\ request' = [request EXCEPT ![q] = None]
    /\ hit' = [hit EXCEPT ![q] = FALSE] /\ verdict' = [verdict EXCEPT ![q] = FALSE]

-----------------------------------------------------------------------------
(* _process_local                                                          *)

\* The policy allows the name, the cache does not know it, and guard.check has not seen
\* it or its zone fail (else SERVFAIL).
Begin(q, r) ==
    /\ pc[q] = "idle" /\ r.tcp = (q \in Handlers)
    /\ r.name \notin failed /\ ZoneOf[r.name] \notin held
    /\ pc' = [pc EXCEPT ![q] = "acquire"] /\ request' = [request EXCEPT ![q] = r]
    /\ UNCHANGED <<worldVars, slotVars, holdVars, breakerVars, canaryVars, hit, verdict>>

Full(q) ==
    \/ ~Tcp(q) /\ udp >= Total
    \/ byClient[Lane(q)] >= PerClient
    \/ byZone[Zone(q)] >= PerZone

\* guard.acquire: a slot, or SERVFAIL over TCP and TC=1 over UDP.
Acquire(q) ==
    /\ pc[q] = "acquire"
    /\ IF Full(q) THEN Reply(q) /\ UNCHANGED slotVars
       ELSE /\ udp' = IF Tcp(q) THEN udp ELSE udp + 1
            /\ byClient' = [byClient EXCEPT ![Lane(q)] = @ + 1]
            /\ byZone' = [byZone EXCEPT ![Zone(q)] = @ + 1]
            /\ Goto(q, IF Tcp(q) THEN "ask" ELSE "submit")
    /\ UNCHANGED <<worldVars, holdVars, breakerVars, canaryVars>>

-----------------------------------------------------------------------------
(* _UdpHandler.handle                                                      *)

Less(n) == IF n = 0 THEN 0 ELSE n - 1

\* guard.release
GiveBack(q) ==
    /\ udp' = IF Tcp(q) THEN udp ELSE Less(udp)
    /\ byClient' = [byClient EXCEPT ![Lane(q)] = Less(@)]
    /\ byZone' = [byZone EXCEPT ![Zone(q)] = Less(@)]

\* To the pool.  Once that is gone, the worker answers the query itself.
Submit(q) ==
    /\ pc[q] = "submit"
    /\ Goto(q, "ask")
    /\ UNCHANGED <<worldVars, slotVars, holdVars, breakerVars, canaryVars>>

\* Mutant: the slot is given back, the work is not dropped.
AbandonKeepsWork(q) ==
    /\ pc[q] = "submit"
    /\ GiveBack(q)
    /\ Goto(q, "idle")
    /\ UNCHANGED <<worldVars, holdVars, breakerVars, canaryVars>>

\* stop shut the pool down after the worker had looked for it; the guard outlives a
\* stop and the start that may follow.
Abandon(q) ==
    /\ pc[q] = "submit"
    /\ GiveBack(q)
    /\ Reply(q)
    /\ UNCHANGED <<worldVars, holdVars, breakerVars, canaryVars>>

-----------------------------------------------------------------------------
(* _process_upstream: Upstream.resolve, and its finally.                   *)

\* _breaker_allows: of an open breaker, one probe.
Ask(q) ==
    /\ pc[q] = "ask"
    /\ IF ok \/ probe THEN Wait(q, "wait", ~up \/ Zone(q) \in bad) ELSE Goto(q, "release")
    /\ probe' = (ok /\ probe)
    /\ UNCHANGED <<worldVars, slotVars, holdVars, ok, recent, canaryVars>>

\* Some path answers: _note_success.
Answer(q) ==
    /\ pc[q] = "wait" /\ up /\ Zone(q) \notin bad
    /\ ok' = TRUE /\ recent' = TRUE /\ probe' = TRUE
    /\ Wait(q, "release", FALSE)
    /\ UNCHANGED <<worldVars, slotVars, holdVars, canaryVars>>

\* Every path has failed.
Fail(q) ==
    /\ pc[q] = "wait" /\ hit[q]
    /\ Wait(q, "failed", FALSE)
    /\ UNCHANGED <<worldVars, slotVars, holdVars, breakerVars, canaryVars>>

\* Something else is raised: SERVFAIL, and no conclusions.
Raise(q) ==
    /\ pc[q] = "wait"
    /\ Wait(q, "release", FALSE)
    /\ UNCHANGED <<worldVars, slotVars, holdVars, breakerVars, canaryVars>>

\* Mutant: only the query that has failed gives its slot back.
ReleaseFailed(q) ==
    /\ pc[q] \in {"release", "failed"}
    /\ IF pc[q] = "failed" THEN GiveBack(q) /\ Goto(q, "note") ELSE UNCHANGED slotVars /\ Reply(q)
    /\ UNCHANGED <<worldVars, holdVars, breakerVars, canaryVars>>

Release(q) ==
    /\ pc[q] \in {"release", "failed"}
    /\ GiveBack(q)
    /\ IF pc[q] = "failed" THEN Goto(q, "note") ELSE Reply(q)
    /\ UNCHANGED <<worldVars, holdVars, breakerVars, canaryVars>>

-----------------------------------------------------------------------------
(* note_query_failure: are the upstreams down, or is it only this name?    *)

Note(q) ==
    /\ pc[q] = "note"
    /\ IF ok /\ recent THEN Goto(q, "charge")
       ELSE IF fresh
            THEN /\ pc' = [pc EXCEPT ![q] = "judge"] /\ verdict' = [verdict EXCEPT ![q] = canary]
                 /\ UNCHANGED <<request, hit>>
       ELSE Goto(q, "try")
    /\ UNCHANGED <<worldVars, slotVars, holdVars, breakerVars, canaryVars>>

\* While another thread's canary is out, the breaker is believed.
TryCanary(q) ==
    /\ pc[q] = "try"
    /\ IF asking = None THEN asking' = q /\ Wait(q, "canary", ~up)
       ELSE UNCHANGED asking /\ IF ok THEN Goto(q, "charge") ELSE Reply(q)
    /\ UNCHANGED <<worldVars, slotVars, holdVars, breakerVars, fresh, canary>>

\* The canary is answered, or every path has failed.
Canary(q, answered) ==
    /\ pc[q] = "canary"
    /\ IF answered THEN up ELSE hit[q]
    /\ fresh' = TRUE /\ canary' = answered /\ asking' = None
    /\ pc' = [pc EXCEPT ![q] = "judge"]
    /\ hit' = [hit EXCEPT ![q] = FALSE] /\ verdict' = [verdict EXCEPT ![q] = answered]
    /\ UNCHANGED <<worldVars, slotVars, holdVars, breakerVars, request>>

\* Something else is raised: the finally lets the lock go, and there is no verdict.
CanaryRaises(q) ==
    /\ pc[q] = "canary"
    /\ asking' = None
    /\ Reply(q)
    /\ UNCHANGED <<worldVars, slotVars, holdVars, breakerVars, fresh, canary>>

\* Mutant: a good canary leaves an open breaker as it is.
JudgeLeavesOpen(q) ==
    /\ pc[q] = "judge"
    /\ ok' = (ok /\ verdict[q])
    /\ UNCHANGED <<recent, probe>>
    /\ IF verdict[q] THEN Goto(q, "charge") ELSE Reply(q)
    /\ UNCHANGED <<worldVars, slotVars, holdVars, canaryVars>>

\* Mutant: no lookup answered means no upstream answers.
JudgeTrustsNobody(q) ==
    /\ pc[q] = "judge"
    /\ ok' = FALSE
    /\ UNCHANGED <<recent, probe>>
    /\ Reply(q)
    /\ UNCHANGED <<worldVars, slotVars, holdVars, canaryVars>>

\* _close_breaker: it is only the name.  mark_all_failed: it is the upstreams.
Judge(q) ==
    /\ pc[q] = "judge"
    /\ ok' = verdict[q]
    /\ recent' = (recent \/ verdict[q])
    /\ probe' = (probe \/ (verdict[q] /\ ~ok))
    /\ IF verdict[q] THEN Goto(q, "charge") ELSE Reply(q)
    /\ UNCHANGED <<worldVars, slotVars, holdVars, canaryVars>>

\* guard.note_failure
Charge(q) ==
    /\ pc[q] = "charge"
    /\ LET z == Zone(q)
           many == failures[z] + 1 >= Threshold
       IN  /\ failed' = failed \cup {Name(q)}
           /\ failures' = [failures EXCEPT ![z] = IF many THEN 0 ELSE @ + 1]
           /\ held' = IF many THEN held \cup {z} ELSE held
    /\ Reply(q)
    /\ UNCHANGED <<worldVars, slotVars, breakerVars, canaryVars>>

-----------------------------------------------------------------------------
(* The network: who waits while something goes out of reach is hit.        *)

World(reachable, slow) ==
    /\ up' = reachable /\ bad' = slow
    /\ hit' = [q \in Queries |->
                 \/ hit[q]
                 \/ pc[q] = "wait" /\ (~reachable \/ Zone(q) \in slow)
                 \/ pc[q] = "canary" /\ ~reachable]
    /\ UNCHANGED <<slotVars, holdVars, breakerVars, canaryVars, pc, request, verdict>>

Outage  == Outages /\ World(~up, bad)
Slow(z) == World(up, IF z \in bad THEN bad \ {z} ELSE bad \cup {z})

-----------------------------------------------------------------------------
(* Seconds pass.                                                           *)

RecentEnds ==
    /\ recent /\ recent' = FALSE
    /\ UNCHANGED <<worldVars, slotVars, holdVars, ok, probe, canaryVars, queryVars>>

ProbeDue ==
    /\ ~probe /\ probe' = TRUE
    /\ UNCHANGED <<worldVars, slotVars, holdVars, ok, recent, canaryVars, queryVars>>

CanaryStales ==
    /\ fresh /\ fresh' = FALSE
    /\ UNCHANGED <<worldVars, slotVars, holdVars, breakerVars, canary, asking, queryVars>>

\* FAIL_CACHE_SECONDS, ZONE_FAIL_WINDOW and ZONE_HOLD_SECONDS; a full table evicts.
FailureEnds(n) ==
    /\ n \in failed /\ failed' = failed \ {n}
    /\ UNCHANGED <<worldVars, slotVars, failures, held, breakerVars, canaryVars, queryVars>>

WindowPasses(z) ==
    /\ failures[z] > 0 /\ failures' = [failures EXCEPT ![z] = @ - 1]
    /\ UNCHANGED <<worldVars, slotVars, failed, held, breakerVars, canaryVars, queryVars>>

HoldEnds(z) ==
    /\ z \in held /\ held' = held \ {z}
    /\ UNCHANGED <<worldVars, slotVars, failed, failures, breakerVars, canaryVars, queryVars>>

-----------------------------------------------------------------------------
Step(q) ==
    \/ Acquire(q) \/ Submit(q) \/ Abandon(q) \/ Ask(q)
    \/ Answer(q) \/ Fail(q) \/ Raise(q) \/ Release(q)
    \/ Note(q) \/ TryCanary(q) \/ (\E answered \in BOOLEAN : Canary(q, answered)) \/ CanaryRaises(q)
    \/ Judge(q) \/ Charge(q)

Next ==
    \/ \E q \in Queries : Step(q) \/ \E r \in Requests : Begin(q, r)
    \/ Outage \/ (\E z \in Flaky : Slow(z))
    \/ RecentEnds \/ ProbeDue \/ CanaryStales
    \/ \E n \in Names : FailureEnds(n)
    \/ \E z \in Zones : WindowPasses(z) \/ HoldEnds(z)

Spec == Init /\ [][Next]_vars

\* Threads go on (a wait has its timeouts) and seconds pass.
FairSpec ==
    /\ Spec
    /\ \A q \in Queries : WF_vars(Step(q))
    /\ WF_vars(ProbeDue) /\ WF_vars(CanaryStales)
===============================================================================
