---------------------------- MODULE FindingsProps ----------------------------
(* What the findings engine promises.                                      *)
(*                                                                         *)
(* A key is `raced` once somebody wrote its row, or its event, between     *)
(* another actor's read and write or between the two writes of a pair: the *)
(* code holds no lock across them, so nothing can be promised of that row  *)
(* until a user sets its status again.  Quiet(k) is the rest of the time.  *)
EXTENDS Findings

\* Every variable keeps its type; a row's status is one the schema knows.
TypeOK ==
    /\ status \in [Keys -> STATUSES \cup {"none"}]
    /\ trail \in [Keys -> Events]
    /\ pc \in [Engines -> EngPcs]
    /\ source \in [Engines -> Sources \cup {"none"}]
    /\ drafts \in [Engines -> SUBSET Keys]
    /\ seen \in [Engines -> SUBSET Keys]
    /\ cur \in [Engines -> Keys \cup {"none"}]
    /\ read \in [Engines -> STATUSES \cup {"none"}]
    /\ restored \in [Engines -> BOOLEAN]
    /\ rows \in [Engines -> [Keys -> Live \cup {"none"}]]
    /\ truth \in [Engines -> SUBSET Keys]
    /\ upc \in [Users -> {"idle", "write", "event"}]
    /\ urows \in [Users -> SUBSET Keys]
    /\ ucur \in [Users -> Keys \cup {"none"}]
    /\ target \in [Users -> STATUSES \cup {"none"}]
    /\ decision \in [Keys -> {"none", "acknowledged", "suppressed"}]
    /\ raced \subseteq Keys

\* A row and the newest entry of its audit trail say the same thing.
Agree(st, ev) ==
    CASE st = "none" -> ev = NoEvent
      [] st = "open" -> ev \in {Event("opened", "none"), Event("reopened", "none")}
      [] st = "acknowledged" -> ev \in {Event("acknowledged", "none"), Event("reopened", "restored")}
      [] st = "resolved" -> ev = NoEvent \/ ev.event = "resolved" \/ ev.event = "auto_resolved"
      [] st = "suppressed" -> ev = Event("suppressed", "none")

\* No pair of writes to k is half done, and none was cut into.
Quiet(k) == k \notin raced /\ \A a \in Engines \cup Users : ~MidPair(a, k)

\* Each UPDATE of findings.status is followed by its _event: the newest event
\* of a row tells the row's status, whatever passes and users came before.
TrailAgrees == \A k \in Keys : Quiet(k) => Agree(status[k], trail[k])

\* The decision in force is the one the row carries, or remembers in its trail.
Kept(k) ==
    /\ decision[k] = "suppressed" <=> status[k] = "suppressed"
    /\ decision[k] = "acknowledged" <=>
          \/ status[k] = "acknowledged"
          \/ (status[k] = "resolved" /\ trail[k] = WasAcknowledged)

\* engine.apply never overrides what a user decided: a suppressed row stays
\* suppressed, and an acknowledged one that was auto-resolved comes back
\* acknowledged (_previous_status_if_auto_resolved), for any number of passes.
DecisionSurvives == \A k \in Keys : Quiet(k) => Kept(k)

\* _auto_resolve never closes a problem that held when the scan looked, whatever
\* part of the network the scan covered and whether it broke down.
NoFalseResolve ==
    [][\A e \in Engines, k \in Keys : ResolveRow(e, k) => k \notin truth[e]]_vars

\* A finding whose problem is gone for good is closed sooner or later, as long as
\* complete scans go on being run and the passes stop failing (the two ways to leave
\* apply are the same step once nothing is left to do).
FixedProblemsResolve ==
    \A k \in Keys :
        /\ <>[][\A e \in Engines : AbortApply(e) => FinishApply(e)]_vars
        /\ <>[](\A e \in Engines : k \notin truth[e])
        => []<>(status[k] \notin Live)

\* docs/PLAYBOOKS.md: a suppressed finding is never auto-resolved.
SuppressedNeverAutoResolved ==
    [][\A e \in Engines, k \in Keys : ResolveRow(e, k) => status[k] # "suppressed"]_vars
==============================================================================
