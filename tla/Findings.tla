------------------------------ MODULE Findings ------------------------------
(***************************************************************************)
(* The findings engine (homesoc/findings/engine.py) and the part of the    *)
(* scan pipeline that drives it (homesoc/cli.py: effective_scope,          *)
(* apply_findings, housekeeping).                                          *)
(*                                                                         *)
(* Every database call of the program is atomic (db.py takes _WRITE_LOCK   *)
(* around one statement and its commit), a sequence of calls is not.  So   *)
(* each action below is one database call, and the scans (Engines: the     *)
(* scheduler's worker, a second process started from the command line),    *)
(* the people at the dashboard (Users) and the nightly retention job       *)
(* interleave between any two calls.                                       *)
(***************************************************************************)
EXTENDS Naturals, FiniteSets, SequencesExt

CONSTANTS
    Engines,     \* threads that can be inside engine.apply
    Users,       \* request threads that can be inside set_status / accept
    Keys,        \* dedupe keys: one row of `findings` each
    Sources,     \* scanner names, the `source` column
    SourceOf,    \* Keys -> Sources: every finding id has one emitter
    Subject,     \* Keys -> sequences of segments, "device:m1" = <<"device","m1">>
    Listing,     \* sources whose summary lists the scopes they completed
    Blanket,     \* Sources -> the scope run_step passes for that source
    NewDevice    \* keys of NET-DEV-001 rows

ASSUME FindingsAssumption ==
    /\ SourceOf \in [Keys -> Sources]
    /\ Listing \subseteq Sources
    /\ NewDevice \subseteq Keys
    /\ Engines \cap Users = {}
    /\ "none" \notin Keys

VARIABLES
    status,      \* findings.status per key, "none" while there is no row
    trail,       \* the newest row of finding_events per key
    pc,          \* where each engine is inside apply
    source,      \* apply's source argument
    drafts,      \* drafts still to upsert
    seen,        \* every key this pass reported
    scopes,      \* scopes still to auto-resolve
    cur,         \* the key of the row being upserted or resolved
    read,        \* the status the engine read for cur
    restored,    \* apply_one's `restored` is "acknowledged"
    rows,        \* auto_resolve's SELECT: status read per key, "none" if not in it
    truth,       \* history: the problems that held when the scan looked
    upc,         \* where each user is inside set_status or accept
    urows,       \* rows the user's call still has to write
    ucur,        \* the row whose event is not written yet
    target,      \* the status asked for
    decision,    \* history: the user's acknowledge or suppress in force
    raced        \* history: keys written inside somebody else's window

rowVars == <<status, trail>>
engVars == <<pc, source, drafts, seen, scopes, cur, read, restored, rows, truth>>
usrVars == <<upc, urows, ucur, target>>
vars    == <<rowVars, engVars, usrVars, decision, raced>>

Live        == {"open", "acknowledged"}
STATUSES    == Live \cup {"resolved", "suppressed"}
Event(e, n) == [event |-> e, note |-> n]
NoEvent     == Event("none", "none")
WasAcknowledged == Event("auto_resolved", "acknowledged")
Events      == [event : {"none", "opened", "reopened", "auto_resolved"} \cup STATUSES,
                note  : {"none", "restored"} \cup Live]
EngPcs      == {"idle", "draft", "trail", "insert", "opened", "update",
                "reopened", "resolve", "resolved"}
Subjects    == {Subject[k] : k \in Keys}
NoRows      == [k \in Keys |-> "none"]

-----------------------------------------------------------------------------
(* Which subjects a scope covers, and which scopes a scan may claim.       *)

\* Mutant: a scope covers only the subject it names.
MatchesExact(scope, subject) == scope.parts = subject

\* A scope ending in ":" is a raw prefix; any other one matches the subject
\* itself and its children.
Matches(scope, subject) ==
    /\ IsPrefix(scope.parts, subject)
    /\ scope.raw => Len(scope.parts) < Len(subject)

\* What a scanner promises: a clean run of one that lists no scopes looked
\* at everything or, with no targets, at nothing; one that lists them looked
\* at whole devices, each with its ports.
Whole(looked) == \A a \in looked, b \in Subjects : IsPrefix(a, b) \/ IsPrefix(b, a) => b \in looked

Results(s) ==
    {r \in [looked : SUBSET Subjects, error : BOOLEAN, partial : BOOLEAN] :
        \/ r.error \/ r.partial
        \/ IF s \in Listing THEN Whole(r.looked) ELSE r.looked \in {{}, Subjects}}

\* Mutant: a partial run claims its whole scope.
EffectiveScopeTrustsPartial(s, r) ==
    IF r.error THEN {} ELSE {Blanket[s]}

\* cli.effective_scope: what an incomplete run did not see is not gone.
EffectiveScope(s, r) ==
    IF r.error \/ r.partial THEN {}
    ELSE IF s \in Listing THEN {[parts |-> sub, raw |-> FALSE] : sub \in r.looked}
    ELSE IF r.looked = {} THEN {}
    ELSE {Blanket[s]}

-----------------------------------------------------------------------------
(* Windows.  What each actor has read and not yet acted on.                *)

\* The row of k is written and the event that belongs to it is not.
MidPair(a, k) ==
    \/ /\ a \in Engines
       /\ cur[a] = k /\ pc[a] \in {"opened", "reopened", "resolved"}
    \/ /\ a \in Users
       /\ ucur[a] = k /\ upc[a] = "event"

\* The engine read a resolved row and will reopen it.
Reopening(e, k) ==
    /\ cur[e] = k
    /\ pc[e] = "trail" \/ (pc[e] = "update" /\ read[e] = "resolved")

\* The engine read a row that was not resolved and will refresh it.
Refreshing(e, k) ==
    cur[e] = k /\ pc[e] = "update" /\ read[e] # "resolved"

\* Actor a writes status new to k's row, or an event for it, while another
\* actor's pending write depends on what that changes.
StatusRace(a, k, new) ==
    \/ \E b \in (Engines \cup Users) \ {a} : MidPair(b, k)
    \/ \E e \in Engines \ {a} :
          \/ Reopening(e, k) \/ rows[e][k] # "none"
          \/ (Refreshing(e, k) /\ new = "resolved")

EventRace(a, k) ==
    \/ \E b \in (Engines \cup Users) \ {a} : MidPair(b, k)
    \/ \E e \in Engines \ {a} : Reopening(e, k)

Mark(race, k) == raced' = IF race THEN raced \cup {k} ELSE raced

-----------------------------------------------------------------------------
Init ==
    /\ status = [k \in Keys |-> "none"]
    /\ trail = [k \in Keys |-> NoEvent]
    /\ pc = [e \in Engines |-> "idle"]
    /\ source = [e \in Engines |-> "none"]
    /\ drafts = [e \in Engines |-> {}]
    /\ seen = [e \in Engines |-> {}]
    /\ scopes = [e \in Engines |-> {}]
    /\ cur = [e \in Engines |-> "none"]
    /\ read = [e \in Engines |-> "none"]
    /\ restored = [e \in Engines |-> FALSE]
    /\ rows = [e \in Engines |-> NoRows]
    /\ truth = [e \in Engines |-> {}]
    /\ upc = [u \in Users |-> "idle"]
    /\ urows = [u \in Users |-> {}]
    /\ ucur = [u \in Users |-> "none"]
    /\ target = [u \in Users |-> "none"]
    /\ decision = [k \in Keys |-> "none"]
    /\ raced = {}

-----------------------------------------------------------------------------
(* engine.apply, one database call at a time.                              *)

Goto(e, label) == pc' = [pc EXCEPT ![e] = label]

\* The locals of _apply_one die with it.
Forget(e) ==
    /\ cur' = [cur EXCEPT ![e] = "none"]
    /\ read' = [read EXCEPT ![e] = "none"]
    /\ restored' = [restored EXCEPT ![e] = FALSE]

\* A scan of source s that looked while the conditions `held` were true ends
\* with result r, and apply_findings calls apply.
StartApply(e, s, r, held) ==
    /\ pc[e] = "idle"
    /\ LET found == {k \in held : SourceOf[k] = s /\ Subject[k] \in r.looked}
       IN  /\ drafts' = [drafts EXCEPT ![e] = found]
           /\ seen' = [seen EXCEPT ![e] = found]
    /\ source' = [source EXCEPT ![e] = s]
    /\ scopes' = [scopes EXCEPT ![e] = EffectiveScope(s, r)]
    /\ truth' = [truth EXCEPT ![e] = held]
    /\ Goto(e, "draft")
    /\ UNCHANGED <<rowVars, cur, read, restored, rows,
                   usrVars, decision, raced>>

\* _apply_one: SELECT id, status ... WHERE dedupe_key = ?
SelectRow(e, k) ==
    /\ pc[e] = "draft" /\ k \in drafts[e]
    /\ drafts' = [drafts EXCEPT ![e] = @ \ {k}]
    /\ cur' = [cur EXCEPT ![e] = k]
    /\ read' = [read EXCEPT ![e] = status[k]]
    /\ restored' = [restored EXCEPT ![e] = FALSE]
    /\ Goto(e, CASE status[k] = "none" -> "insert"
                 [] status[k] = "resolved" -> "trail"
                 [] OTHER -> "update")
    /\ UNCHANGED <<rowVars, source, seen, scopes, rows,
                   truth, usrVars, decision, raced>>

\* INSERT ... status 'open'; dedupe_key is UNIQUE.
InsertRow(e) ==
    LET k == cur[e] IN
    /\ pc[e] = "insert" /\ status[k] = "none"
    /\ status' = [status EXCEPT ![k] = "open"]
    /\ Mark(StatusRace(e, k, "open"), k)
    /\ Goto(e, "opened")
    /\ UNCHANGED <<trail, source, drafts, seen, scopes, cur, read,
                   restored, rows, truth, usrVars, decision>>

OpenedEvent(e) ==
    LET k == cur[e] IN
    /\ pc[e] = "opened"
    /\ trail' = [trail EXCEPT ![k] = Event("opened", "none")]
    /\ Mark(EventRace(e, k), k)
    /\ Goto(e, "draft") /\ Forget(e)
    /\ UNCHANGED <<status, source, drafts, seen, scopes, rows, truth, usrVars, decision>>

\* Mutant: the note of the last event is not looked at.
SelectTrailForgets(e) ==
    /\ pc[e] = "trail"
    /\ Goto(e, "update")
    /\ UNCHANGED <<rowVars, source, drafts, seen, scopes, cur, read,
                   restored, rows, truth, usrVars, decision, raced>>

\* _previous_status_if_auto_resolved
SelectTrail(e) ==
    /\ pc[e] = "trail"
    /\ restored' = [restored EXCEPT ![e] = trail[cur[e]] = WasAcknowledged]
    /\ Goto(e, "update")
    /\ UNCHANGED <<rowVars, source, drafts, seen, scopes, cur, read,
                   rows, truth, usrVars, decision, raced>>

\* Mutant: the event's name instead of the status it stands for.
NewStatusEventName(e) == IF restored[e] THEN "acknowledged" ELSE "reopened"

\* The status a reopened row gets.
NewStatus(e) == IF restored[e] THEN "acknowledged" ELSE "open"

\* Mutant: the new status is decided from the row as it was read.
UpdateRowFromRead(e) ==
    LET k == cur[e]
        st == IF read[e] = "resolved" THEN NewStatus(e) ELSE read[e]
    IN
    /\ pc[e] = "update"
    /\ status' = [status EXCEPT ![k] = st]
    /\ Mark(st # status[k] /\ StatusRace(e, k, st), k)
    /\ IF read[e] = "resolved"
          THEN Goto(e, "reopened") /\ UNCHANGED <<cur, read, restored>>
          ELSE Goto(e, "draft") /\ Forget(e)
    /\ UNCHANGED <<trail, source, drafts, seen, scopes, rows, truth, usrVars, decision>>

\* Mutant: a reopened row gets no event.
UpdateRowSilent(e) ==
    LET k == cur[e] IN
    /\ pc[e] = "update"
    /\ status' = [status EXCEPT ![k] = IF @ = "resolved" THEN NewStatus(e) ELSE @]
    /\ Goto(e, "draft") /\ Forget(e)
    /\ UNCHANGED <<trail, source, drafts, seen, scopes, rows, truth, usrVars, decision, raced>>

\* UPDATE ... status = CASE WHEN status='resolved' THEN new_status ELSE status END
UpdateRow(e) ==
    LET k == cur[e]
        st == IF status[k] = "resolved" THEN NewStatus(e) ELSE status[k]
    IN
    /\ pc[e] = "update"
    /\ status' = [status EXCEPT ![k] = st]
    /\ Mark(st # status[k] /\ StatusRace(e, k, st), k)
    /\ IF read[e] = "resolved"
          THEN Goto(e, "reopened") /\ UNCHANGED <<cur, read, restored>>
          ELSE Goto(e, "draft") /\ Forget(e)
    /\ UNCHANGED <<trail, source, drafts, seen, scopes, rows, truth, usrVars, decision>>

ReopenedEvent(e) ==
    LET k == cur[e] IN
    /\ pc[e] = "reopened"
    /\ trail' = [trail EXCEPT ![k] =
                    Event("reopened", IF restored[e] THEN "restored" ELSE "none")]
    /\ Mark(EventRace(e, k), k)
    /\ Goto(e, "draft") /\ Forget(e)
    /\ UNCHANGED <<status, source, drafts, seen, scopes, rows, truth, usrVars, decision>>

\* _auto_resolve: SELECT the live rows of this source in the scope, less `seen`.
SelectScope(e, scope) ==
    /\ pc[e] = "draft" /\ drafts[e] = {} /\ scope \in scopes[e]
    /\ LET gone == {k \in Keys \ seen[e] : /\ SourceOf[k] = source[e]
                                           /\ Matches(scope, Subject[k])
                                           /\ status[k] \in Live}
       IN  /\ rows' = [rows EXCEPT ![e] = [k \in Keys |-> IF k \in gone THEN status[k]
                                                          ELSE "none"]]
           /\ Goto(e, IF gone = {} THEN "draft" ELSE "resolve")
    /\ scopes' = [scopes EXCEPT ![e] = @ \ {scope}]
    /\ UNCHANGED <<rowVars, source, drafts, seen, cur, read,
                   restored, truth, usrVars, decision, raced>>

\* UPDATE findings SET status='resolved' WHERE id = ?: no guard on status.
ResolveRow(e, k) ==
    /\ pc[e] = "resolve" /\ rows[e][k] # "none"
    /\ status' = [status EXCEPT ![k] = "resolved"]
    /\ cur' = [cur EXCEPT ![e] = k]
    /\ read' = [read EXCEPT ![e] = rows[e][k]]
    /\ Mark(StatusRace(e, k, "resolved"), k)
    /\ Goto(e, "resolved")
    /\ UNCHANGED <<trail, source, drafts, seen, scopes, restored,
                   rows, truth, usrVars, decision>>

\* The event's note is the status the SELECT saw.
AutoResolvedEvent(e) ==
    LET k == cur[e]
        left == [rows[e] EXCEPT ![k] = "none"]
    IN
    /\ pc[e] = "resolved"
    /\ trail' = [trail EXCEPT ![k] = Event("auto_resolved", read[e])]
    /\ rows' = [rows EXCEPT ![e] = left]
    /\ Mark(EventRace(e, k), k)
    /\ Goto(e, IF left = NoRows THEN "draft" ELSE "resolve")
    /\ Forget(e)
    /\ UNCHANGED <<status, source, drafts, seen, scopes, truth, usrVars, decision>>

\* The engine's locals once it has left apply.
Leave(e) ==
    /\ Goto(e, "idle")
    /\ source' = [source EXCEPT ![e] = "none"]
    /\ drafts' = [drafts EXCEPT ![e] = {}]
    /\ seen' = [seen EXCEPT ![e] = {}]
    /\ scopes' = [scopes EXCEPT ![e] = {}]
    /\ Forget(e)
    /\ rows' = [rows EXCEPT ![e] = NoRows]
    /\ truth' = [truth EXCEPT ![e] = {}]

\* apply returns.
FinishApply(e) ==
    /\ pc[e] = "draft" /\ drafts[e] = {} /\ scopes[e] = {}
    /\ Leave(e)
    /\ UNCHANGED <<rowVars, usrVars, decision, raced>>

\* A database call raises (a UNIQUE conflict, a full disk) or the process
\* dies: the rest of the pass is lost.
AbortApply(e) ==
    /\ pc[e] # "idle"
    /\ Mark(MidPair(e, cur[e]), cur[e])
    /\ Leave(e)
    /\ UNCHANGED <<rowVars, usrVars, decision>>

-----------------------------------------------------------------------------
(* The people at the dashboard.                                            *)

\* set_status: rows are never deleted, so the existence check is the guard.
SetStatus(u, k, st) ==
    /\ upc[u] = "idle" /\ status[k] # "none"
    /\ urows' = [urows EXCEPT ![u] = {k}]
    /\ target' = [target EXCEPT ![u] = st]
    /\ upc' = [upc EXCEPT ![u] = "write"]
    /\ UNCHANGED <<rowVars, engVars, ucur, decision, raced>>

\* accept_new_device_findings: SELECT the unfinished NET-DEV-001 rows.
AcceptNewDevices(u) ==
    LET unfinished == {k \in NewDevice : status[k] \in Live} IN
    /\ upc[u] = "idle" /\ unfinished # {}
    /\ urows' = [urows EXCEPT ![u] = unfinished]
    /\ target' = [target EXCEPT ![u] = "resolved"]
    /\ upc' = [upc EXCEPT ![u] = "write"]
    /\ UNCHANGED <<rowVars, engVars, ucur, decision, raced>>

\* Of a user's statuses, the two a rescan must respect.
Decided(st) == IF st \in {"acknowledged", "suppressed"} THEN st ELSE "none"

\* UPDATE findings SET status = ?: an uncontended write starts k afresh.
UserUpdate(u, k) ==
    /\ upc[u] = "write" /\ k \in urows[u]
    /\ status' = [status EXCEPT ![k] = target[u]]
    /\ decision' = [decision EXCEPT ![k] = Decided(target[u])]
    /\ raced' = IF StatusRace(u, k, target[u]) THEN raced \cup {k} ELSE raced \ {k}
    /\ urows' = [urows EXCEPT ![u] = @ \ {k}]
    /\ ucur' = [ucur EXCEPT ![u] = k]
    /\ upc' = [upc EXCEPT ![u] = "event"]
    /\ UNCHANGED <<trail, engVars, target>>

UserEvent(u) ==
    LET k == ucur[u]
        name == IF target[u] = "open" THEN "reopened" ELSE target[u]
        done == urows[u] = {}
    IN
    /\ upc[u] = "event"
    /\ trail' = [trail EXCEPT ![k] = Event(name, "none")]
    /\ Mark(EventRace(u, k), k)
    /\ ucur' = [ucur EXCEPT ![u] = "none"]
    /\ target' = [target EXCEPT ![u] = IF done THEN "none" ELSE @]
    /\ upc' = [upc EXCEPT ![u] = IF done THEN "idle" ELSE "write"]
    /\ UNCHANGED <<status, engVars, urows, decision>>

\* The request fails between two of its calls.
AbortUser(u) ==
    /\ upc[u] # "idle"
    /\ Mark(MidPair(u, ucur[u]), ucur[u])
    /\ upc' = [upc EXCEPT ![u] = "idle"]
    /\ urows' = [urows EXCEPT ![u] = {}]
    /\ ucur' = [ucur EXCEPT ![u] = "none"]
    /\ target' = [target EXCEPT ![u] = "none"]
    /\ UNCHANGED <<rowVars, engVars, decision>>

\* cli.housekeeping: the events of a row resolved for the retention period.
\* That old, no write to the row is still in flight.
PurgeEvents(k) ==
    /\ status[k] = "resolved" /\ trail[k] # NoEvent
    /\ \A a \in Engines \cup Users : ~MidPair(a, k)
    /\ trail' = [trail EXCEPT ![k] = NoEvent]
    /\ decision' = [decision EXCEPT ![k] = "none"]
    /\ Mark(\E e \in Engines : Reopening(e, k), k)
    /\ UNCHANGED <<status, engVars, usrVars>>

-----------------------------------------------------------------------------
EngineStep(e) ==
    \/ \E k \in Keys : SelectRow(e, k)
    \/ InsertRow(e) \/ OpenedEvent(e) \/ SelectTrail(e) \/ UpdateRow(e) \/ ReopenedEvent(e)
    \/ \E scope \in scopes[e] : SelectScope(e, scope)
    \/ \E k \in Keys : ResolveRow(e, k)
    \/ AutoResolvedEvent(e) \/ FinishApply(e)

UserStep(u) == (\E k \in Keys : UserUpdate(u, k)) \/ UserEvent(u)

Next ==
    \/ \E k \in Keys : PurgeEvents(k)
    \/ \E e \in Engines :
          \/ \E s \in Sources : \E r \in Results(s), held \in SUBSET Keys :
                StartApply(e, s, r, held)
          \/ EngineStep(e) \/ AbortApply(e)
    \/ \E u \in Users :
          \/ \E k \in Keys, st \in STATUSES : SetStatus(u, k, st)
          \/ AcceptNewDevices(u) \/ UserStep(u) \/ AbortUser(u)

Spec == Init /\ [][Next]_vars

\* The scheduler runs every scan again and again and some of those runs look at
\* everything (strong fairness: an incomplete run can always come first); a thread
\* inside apply goes on.
CompleteScan(e, s) ==
    \E held \in SUBSET Keys :
        StartApply(e, s, [looked |-> Subjects, error |-> FALSE, partial |-> FALSE], held)

FairSpec ==
    /\ Spec
    /\ \A e \in Engines : WF_vars(EngineStep(e)) /\ \A s \in Sources : SF_vars(CompleteScan(e, s))
=============================================================================
