--------------------------- MODULE FindingsProofs ---------------------------
(***************************************************************************)
(* The findings engine keeps its audit trail and the user's decisions, for *)
(* any number of scanning threads, users, keys and scopes; and every new   *)
(* device is asked about, reported and answered, for any number of hosts,  *)
(* runs of discovery, owners and channels (NewDevices, whose questions go  *)
(* through the engine).                                                    *)
(***************************************************************************)
EXTENDS FindingsProps, NewDevicesProps, SequenceTheorems, WellFoundedInduction, TLAPS

Holding == {"trail", "insert", "opened", "update", "reopened", "resolved"}

\* An actor inside a call knows its row; an engine holds selected rows only
\* while it resolves them.
LocalInv ==
    /\ \A e \in Engines :
          /\ IF pc[e] \in Holding THEN cur[e] \in Keys ELSE cur[e] = "none"
          /\ pc[e] = "trail" => read[e] = "resolved"
          /\ pc[e] \notin {"resolve", "resolved"} => rows[e] = NoRows
          /\ pc[e] = "resolved" => read[e] \in Live /\ rows[e][cur[e]] # "none"
          /\ pc[e] = "reopened" => read[e] = "resolved"
    /\ \A u \in Users :
          /\ IF upc[u] = "event" THEN ucur[u] \in Keys ELSE ucur[u] = "none"
          /\ upc[u] # "idle" => target[u] \in STATUSES

NoMid(k) == \A a \in Engines \cup Users : ~MidPair(a, k)

\* What the engine read of k is still so.
ReadsHold(k) ==
    \A e \in Engines :
        /\ Reopening(e, k) => status[k] = "resolved"
        /\ Refreshing(e, k) => status[k] # "resolved"
        /\ rows[e][k] # "none" /\ ~MidPair(e, k) => status[k] = rows[e][k]
        /\ Reopening(e, k) /\ pc[e] = "update" /\ NoMid(k)
              => (restored[e] <=> trail[k] = WasAcknowledged)

\* Between a row's UPDATE and its event, the writer's locals tell the decision.
EngineMid(e, k) == cur[e] = k =>
    /\ pc[e] = "opened" => status[k] = "open" /\ decision[k] = "none"
    /\ pc[e] = "reopened" => status[k] = NewStatus(e) /\ decision[k] = Decided(NewStatus(e))
    /\ pc[e] = "resolved" => status[k] = "resolved" /\ decision[k] = Decided(read[e])
UserMid(u, k) == ucur[u] = k /\ upc[u] = "event" =>
    status[k] = target[u] /\ decision[k] = Decided(target[u])

MidHolds(k) ==
    /\ \A a, b \in Engines \cup Users : MidPair(a, k) /\ MidPair(b, k) => a = b
    /\ \A e \in Engines : EngineMid(e, k)
    /\ \A u \in Users : UserMid(u, k)

KeyInv(k) == ReadsHold(k) /\ MidHolds(k) /\ (NoMid(k) => Agree(status[k], trail[k]) /\ Kept(k))

IInv == TypeOK /\ LocalInv /\ \A k \in Keys \ raced : KeyInv(k)

Local == TypeOK /\ LocalInv

LEMMA LocalInit == Init => Local
BY FindingsAssumption, SMTT(30) DEF Init, Local, TypeOK, LocalInv, Holding, NoRows, NoEvent, Event, Events,
    STATUSES, Live, EngPcs

LEMMA LocalStep == Local /\ [Next]_vars => Local'
<1> SUFFICES ASSUME Local, [Next]_vars PROVE Local'
    OBVIOUS
<1> USE DEF Local, LocalInv, TypeOK, Holding, Goto, Forget, Mark, NoRows, Live, STATUSES, EngPcs,
        Event, Events, NoEvent, rowVars, engVars, usrVars
<1>1. ASSUME NEW e \in Engines, NEW s \in Sources, NEW r \in Results(s), NEW held \in SUBSET Keys,
             StartApply(e, s, r, held)
      PROVE Local'
    BY <1>1 DEF StartApply
<1>2. ASSUME NEW e \in Engines, NEW k \in Keys, SelectRow(e, k) PROVE Local'
    BY <1>2 DEF SelectRow
<1>3. ASSUME NEW e \in Engines, InsertRow(e) PROVE Local'
    BY <1>3 DEF InsertRow
<1>4. ASSUME NEW e \in Engines, OpenedEvent(e) PROVE Local'
    BY <1>4 DEF OpenedEvent
<1>5. ASSUME NEW e \in Engines, SelectTrail(e) PROVE Local'
    BY <1>5 DEF SelectTrail
<1>6. ASSUME NEW e \in Engines, UpdateRow(e) PROVE Local'
    <2> DEFINE st == IF status[cur[e]] = "resolved" THEN NewStatus(e) ELSE status[cur[e]]
    <2>1. cur[e] \in Keys /\ st \in STATUSES \cup {"none"}
        BY <1>6 DEF UpdateRow, NewStatus
    <2>2. raced' \subseteq Keys
        BY <1>6, <2>1 DEF UpdateRow
    <2>3. status' \in [Keys -> STATUSES \cup {"none"}]
        BY <1>6, <2>1 DEF UpdateRow
    <2>4. /\ pc[e] = "update"
          /\ UNCHANGED <<trail, source, drafts, seen, scopes, rows, truth, usrVars, decision>>
        BY <1>6 DEF UpdateRow
    <2>5. CASE read[e] = "resolved"
        <3>1. Goto(e, "reopened") /\ UNCHANGED <<cur, read, restored>>
            BY <1>6, <2>5 DEF UpdateRow
        <3> QED BY <2>1, <2>2, <2>3, <2>4, <2>5, <3>1
    <2>6. CASE read[e] # "resolved"
        <3>1. Goto(e, "draft") /\ Forget(e)
            BY <1>6, <2>6 DEF UpdateRow
        <3> QED BY <2>2, <2>3, <2>4, <3>1
    <2> QED BY <2>5, <2>6
<1>7. ASSUME NEW e \in Engines, ReopenedEvent(e) PROVE Local'
    BY <1>7 DEF ReopenedEvent
<1>8. ASSUME NEW e \in Engines, NEW scope \in scopes[e], SelectScope(e, scope) PROVE Local'
    BY <1>8 DEF SelectScope
<1>9. ASSUME NEW e \in Engines, NEW k \in Keys, ResolveRow(e, k) PROVE Local'
    BY <1>9 DEF ResolveRow
<1>10. ASSUME NEW e \in Engines, AutoResolvedEvent(e) PROVE Local'
    BY <1>10 DEF AutoResolvedEvent
<1>11. ASSUME NEW e \in Engines, FinishApply(e) PROVE Local'
    BY <1>11 DEF FinishApply, Leave
<1>12. ASSUME NEW e \in Engines, AbortApply(e) PROVE Local'
    BY <1>12 DEF AbortApply, Leave, MidPair
<1>13. ASSUME NEW u \in Users, NEW k \in Keys, NEW st \in STATUSES, SetStatus(u, k, st)
       PROVE Local'
    BY <1>13 DEF SetStatus
<1>14. ASSUME NEW u \in Users, AcceptNewDevices(u) PROVE Local'
    BY <1>14, FindingsAssumption DEF AcceptNewDevices
<1>15. ASSUME NEW u \in Users, NEW k \in Keys, UserUpdate(u, k) PROVE Local'
    BY <1>15 DEF UserUpdate, Decided
<1>16. ASSUME NEW u \in Users, UserEvent(u) PROVE Local'
    BY <1>16 DEF UserEvent
<1>17. ASSUME NEW u \in Users, AbortUser(u) PROVE Local'
    BY <1>17, FindingsAssumption DEF AbortUser, MidPair
<1>18. ASSUME NEW k \in Keys, PurgeEvents(k) PROVE Local'
    BY <1>18 DEF PurgeEvents
<1>19. CASE UNCHANGED vars
    BY <1>19 DEF vars
<1> QED
    BY <1>1, <1>2, <1>3, <1>4, <1>5, <1>6, <1>7, <1>8, <1>9, <1>10, <1>11, <1>12, <1>13, <1>14,
       <1>15, <1>16, <1>17, <1>18, <1>19 DEF Next, EngineStep, UserStep


\* An actor's dealings with k do not change, or end before its event is due.
EngSame(e, k) == /\ cur'[e] = cur[e] /\ pc'[e] = pc[e] /\ read'[e] = read[e]
                 /\ restored'[e] = restored[e] /\ rows'[e][k] = rows[e][k]
EngAway(e, k) == ~MidPair(e, k) /\ cur'[e] # k /\ rows'[e][k] \in {rows[e][k], "none"}
UsrSame(u, k) == ucur'[u] = ucur[u] /\ upc'[u] = upc[u] /\ target'[u] = target[u]
UsrAway(u, k) == ~(ucur[u] = k /\ upc[u] = "event") /\ ucur'[u] # k
RowSame(k)    == status'[k] = status[k] /\ trail'[k] = trail[k] /\ decision'[k] = decision[k]

LEMMA Frame ==
    ASSUME NEW k \in Keys, KeyInv(k), RowSame(k),
           \A e \in Engines : EngSame(e, k) \/ EngAway(e, k),
           \A u \in Users : UsrSame(u, k) \/ UsrAway(u, k)
    PROVE  KeyInv(k)'
<1> USE FindingsAssumption DEF RowSame
<1>1. ASSUME NEW a \in Engines \cup Users PROVE MidPair(a, k)' <=> MidPair(a, k)
    BY DEF MidPair, EngSame, EngAway, UsrSame, UsrAway
<1>2. NoMid(k)' <=> NoMid(k)
    BY <1>1 DEF NoMid
<1>3. ReadsHold(k)'
    BY <1>1, <1>2 DEF KeyInv, ReadsHold, EngSame, EngAway, Reopening, Refreshing, WasAcknowledged
<1>4. MidHolds(k)'
    <2>1. \A a, b \in Engines \cup Users : MidPair(a, k)' /\ MidPair(b, k)' => a = b
        BY <1>1 DEF KeyInv, MidHolds
    <2>2. ASSUME NEW e \in Engines, cur'[e] = k PROVE EngSame(e, k)
        BY <2>2 DEF EngAway
    <2>3. ASSUME NEW u \in Users, ucur'[u] = k PROVE UsrSame(u, k)
        BY <2>3 DEF UsrAway
    <2> QED BY <2>1, <2>2, <2>3
            DEF KeyInv, MidHolds, EngineMid, UserMid, EngSame, UsrSame, NewStatus, Decided
<1>5. NoMid(k)' => Agree(status[k], trail[k])' /\ Kept(k)'
    BY <1>2 DEF KeyInv, Agree, Kept, WasAcknowledged
<1> QED BY <1>3, <1>4, <1>5 DEF KeyInv

\* Every actor but a leaves its dealings with k as they were.
Others(a, k) ==
    /\ \A e \in Engines \ {a} : EngSame(e, k)
    /\ \A u \in Users \ {a} : UsrSame(u, k)

LEMMA OthersSame ==
    ASSUME NEW k \in Keys, NEW a, Others(a, k)
    PROVE  /\ \A b \in (Engines \cup Users) \ {a} : MidPair(b, k)' <=> MidPair(b, k)
           /\ \A e \in Engines \ {a} : /\ Reopening(e, k)' <=> Reopening(e, k)
                                       /\ Refreshing(e, k)' <=> Refreshing(e, k)
                                       /\ rows'[e][k] = rows[e][k]
                                       /\ restored'[e] = restored[e]
BY FindingsAssumption DEF Others, EngSame, UsrSame, MidPair, Reopening, Refreshing

\* Actor a has written the row of k, raced nobody, and owes its event.
LEMMA RowWritten ==
    ASSUME NEW k \in Keys, NEW a \in Engines \cup Users, Others(a, k),
           ~StatusRace(a, k, status'[k]), MidPair(a, k)',
           a \in Engines => EngineMid(a, k)',
           a \in Users => UserMid(a, k)'
    PROVE  KeyInv(k)'
<1> USE FindingsAssumption
<1>1. \A b \in (Engines \cup Users) \ {a} : ~MidPair(b, k)'
    BY OthersSame DEF StatusRace
<1>2. \A e \in Engines \ {a} : /\ ~Reopening(e, k)' /\ rows'[e][k] = "none"
                               /\ Refreshing(e, k)' => status'[k] # "resolved"
    BY OthersSame DEF StatusRace
<1>3. a \in Engines => ~Reopening(a, k)' /\ ~Refreshing(a, k)'
    BY DEF MidPair, Reopening, Refreshing
<1>4. ReadsHold(k)'
    BY <1>2, <1>3 DEF ReadsHold
<1>5. MidHolds(k)'
    <2>1. \A e \in Engines : EngineMid(e, k)'
        BY <1>1 DEF EngineMid, MidPair
    <2>2. \A u \in Users : UserMid(u, k)'
        BY <1>1 DEF UserMid, MidPair
    <2> QED BY <1>1, <2>1, <2>2 DEF MidHolds
<1>6. ~NoMid(k)'
    BY DEF NoMid
<1> QED BY <1>4, <1>5, <1>6 DEF KeyInv

\* Actor a has written the event it owed for k and raced nobody.
LEMMA EventWritten ==
    ASSUME NEW k \in Keys, NEW a \in Engines \cup Users, Others(a, k), KeyInv(k),
           MidPair(a, k), ~EventRace(a, k), ~MidPair(a, k)',
           status'[k] = status[k], decision'[k] = decision[k],
           a \in Engines => cur'[a] = "none" /\ rows'[a][k] = "none",
           a \in Users => ucur'[a] = "none",
           Agree(status[k], trail[k])', Kept(k)'
    PROVE  KeyInv(k)'
<1> USE FindingsAssumption
<1>1. \A b \in Engines \cup Users : ~MidPair(b, k)'
    BY OthersSame DEF EventRace
<1>2. \A e \in Engines \ {a} : ~Reopening(e, k)'
    BY OthersSame DEF EventRace
<1>3. a \in Engines => ~Reopening(a, k)' /\ ~Refreshing(a, k)'
    BY DEF Reopening, Refreshing
<1>4. ReadsHold(k)'
    BY OthersSame, <1>1, <1>2, <1>3 DEF ReadsHold, KeyInv
<1>5. MidHolds(k)'
    BY <1>1 DEF MidHolds, EngineMid, UserMid, MidPair
<1> QED BY <1>4, <1>5 DEF KeyInv

\* Engine e has only read: the row of k is as it was.
LEMMA Untouched ==
    ASSUME NEW k \in Keys, NEW e \in Engines, Others(e, k), RowSame(k), KeyInv(k),
           ~MidPair(e, k), ~MidPair(e, k)',
           Reopening(e, k)' => /\ status'[k] = "resolved"
                               /\ pc'[e] = "trail" \/ (restored'[e] <=> trail'[k] = WasAcknowledged),
           Refreshing(e, k)' => status'[k] # "resolved",
           rows'[e][k] \in {rows[e][k], "none"} \/ rows'[e][k] = status'[k]
    PROVE  KeyInv(k)'
<1> USE FindingsAssumption DEF RowSame
<1>1. \A b \in Engines \cup Users : MidPair(b, k)' <=> MidPair(b, k)
    BY OthersSame
<1>2. NoMid(k)' <=> NoMid(k)
    BY <1>1 DEF NoMid
<1>3. ReadsHold(k)'
    <2> SUFFICES ASSUME NEW b \in Engines
                 PROVE  /\ Reopening(b, k)' => status'[k] = "resolved"
                        /\ Refreshing(b, k)' => status'[k] # "resolved"
                        /\ rows'[b][k] # "none" /\ ~MidPair(b, k)' => status'[k] = rows'[b][k]
                        /\ Reopening(b, k)' /\ pc'[b] = "update" /\ NoMid(k)'
                              => (restored'[b] <=> trail'[k] = WasAcknowledged)
        BY DEF ReadsHold, WasAcknowledged
    <2>1. /\ Reopening(b, k) => status[k] = "resolved"
          /\ Refreshing(b, k) => status[k] # "resolved"
          /\ rows[b][k] # "none" /\ ~MidPair(b, k) => status[k] = rows[b][k]
          /\ Reopening(b, k) /\ pc[b] = "update" /\ NoMid(k)
                => (restored[b] <=> trail[k] = WasAcknowledged)
        BY DEF KeyInv, ReadsHold
    <2>2. CASE b = e
        BY <2>1, <2>2
    <2>3. CASE b # e
        <3>1. /\ Reopening(b, k)' <=> Reopening(b, k)
              /\ Refreshing(b, k)' <=> Refreshing(b, k)
              /\ rows'[b][k] = rows[b][k] /\ restored'[b] = restored[b] /\ pc'[b] = pc[b]
            <4>1. pc'[b] = pc[b]
                BY <2>3, Zenon DEF Others, EngSame
            <4>2. b \in Engines \ {e}
                BY <2>3
            <4> QED BY <4>1, <4>2, OthersSame, Zenon
        <3>2. MidPair(b, k)' <=> MidPair(b, k)
            BY <1>1
        <3>3. status'[k] = status[k] /\ trail'[k] = trail[k]
            OBVIOUS
        <3>4. Reopening(b, k)' => status'[k] = "resolved"
            BY <2>1, <3>1, <3>3, Zenon
        <3>5. Refreshing(b, k)' => status'[k] # "resolved"
            BY <2>1, <3>1, <3>3, Zenon
        <3>6. rows'[b][k] # "none" /\ ~MidPair(b, k)' => status'[k] = rows'[b][k]
            BY <2>1, <3>1, <3>2, <3>3, Zenon
        <3>7. Reopening(b, k)' /\ pc'[b] = "update" /\ NoMid(k)'
                => (restored'[b] <=> trail'[k] = WasAcknowledged)
            BY <1>2, <2>1, <3>1, <3>3, Zenon DEF WasAcknowledged
        <3> QED BY <3>4, <3>5, <3>6, <3>7
    <2> QED BY <2>2, <2>3
<1>4. MidHolds(k)'
    <2>1. \A b \in Engines : EngineMid(b, k)'
        BY <1>1 DEF KeyInv, MidHolds, EngineMid, MidPair, Others, EngSame, NewStatus, Decided
    <2>2. \A u \in Users : UserMid(u, k)'
        BY DEF KeyInv, MidHolds, UserMid, Others, UsrSame, Decided
    <2> QED BY <1>1, <2>1, <2>2 DEF KeyInv, MidHolds
<1>5. NoMid(k)' => Agree(status[k], trail[k])' /\ Kept(k)'
    BY <1>2 DEF KeyInv, Agree, Kept, WasAcknowledged
<1> QED BY <1>3, <1>4, <1>5 DEF KeyInv

\* An engine that is to write k's row and races nobody finds the pair complete.
LEMMA AloneKept ==
    ASSUME NEW k \in Keys, NEW e \in Engines, NEW new, KeyInv(k),
           ~MidPair(e, k), ~StatusRace(e, k, new)
    PROVE  Agree(status[k], trail[k]) /\ Kept(k)
BY DEF KeyInv, NoMid, StatusRace

LEMMA KeyStep ==
    ASSUME Local, \A k \in Keys \ raced : KeyInv(k), [Next]_vars, Local',
           NEW k \in Keys, k \notin raced'
    PROVE  KeyInv(k)'
<1> USE FindingsAssumption DEF Local, rowVars, engVars, usrVars
<1> DEFINE Before == k \notin raced => KeyInv(k)
           Elsewhere == /\ \A e \in Engines : EngSame(e, k) \/ EngAway(e, k)
                        /\ \A u \in Users : UsrSame(u, k) \/ UsrAway(u, k)
<1>0. Before
    OBVIOUS
<1>f. k \notin raced /\ RowSame(k) /\ Elsewhere => KeyInv(k)'
    BY <1>0, Frame
<1>g. ASSUME NEW e \in Engines, k \notin raced, RowSame(k), Others(e, k), EngAway(e, k)
      PROVE  KeyInv(k)'
    BY <1>0, <1>g, Frame DEF Others
<1> USE DEF Mark, Goto, Forget
<1> HIDE DEF Before, Elsewhere
<1>1. ASSUME NEW e \in Engines, NEW s \in Sources, NEW r \in Results(s), NEW held \in SUBSET Keys,
             StartApply(e, s, r, held)
      PROVE KeyInv(k)'
    BY <1>1, <1>f DEF StartApply, Elsewhere, RowSame, EngSame, EngAway, UsrSame, MidPair, LocalInv,
       Holding, TypeOK
<1>2. ASSUME NEW e \in Engines, NEW j \in Keys, SelectRow(e, j) PROVE KeyInv(k)'
    <2>1. CASE j # k
        <3>1. k \notin raced /\ RowSame(k)
            BY <1>2, <2>1 DEF SelectRow, RowSame, TypeOK
        <3>2. Others(e, k)
            BY <1>2, <2>1 DEF SelectRow, Others, EngSame, UsrSame, TypeOK
        <3>3. EngAway(e, k)
            BY <1>2, <2>1 DEF SelectRow, EngAway, MidPair, TypeOK
        <3> QED BY <3>1, <3>2, <3>3, <1>g
    <2>2. CASE j = k
        <3>1. KeyInv(k)
            BY <1>0, <1>2 DEF Before, SelectRow
        <3>2. /\ Others(e, k) /\ RowSame(k) /\ ~MidPair(e, k) /\ ~MidPair(e, k)'
              /\ rows'[e][k] = rows[e][k]
            BY <1>2, <2>2 DEF SelectRow, Others, EngSame, UsrSame, RowSame, MidPair, TypeOK
        <3>3. /\ Reopening(e, k)' => status'[k] = "resolved" /\ pc'[e] = "trail"
              /\ Refreshing(e, k)' => status'[k] # "resolved"
            BY <1>2, <2>2 DEF SelectRow, Reopening, Refreshing, TypeOK
        <3> QED BY <3>1, <3>2, <3>3, Untouched
    <2> QED BY <2>1, <2>2
<1>3. ASSUME NEW e \in Engines, InsertRow(e) PROVE KeyInv(k)'
    <2>1. CASE cur[e] # k
        <3>1. k \notin raced /\ RowSame(k)
            BY <1>3, <2>1 DEF InsertRow, RowSame, TypeOK
        <3>2. Others(e, k)
            BY <1>3, <2>1 DEF InsertRow, Others, EngSame, UsrSame, TypeOK
        <3>3. EngAway(e, k)
            BY <1>3, <2>1 DEF InsertRow, EngAway, MidPair, TypeOK
        <3> QED BY <3>1, <3>2, <3>3, <1>g
    <2>2. CASE cur[e] = k
        <3>1. KeyInv(k) /\ ~StatusRace(e, k, status'[k])
            BY <1>0, <1>3, <2>2 DEF Before, InsertRow, TypeOK
        <3>2. Others(e, k) /\ MidPair(e, k)' /\ ~MidPair(e, k)
            BY <1>3, <2>2 DEF InsertRow, Others, EngSame, UsrSame, MidPair, TypeOK
        <3>3. decision[k] = "none"
            BY <1>3, <2>2, <3>1, <3>2, AloneKept DEF InsertRow, Kept, TypeOK
        <3>4. EngineMid(e, k)'
            BY <1>3, <2>2, <3>3 DEF InsertRow, EngineMid, TypeOK
        <3> QED BY <3>1, <3>2, <3>4, RowWritten
    <2> QED BY <2>1, <2>2
<1>4. ASSUME NEW e \in Engines, OpenedEvent(e) PROVE KeyInv(k)'
    <2>1. CASE cur[e] # k
        <3>1. k \notin raced /\ RowSame(k)
            BY <1>4, <2>1 DEF OpenedEvent, RowSame, TypeOK
        <3>2. Others(e, k)
            BY <1>4, <2>1 DEF OpenedEvent, Others, EngSame, UsrSame, TypeOK
        <3>3. EngAway(e, k)
            BY <1>4, <2>1 DEF OpenedEvent, EngAway, MidPair, TypeOK
        <3> QED BY <3>1, <3>2, <3>3, <1>g
    <2>2. CASE cur[e] = k
        <3>1. KeyInv(k) /\ ~EventRace(e, k)
            BY <1>0, <1>4, <2>2 DEF Before, OpenedEvent
        <3>2. /\ Others(e, k) /\ MidPair(e, k) /\ ~MidPair(e, k)'
              /\ cur'[e] = "none" /\ rows'[e][k] = "none"
              /\ status'[k] = status[k] /\ decision'[k] = decision[k]
              /\ trail'[k] = Event("opened", "none")
            BY <1>4, <2>2 DEF OpenedEvent, Others, EngSame, UsrSame, MidPair, TypeOK, LocalInv,
               NoRows
        <3>3. status[k] = "open" /\ decision[k] = "none"
            BY <1>4, <2>2, <3>1 DEF OpenedEvent, KeyInv, MidHolds, EngineMid
        <3>4. Agree(status[k], trail[k])' /\ Kept(k)'
            BY <3>2, <3>3 DEF Agree, Kept
        <3> QED BY <3>1, <3>2, <3>4, EventWritten
    <2> QED BY <2>1, <2>2
<1>5. ASSUME NEW e \in Engines, SelectTrail(e) PROVE KeyInv(k)'
    <2>1. CASE cur[e] # k
        <3>1. k \notin raced /\ RowSame(k)
            BY <1>5, <2>1 DEF SelectTrail, RowSame, TypeOK
        <3>2. Others(e, k)
            BY <1>5, <2>1 DEF SelectTrail, Others, EngSame, UsrSame, TypeOK
        <3>3. EngAway(e, k)
            BY <1>5, <2>1 DEF SelectTrail, EngAway, MidPair, TypeOK
        <3> QED BY <3>1, <3>2, <3>3, <1>g
    <2>2. CASE cur[e] = k
        <3>1. KeyInv(k)
            BY <1>0, <1>5 DEF Before, SelectTrail
        <3>2. /\ Others(e, k) /\ RowSame(k) /\ ~MidPair(e, k) /\ ~MidPair(e, k)'
              /\ rows'[e][k] = rows[e][k]
            BY <1>5, <2>2 DEF SelectTrail, Others, EngSame, UsrSame, RowSame, MidPair, TypeOK
        <3>3. Reopening(e, k) /\ ~Refreshing(e, k)'
            BY <1>5, <2>2 DEF SelectTrail, Reopening, Refreshing, LocalInv, TypeOK
        <3>4. /\ status'[k] = "resolved"
              /\ restored'[e] <=> trail'[k] = WasAcknowledged
            <4>1. status[k] = "resolved"
                BY <3>1, <3>3 DEF KeyInv, ReadsHold
            <4>2. restored'[e] = (trail[k] = WasAcknowledged) /\ UNCHANGED <<status, trail>>
                BY <1>5, <2>2 DEF SelectTrail, TypeOK
            <4> QED BY <4>1, <4>2
        <3>5. rows'[e][k] \in {rows[e][k], "none"}
            BY <3>2
        <3> HIDE DEF RowSame
        <3> QED BY <3>1, <3>2, <3>3, <3>4, <3>5, Untouched
    <2> QED BY <2>1, <2>2
<1>6. ASSUME NEW e \in Engines, UpdateRow(e) PROVE KeyInv(k)'
    <2>0. cur[e] \in Keys /\ pc[e] = "update" /\ rows[e][cur[e]] = "none" /\ UNCHANGED rows
        BY <1>6 DEF UpdateRow, LocalInv, Holding, NoRows
    <2>1. CASE cur[e] # k
        <3>1. /\ ~MidPair(e, k) /\ cur'[e] # k /\ RowSame(k) /\ k \notin raced
              /\ \A b \in Engines \ {e} : EngSame(b, k)
              /\ \A u \in Users : UsrSame(u, k)
            <4>1. CASE read[e] = "resolved"
                BY <1>6, <2>0, <2>1, <4>1 DEF UpdateRow, RowSame, EngSame, UsrSame, MidPair, TypeOK
            <4>2. CASE read[e] # "resolved"
                BY <1>6, <2>0, <2>1, <4>2 DEF UpdateRow, RowSame, EngSame, UsrSame, MidPair, TypeOK
            <4> QED BY <4>1, <4>2
        <3> QED BY <2>0, <3>1, <1>f DEF Elsewhere, EngAway
    <2>2. CASE cur[e] = k /\ read[e] = "resolved"
        <3>1. KeyInv(k)
            BY <1>0, <1>6 DEF Before, UpdateRow
        <3>2. Reopening(e, k) /\ ~MidPair(e, k) /\ MidPair(e, k)' /\ Others(e, k)
            BY <1>6, <2>0, <2>2 DEF UpdateRow, Reopening, MidPair, Others, EngSame, UsrSame, TypeOK
        <3>3. status[k] = "resolved"
            BY <3>1, <3>2 DEF KeyInv, ReadsHold
        <3>4. /\ status'[k] = NewStatus(e) /\ NewStatus(e) # "resolved"
              /\ pc'[e] = "reopened" /\ UNCHANGED <<restored, decision>>
            BY <1>6, <2>0, <2>2, <3>3 DEF UpdateRow, NewStatus, TypeOK
        <3>5. ~StatusRace(e, k, status'[k])
            BY <1>6, <2>0, <2>2, <3>3, <3>4 DEF UpdateRow
        <3>6. NoMid(k)
            BY <3>2, <3>5 DEF NoMid, StatusRace
        <3>7. restored[e] <=> trail[k] = WasAcknowledged
            BY <3>1, <3>2, <3>6, <2>0 DEF KeyInv, ReadsHold
        <3>8. decision[k] = Decided(NewStatus(e))
            BY <3>1, <3>3, <3>6, <3>7 DEF KeyInv, Kept, Decided, NewStatus, TypeOK
        <3>9. EngineMid(e, k)'
            BY <3>4, <3>8 DEF EngineMid, NewStatus, Decided
        <3> QED BY <3>2, <3>5, <3>9, RowWritten
    <2>3. CASE cur[e] = k /\ read[e] # "resolved"
        <3>1. KeyInv(k)
            BY <1>0, <1>6 DEF Before, UpdateRow
        <3>2. Refreshing(e, k)
            BY <2>0, <2>3 DEF Refreshing
        <3>3. status[k] # "resolved"
            BY <3>1, <3>2 DEF KeyInv, ReadsHold
        <3>4. RowSame(k) /\ k \notin raced
            BY <1>6, <2>3, <3>3 DEF UpdateRow, RowSame, TypeOK
        <3>5. /\ ~MidPair(e, k) /\ cur'[e] # k
              /\ \A b \in Engines \ {e} : EngSame(b, k)
              /\ \A u \in Users : UsrSame(u, k)
            BY <1>6, <2>0, <2>3 DEF UpdateRow, EngSame, UsrSame, MidPair, TypeOK
        <3> QED BY <2>0, <3>4, <3>5, <1>f DEF Elsewhere, EngAway
    <2> QED BY <2>1, <2>2, <2>3
<1>7. ASSUME NEW e \in Engines, ReopenedEvent(e) PROVE KeyInv(k)'
    <2>1. CASE cur[e] # k
        <3>1. k \notin raced /\ RowSame(k)
            BY <1>7, <2>1 DEF ReopenedEvent, RowSame, TypeOK
        <3>2. Others(e, k)
            BY <1>7, <2>1 DEF ReopenedEvent, Others, EngSame, UsrSame, TypeOK
        <3>3. EngAway(e, k)
            BY <1>7, <2>1 DEF ReopenedEvent, EngAway, MidPair, TypeOK
        <3> QED BY <3>1, <3>2, <3>3, <1>g
    <2>2. CASE cur[e] = k
        <3>1. KeyInv(k) /\ ~EventRace(e, k)
            BY <1>0, <1>7, <2>2 DEF Before, ReopenedEvent
        <3>2. /\ Others(e, k) /\ MidPair(e, k) /\ ~MidPair(e, k)'
              /\ cur'[e] = "none" /\ rows'[e][k] = "none"
              /\ status'[k] = status[k] /\ decision'[k] = decision[k]
              /\ trail'[k] = Event("reopened", IF restored[e] THEN "restored" ELSE "none")
            BY <1>7, <2>2 DEF ReopenedEvent, Others, EngSame, UsrSame, MidPair, TypeOK, LocalInv,
               NoRows
        <3>3. status[k] = NewStatus(e) /\ decision[k] = Decided(NewStatus(e))
            BY <1>7, <2>2, <3>1 DEF ReopenedEvent, KeyInv, MidHolds, EngineMid
        <3>4. Agree(status[k], trail[k])' /\ Kept(k)'
            BY <3>2, <3>3 DEF Agree, Kept, NewStatus, Decided
        <3> QED BY <3>1, <3>2, <3>4, EventWritten
    <2> QED BY <2>1, <2>2
<1>8. ASSUME NEW e \in Engines, NEW scope \in scopes[e], SelectScope(e, scope) PROVE KeyInv(k)'
    <2>1. KeyInv(k)
        BY <1>0, <1>8 DEF Before, SelectScope
    <2>2. /\ Others(e, k) /\ RowSame(k) /\ ~MidPair(e, k) /\ ~MidPair(e, k)'
          /\ ~Reopening(e, k)' /\ ~Refreshing(e, k)'
        BY <1>8 DEF SelectScope, Others, EngSame, UsrSame, RowSame, MidPair, Reopening, Refreshing,
           TypeOK, LocalInv, Holding
    <2>3. rows'[e][k] # "none" => status'[k] = rows'[e][k]
        BY <1>8 DEF SelectScope, TypeOK
    <2> QED BY <2>1, <2>2, <2>3, Untouched
<1>9. ASSUME NEW e \in Engines, NEW j \in Keys, ResolveRow(e, j) PROVE KeyInv(k)'
    <2>1. CASE j # k
        <3>1. k \notin raced /\ RowSame(k)
            BY <1>9, <2>1 DEF ResolveRow, RowSame, TypeOK
        <3>2. Others(e, k)
            BY <1>9, <2>1 DEF ResolveRow, Others, EngSame, UsrSame, TypeOK
        <3>3. EngAway(e, k)
            BY <1>9, <2>1 DEF ResolveRow, EngAway, MidPair, TypeOK
        <3> QED BY <3>1, <3>2, <3>3, <1>g
    <2>2. CASE j = k
        <3>1. KeyInv(k) /\ ~StatusRace(e, k, status'[k])
            BY <1>0, <1>9, <2>2 DEF Before, ResolveRow, TypeOK
        <3>2. Others(e, k) /\ MidPair(e, k)' /\ ~MidPair(e, k)
            BY <1>9, <2>2 DEF ResolveRow, Others, EngSame, UsrSame, MidPair, TypeOK
        <3>3. status[k] = rows[e][k] /\ status[k] \in Live
            BY <1>9, <2>2, <3>1, <3>2 DEF ResolveRow, KeyInv, ReadsHold, TypeOK
        <3>4. decision[k] = Decided(status[k])
            BY <3>1, <3>2, <3>3, AloneKept DEF Kept, Decided, Live, TypeOK
        <3>5. EngineMid(e, k)'
            BY <1>9, <2>2, <3>3, <3>4 DEF ResolveRow, EngineMid, Decided, TypeOK
        <3> QED BY <3>1, <3>2, <3>5, RowWritten
    <2> QED BY <2>1, <2>2
<1>10. ASSUME NEW e \in Engines, AutoResolvedEvent(e) PROVE KeyInv(k)'
    <2>1. CASE cur[e] # k
        <3>1. k \notin raced /\ RowSame(k)
            BY <1>10, <2>1 DEF AutoResolvedEvent, RowSame, TypeOK
        <3>2. Others(e, k)
            BY <1>10, <2>1 DEF AutoResolvedEvent, Others, EngSame, UsrSame, TypeOK
        <3>3. EngAway(e, k)
            BY <1>10, <2>1 DEF AutoResolvedEvent, EngAway, MidPair, TypeOK
        <3> QED BY <3>1, <3>2, <3>3, <1>g
    <2>2. CASE cur[e] = k
        <3>1. KeyInv(k) /\ ~EventRace(e, k)
            BY <1>0, <1>10, <2>2 DEF Before, AutoResolvedEvent
        <3>2. /\ Others(e, k) /\ MidPair(e, k) /\ ~MidPair(e, k)'
              /\ cur'[e] = "none" /\ rows'[e][k] = "none"
              /\ status'[k] = status[k] /\ decision'[k] = decision[k]
              /\ trail'[k] = Event("auto_resolved", read[e])
            BY <1>10, <2>2 DEF AutoResolvedEvent, Others, EngSame, UsrSame, MidPair, TypeOK
        <3>3. status[k] = "resolved" /\ decision[k] = Decided(read[e]) /\ read[e] \in Live
            BY <1>10, <2>2, <3>1 DEF AutoResolvedEvent, KeyInv, MidHolds, EngineMid, LocalInv
        <3>4. Agree(status[k], trail[k])' /\ Kept(k)'
            BY <3>2, <3>3 DEF Agree, Kept, Decided, Live, Event, WasAcknowledged
        <3> QED BY <3>1, <3>2, <3>4, EventWritten
    <2> QED BY <2>1, <2>2
<1>11. ASSUME NEW e \in Engines, FinishApply(e) PROVE KeyInv(k)'
    <2>1. k \notin raced /\ RowSame(k)
        BY <1>11 DEF FinishApply, Leave, RowSame, TypeOK
    <2>2. Others(e, k)
        BY <1>11 DEF FinishApply, Leave, Others, EngSame, UsrSame, TypeOK
    <2>3. EngAway(e, k)
        BY <1>11 DEF FinishApply, Leave, EngAway, MidPair, TypeOK, LocalInv, Holding, NoRows
    <2> QED BY <2>1, <2>2, <2>3, <1>g
<1>12. ASSUME NEW e \in Engines, AbortApply(e) PROVE KeyInv(k)'
    <2>1. k \notin raced /\ RowSame(k)
        BY <1>12 DEF AbortApply, Leave, RowSame, TypeOK, MidPair, LocalInv, Holding
    <2>2. Others(e, k)
        BY <1>12 DEF AbortApply, Leave, Others, EngSame, UsrSame, TypeOK
    <2>3. EngAway(e, k)
        BY <1>12 DEF AbortApply, Leave, EngAway, MidPair, TypeOK, LocalInv, Holding, NoRows
    <2> QED BY <2>1, <2>2, <2>3, <1>g
<1>13. ASSUME NEW u \in Users, NEW j \in Keys, NEW st \in STATUSES, SetStatus(u, j, st)
       PROVE KeyInv(k)'
    BY <1>13, <1>f DEF SetStatus, Elsewhere, RowSame, EngSame, UsrSame, UsrAway, LocalInv, TypeOK
<1>14. ASSUME NEW u \in Users, AcceptNewDevices(u) PROVE KeyInv(k)'
    BY <1>14, <1>f DEF AcceptNewDevices, Elsewhere, RowSame, EngSame, UsrSame, UsrAway, LocalInv,
       TypeOK
<1>15. ASSUME NEW u \in Users, NEW j \in Keys, UserUpdate(u, j) PROVE KeyInv(k)'
    <2>1. CASE j # k
        BY <1>15, <2>1, <1>f DEF UserUpdate, Elsewhere, RowSame, EngSame, UsrSame, UsrAway, TypeOK
    <2>2. CASE j = k
        <3>1. ~StatusRace(u, k, status'[k])
            BY <1>15, <2>2 DEF UserUpdate, TypeOK
        <3>2. Others(u, k) /\ MidPair(u, k)'
            BY <1>15, <2>2 DEF UserUpdate, Others, EngSame, UsrSame, MidPair, TypeOK
        <3>3. UserMid(u, k)'
            BY <1>15, <2>2 DEF UserUpdate, UserMid, Decided, TypeOK
        <3> QED BY <3>1, <3>2, <3>3, RowWritten
    <2> QED BY <2>1, <2>2
<1>16. ASSUME NEW u \in Users, UserEvent(u) PROVE KeyInv(k)'
    <2>1. CASE ucur[u] # k
        BY <1>16, <2>1, <1>f DEF UserEvent, Elsewhere, RowSame, EngSame, UsrSame, UsrAway, TypeOK
    <2>2. CASE ucur[u] = k
        <3>1. KeyInv(k) /\ ~EventRace(u, k)
            BY <1>0, <1>16, <2>2 DEF Before, UserEvent
        <3>2. /\ Others(u, k) /\ MidPair(u, k) /\ ~MidPair(u, k)' /\ ucur'[u] = "none"
              /\ status'[k] = status[k] /\ decision'[k] = decision[k]
              /\ trail'[k] = Event(IF target[u] = "open" THEN "reopened" ELSE target[u], "none")
            BY <1>16, <2>2 DEF UserEvent, Others, EngSame, UsrSame, MidPair, TypeOK
        <3>3. status[k] = target[u] /\ decision[k] = Decided(target[u]) /\ target[u] \in STATUSES
            BY <1>16, <2>2, <3>1 DEF UserEvent, KeyInv, MidHolds, UserMid, LocalInv
        <3>4. Agree(status[k], trail[k])' /\ Kept(k)'
            <4>1. CASE target[u] = "open"
                BY <3>2, <3>3, <4>1 DEF Agree, Kept, Decided
            <4>2. CASE target[u] = "acknowledged"
                BY <3>2, <3>3, <4>2 DEF Agree, Kept, Decided
            <4>3. CASE target[u] = "resolved"
                BY <3>2, <3>3, <4>3 DEF Agree, Kept, Decided, Event, WasAcknowledged
            <4>4. CASE target[u] = "suppressed"
                BY <3>2, <3>3, <4>4 DEF Agree, Kept, Decided
            <4> QED BY <3>3, <4>1, <4>2, <4>3, <4>4 DEF STATUSES, Live
        <3> QED BY <3>1, <3>2, <3>4, EventWritten
    <2> QED BY <2>1, <2>2
<1>17. ASSUME NEW u \in Users, AbortUser(u) PROVE KeyInv(k)'
    BY <1>17, <1>f DEF AbortUser, Elsewhere, RowSame, EngSame, UsrSame, UsrAway, MidPair, LocalInv,
       TypeOK
<1>18. ASSUME NEW j \in Keys, PurgeEvents(j) PROVE KeyInv(k)'
    <2>1. CASE j # k
        BY <1>18, <2>1, <1>f DEF PurgeEvents, Elsewhere, RowSame, EngSame, UsrSame, TypeOK
    <2>2. CASE j = k
        <3>1. KeyInv(k) /\ NoMid(k) /\ \A e \in Engines : ~Reopening(e, k)
            BY <1>0, <1>18, <2>2 DEF Before, PurgeEvents, NoMid
        <3>2. /\ status'[k] = "resolved" /\ status[k] = "resolved"
              /\ trail'[k] = NoEvent /\ decision'[k] = "none"
            BY <1>18, <2>2 DEF PurgeEvents, TypeOK
        <3>3. UNCHANGED <<cur, pc, read, rows, restored, ucur, upc, target>>
            BY <1>18 DEF PurgeEvents
        <3>4. NoMid(k)' /\ \A e \in Engines : ~Reopening(e, k)'
            BY <3>1, <3>3 DEF NoMid, MidPair, Reopening
        <3>5. ReadsHold(k)'
            BY <3>1, <3>2, <3>3, <3>4 DEF KeyInv, ReadsHold, NoMid, Refreshing
        <3>6. MidHolds(k)'
            BY <3>4 DEF NoMid, MidHolds, MidPair, EngineMid, UserMid
        <3>7. Agree(status[k], trail[k])' /\ Kept(k)'
            BY <3>2 DEF Agree, Kept, NoEvent, Event, WasAcknowledged
        <3> QED BY <3>5, <3>6, <3>7 DEF KeyInv
    <2> QED BY <2>1, <2>2
<1>19. CASE UNCHANGED vars
    BY <1>19, <1>f DEF vars, Elsewhere, RowSame, EngSame, UsrSame
<1> QED
    BY <1>1, <1>2, <1>3, <1>4, <1>5, <1>6, <1>7, <1>8, <1>9, <1>10, <1>11, <1>12, <1>13, <1>14,
       <1>15, <1>16, <1>17, <1>18, <1>19 DEF Next, EngineStep, UserStep

LEMMA KeyInit == Init => \A k \in Keys : KeyInv(k)
BY FindingsAssumption DEF Init, KeyInv, ReadsHold, MidHolds, EngineMid, UserMid, MidPair, Reopening,
   Refreshing, NoRows, Agree, Kept

\* The inductive invariant: every row nobody raced for is the one its readers
\* saw, and its writers' locals tell the event and the decision still to come.
THEOREM Inductive == Spec => []IInv
<1>1. Init => IInv
    BY LocalInit, KeyInit DEF IInv, Local
<1>2. IInv /\ [Next]_vars => IInv'
    BY LocalStep, KeyStep DEF IInv, Local
<1> QED BY <1>1, <1>2, PTL DEF Spec

\* Every reachable state of the findings engine is well typed, whatever the
\* numbers of scanning threads, users and findings.
THEOREM TypeCorrect == Spec => []TypeOK
<1>1. IInv => TypeOK
    BY DEF IInv
<1> QED BY <1>1, Inductive, PTL

\* Once both writes of a pair are in and nobody raced for the row, the newest
\* event of a finding tells its status (engine._event after every UPDATE).
THEOREM TrailAgreesAlways == Spec => []TrailAgrees
<1>1. IInv => TrailAgrees
    BY DEF IInv, KeyInv, NoMid, TrailAgrees, Quiet
<1> QED BY <1>1, Inductive, PTL

\* A user's acknowledge or suppress outlives every rescan, reopening and
\* auto-resolve that does not cut into somebody else's pair of calls.
THEOREM DecisionSurvivesAlways == Spec => []DecisionSurvives
<1>1. IInv => DecisionSurvives
    BY DEF IInv, KeyInv, NoMid, DecisionSurvives, Quiet
<1> QED BY <1>1, Inductive, PTL

\* What a pass may close: a problem that held when its scan looked has been reported
\* if one of the scopes left covers it, and is not among the rows under way.
ScopesHonest == \A e \in Engines : \A scope \in scopes[e], k \in truth[e] :
    SourceOf[k] = source[e] /\ Matches(scope, Subject[k]) => k \in seen[e]
RowsHonest   == \A e \in Engines : \A k \in truth[e] : rows[e][k] = "none"
Honest       == scopes = [e \in Engines |-> scopes[e]] /\ ScopesHonest /\ RowsHonest

\* effective_scope covers no more than the scan looked at.
LEMMA ScopeIsLookedAt ==
    ASSUME NEW s \in Sources, NEW r \in Results(s), NEW scope \in EffectiveScope(s, r),
           NEW k \in Keys, Matches(scope, Subject[k])
    PROVE  Subject[k] \in r.looked
<1>1. r.looked \subseteq Subjects /\ Subject[k] \in Subjects
    BY DEF Results, Subjects
<1>2. ~r.error /\ ~r.partial
    BY DEF EffectiveScope
<1>3. CASE s \in Listing
    <2>1. PICK sub \in r.looked : scope = [parts |-> sub, raw |-> FALSE]
        BY <1>2, <1>3 DEF EffectiveScope
    <2>2. IsPrefix(sub, Subject[k])
        BY <2>1 DEF Matches
    <2>3. Whole(r.looked)
        BY <1>2, <1>3 DEF Results
    <2> QED BY <1>1, <2>2, <2>3 DEF Whole
<1>4. CASE s \notin Listing
    <2>1. r.looked # {}
        BY <1>2, <1>4 DEF EffectiveScope
    <2>2. r.looked \in {{}, Subjects}
        BY <1>2, <1>4 DEF Results
    <2> QED BY <1>1, <2>1, <2>2
<1> QED BY <1>3, <1>4

LEMMA HonestStep == Local /\ Honest /\ [Next]_vars => Honest'
<1> SUFFICES ASSUME Local, Honest, [Next]_vars PROVE Honest'
    OBVIOUS
<1>0. /\ \A e \in Engines : pc[e] \notin {"resolve", "resolved"} => rows[e] = NoRows
      /\ truth \in [Engines -> SUBSET Keys] /\ seen \in [Engines -> SUBSET Keys]
      /\ source \in [Engines -> Sources \cup {"none"}]
      /\ rows \in [Engines -> [Keys -> Live \cup {"none"}]]
    BY DEF Local, LocalInv, TypeOK
<1>1. ASSUME UNCHANGED <<source, seen, scopes, rows, truth>> PROVE Honest'
    BY <1>1 DEF Honest, ScopesHonest, RowsHonest
<1>2. ASSUME NEW e \in Engines, NEW s \in Sources, NEW r \in Results(s), NEW held \in SUBSET Keys,
             StartApply(e, s, r, held)
      PROVE  Honest'
    <2> DEFINE found == {k \in held : SourceOf[k] = s /\ Subject[k] \in r.looked}
    <2>1. /\ pc[e] = "idle" /\ rows' = rows
          /\ seen' = [seen EXCEPT ![e] = found] /\ source' = [source EXCEPT ![e] = s]
          /\ scopes' = [scopes EXCEPT ![e] = EffectiveScope(s, r)] /\ truth' = [truth EXCEPT ![e] = held]
        BY <1>2 DEF StartApply
    <2>2. /\ seen'[e] = found /\ source'[e] = s /\ scopes'[e] = EffectiveScope(s, r) /\ truth'[e] = held
          /\ scopes' = [d \in Engines |-> scopes'[d]]
          /\ \A d \in Engines : d # e => /\ seen'[d] = seen[d] /\ source'[d] = source[d]
                                       /\ scopes'[d] = scopes[d] /\ truth'[d] = truth[d]
        BY <1>0, <2>1 DEF Honest
    <2>3. ASSUME NEW scope \in EffectiveScope(s, r), NEW k \in held,
                 SourceOf[k] = s, Matches(scope, Subject[k])
          PROVE  k \in found
        BY <2>3, ScopeIsLookedAt
    <2> HIDE DEF found
    <2>4. ScopesHonest'
        BY <2>2, <2>3 DEF Honest, ScopesHonest, Matches
    <2>5. RowsHonest'
        BY <1>0, <2>1, <2>2 DEF Honest, RowsHonest, NoRows
    <2> QED BY <2>2, <2>4, <2>5 DEF Honest
<1>3. ASSUME NEW e \in Engines, NEW scope \in scopes[e], SelectScope(e, scope) PROVE Honest'
    <2> DEFINE gone == {k \in Keys \ seen[e] : /\ SourceOf[k] = source[e]
                                              /\ Matches(scope, Subject[k])
                                              /\ status[k] \in Live}
    <2>1. /\ rows' = [rows EXCEPT ![e] = [k \in Keys |-> IF k \in gone THEN status[k] ELSE "none"]]
          /\ scopes' = [scopes EXCEPT ![e] = @ \ {scope}]
          /\ UNCHANGED <<source, seen, truth>>
        BY <1>3 DEF SelectScope
    <2>2. /\ scopes' = [d \in Engines |-> scopes'[d]]
          /\ \A d \in Engines : scopes'[d] \subseteq scopes[d]
        BY <2>1 DEF Honest
    <2>3. ScopesHonest'
        BY <2>1, <2>2 DEF Honest, ScopesHonest, Matches
    <2>4. ASSUME NEW k \in truth[e] PROVE k \notin gone
        BY DEF Honest, ScopesHonest
    <2> HIDE DEF gone
    <2>5. RowsHonest'
        BY <1>0, <2>1, <2>4 DEF Honest, RowsHonest
    <2> QED BY <2>2, <2>3, <2>5 DEF Honest
<1>4. ASSUME NEW e \in Engines, AutoResolvedEvent(e) PROVE Honest'
    <2>1. /\ rows' = [rows EXCEPT ![e] = [rows[e] EXCEPT ![cur[e]] = "none"]]
          /\ UNCHANGED <<source, seen, scopes, truth>>
        BY <1>4 DEF AutoResolvedEvent
    <2>2. \A d \in Engines, k \in Keys : rows'[d][k] \in {rows[d][k], "none"}
        BY <1>0, <2>1
    <2> QED BY <1>0, <2>1, <2>2 DEF Honest, ScopesHonest, RowsHonest
<1>5. ASSUME NEW e \in Engines, Leave(e) PROVE Honest'
    <2>1. /\ source' = [source EXCEPT ![e] = "none"] /\ seen' = [seen EXCEPT ![e] = {}]
          /\ scopes' = [scopes EXCEPT ![e] = {}] /\ rows' = [rows EXCEPT ![e] = NoRows]
          /\ truth' = [truth EXCEPT ![e] = {}]
        BY <1>5 DEF Leave
    <2>2. /\ scopes'[e] = {} /\ truth'[e] = {} /\ scopes' = [d \in Engines |-> scopes'[d]]
          /\ \A d \in Engines : d # e => /\ seen'[d] = seen[d] /\ source'[d] = source[d] /\ rows'[d] = rows[d]
                                       /\ scopes'[d] = scopes[d] /\ truth'[d] = truth[d]
        BY <1>0, <2>1 DEF Honest
    <2> QED BY <2>2 DEF Honest, ScopesHonest, RowsHonest, Matches
\* The other steps touch none of it.
<1>6. ASSUME NEW e \in Engines,
             \/ \E k \in Keys : SelectRow(e, k) \/ ResolveRow(e, k)
             \/ InsertRow(e) \/ OpenedEvent(e) \/ SelectTrail(e) \/ UpdateRow(e) \/ ReopenedEvent(e)
      PROVE  Honest'
    BY <1>1, <1>6 DEF SelectRow, ResolveRow, InsertRow, OpenedEvent, SelectTrail, UpdateRow, ReopenedEvent
<1>7. ASSUME NEW u \in Users,
             \/ \E k \in Keys : UserUpdate(u, k) \/ \E st \in STATUSES : SetStatus(u, k, st)
             \/ AcceptNewDevices(u) \/ UserEvent(u) \/ AbortUser(u)
      PROVE  Honest'
    BY <1>1, <1>7 DEF UserUpdate, SetStatus, AcceptNewDevices, UserEvent, AbortUser, engVars
<1>8. ASSUME NEW k \in Keys, PurgeEvents(k) PROVE Honest'
    BY <1>1, <1>8 DEF PurgeEvents, engVars
<1>9. CASE UNCHANGED vars
    BY <1>1, <1>9 DEF vars, engVars
<1> QED
    BY <1>2, <1>3, <1>4, <1>5, <1>6, <1>7, <1>8, <1>9
       DEF Next, EngineStep, UserStep, FinishApply, AbortApply

\* Whatever a scan covered, and however it ended, its pass closes no finding whose
\* problem held when it looked (cli.effective_scope, engine._auto_resolve).
THEOREM NoFalseResolveAlways == Spec => NoFalseResolve
<1>1. Init => Local /\ Honest
    BY LocalInit DEF Init, Honest, ScopesHonest, RowsHonest
<1>2. Local /\ Honest /\ [Next]_vars => (Local /\ Honest)'
    BY LocalStep, HonestStep
<1>3. Local /\ Honest => \A e \in Engines, k \in Keys : ResolveRow(e, k) => k \notin truth[e]
    BY DEF Honest, RowsHonest, ResolveRow
<1>4. Spec => [](Local /\ Honest)
    BY <1>1, <1>2, PTL DEF Spec
<1> QED BY <1>3, <1>4, PTL DEF NoFalseResolve

-----------------------------------------------------------------------------
(* New devices: what a run of discovery holds, and what is under way for   *)
(* a device.                                                               *)

\* A run that is over holds nothing, and one that looks at a host has it still to do.
RunOK(x) ==
    /\ x \in Runs
    /\ x.channels # <<>> <=> x.pc = "notify"
    /\ x.pc = "idle" => x = NoScan
    /\ x.pc = "find" => x.todo # {}
    /\ x.pc \in {"insert", "sighting"} => x.host \in x.todo
    /\ x.pc \in {"sweep", "find", "insert", "sighting"} => x.new = {}
    /\ x.pc \in {"sweep", "notify"} => x.drafts = {}

AnswerOK(x) == x \in Answers /\ x.todo \subseteq x.scope /\ (x.pc = "idle" => x = NoAnswer)

RunsOK == scan \in [Scanners -> Runs] /\ \A r \in Scanners : RunOK(scan[r])
AnswersOK == owner \in [Owners -> Answers] /\ \A o \in Owners : AnswerOK(owner[o])

DeviceType == [known : BOOLEAN, trusted : BOOLEAN]
RowType == [status : {"none", "open", "resolved"}, severity : {"none", "info", "medium"}]

\* What has a question or is trusted is in the inventory; what an owner is at too, and
\* what it closes has a question.
RowOK(h) ==
    /\ question[h] # NoRow => devices[h].known
    /\ devices[h].trusted => devices[h].known
    /\ question[h].status = "none" <=> question[h].severity = "none"

TodoOK(o) == \A h \in owner[o].todo :
    /\ devices[h].known
    /\ owner[o].pc = "close" => question[h].status # "none"

RowTypes ==
    /\ devices \in [Hosts -> DeviceType] /\ question \in [Hosts -> RowType]
    /\ lost \subseteq Hosts /\ muted \subseteq Hosts /\ late \subseteq Hosts

RowsOK == RowTypes /\ (\A h \in Hosts : RowOK(h)) /\ \A o \in Owners : TodoOK(o)

\* The question about a device is carried by one run at most, and not asked until then.
CarryInv == \A h \in Hosts :
    /\ \A r \in Scanners : h \in Carried(r) => devices[h].known /\ question[h] = NoRow
    /\ \A r, s \in Scanners : h \in Carried(r) /\ h \in Carried(s) => r = s

\* A run that sends has sent to the first channels what it will send to the others.
Sent(r) == Len(Channels) - Len(scan[r].channels)
SendOK(r) ==
    /\ \A h \in scan[r].new : question[h].severity = Severity(r)
    /\ scan[r].pc = "notify" =>
          /\ Sent(r) \in Nat
          /\ \A i \in 1..Len(scan[r].channels) : scan[r].channels[i] = Channels[Sent(r) + i]
          /\ \A h \in scan[r].new, i \in 1..Sent(r) : <<h, Channels[i]>> \in tried
SendInv == \A r \in Scanners : SendOK(r)

\* An owner has not looked up the question of h yet, or is about to close it.
Answering(o, h) == h \in owner[o].scope /\ (owner[o].pc = "trust" \/ (owner[o].pc = "close" /\ h \in owner[o].todo))

\* A trusted device has no question any more, or somebody is at it.
SettledInv == \A h \in Hosts : devices[h].trusted /\ h \notin late =>
    \/ question[h].status # "open" /\ \A r \in Scanners : h \notin Carried(r)
    \/ \E o \in Owners : Answering(o, h)

DevicesBase == RunsOK /\ AnswersOK /\ RowsOK /\ tried \subseteq Hosts \X ChannelSet
DevicesInv == DevicesBase /\ CarryInv /\ EveryDeviceIsAskedAbout /\ SendInv /\ AlertsReachEveryChannel /\ SettledInv

\* A run takes the host with the least number that is left, and there is one.
LEMMA MinIsIn == ASSUME NEW S, S \subseteq Nat, S # {} PROVE Min(S) \in S
<1> DEFINE below == {ss \in Nat \X Nat : ss[1] < ss[2]}
<1>1. IsWellFoundedOn(below, Nat)
    BY NatLessThanWellFounded DEF OpToRel
<1> HIDE DEF below
<1>2. PICK m \in S : \A n \in S : ~ (<<n, m>> \in below)
    BY <1>1, WFMin
<1>3. ASSUME NEW n \in S PROVE m <= n
    <2>1. n \in Nat /\ m \in Nat
        OBVIOUS
    <2>2. n < m => <<n, m>> \in below
        BY <2>1 DEF below
    <2> QED BY <1>2, <2>1, <2>2
<1> QED BY <1>3 DEF Min

LEMMA NoScanOK == RunOK(NoScan)
BY DEF RunOK, Runs, NoScan

LEMMA NoAnswerOK == AnswerOK(NoAnswer)
BY DEF AnswerOK, Answers, NoAnswer

LEMMA RunsStep == ASSUME DevicesBase, DevicesNext PROVE RunsOK'
<1> USE DEF DevicesBase, At
<1>k. ASSUME NEW r \in Scanners, NEW x, RunOK(x), scan' = [scan EXCEPT ![r] = x] PROVE RunsOK'
    <2>1. x \in Runs
        BY <1>k DEF RunOK
    <2> QED BY <1>k, <2>1 DEF RunsOK
<1>g. ASSUME NEW r \in Scanners, NEW todo \in SUBSET Hosts, NEW kept \in SUBSET (Hosts \ {Self}),
             Go(r, todo, kept), scan[r].pc \in {"find", "sighting"}
      PROVE RunsOK'
    <2> DEFINE x == [scan[r] EXCEPT !.pc = IF todo = {} THEN "apply" ELSE "find", !.todo = todo,
                                    !.drafts = kept, !.host = None]
    <2>1. scan[r] \in Runs /\ RunOK(scan[r])
        BY DEF RunsOK
    <2>2. x \in Runs /\ x.pc = (IF todo = {} THEN "apply" ELSE "find") /\ x.todo = todo /\ x.new = scan[r].new
          /\ x.channels = scan[r].channels
        BY <2>1 DEF Runs
    <2>3. RunOK(x)
        BY <1>g, <2>1, <2>2 DEF RunOK
    <2> QED BY <1>g, <1>k, <2>3 DEF Go
<1>1. ASSUME NEW r \in Scanners, Begin(r) PROVE RunsOK'
    <2> DEFINE x == [NoScan EXCEPT !.pc = "sweep", !.baseline = Known = {}]
    <2>1. x \in Runs
        BY NoScanOK DEF RunOK, Runs
    <2>2. x.pc = "sweep" /\ x.new = {} /\ x.drafts = {} /\ x.channels = <<>>
        BY DEF NoScan
    <2>3. RunOK(x)
        BY <2>1, <2>2 DEF RunOK
    <2> QED BY <1>1, <1>k, <2>3 DEF Begin
<1>2. ASSUME NEW r \in Scanners, NEW S \in SUBSET (Hosts \ {Self}), Sweep(r, S) PROVE RunsOK'
    <2> DEFINE x == [scan[r] EXCEPT !.pc = "find", !.todo = S \cup {Self}]
    <2>1. scan[r] \in Runs /\ RunOK(scan[r]) /\ S \cup {Self} \in SUBSET Hosts /\ scan[r].pc = "sweep"
        BY <1>2, NewDevicesAssumption DEF RunsOK, Sweep
    <2>2. x \in Runs /\ x.pc = "find" /\ x.todo # {} /\ x.new = scan[r].new /\ x.channels = scan[r].channels
        BY <2>1 DEF Runs
    <2>3. RunOK(x)
        BY <2>1, <2>2 DEF RunOK
    <2>4. scan' = [scan EXCEPT ![r] = x]
        BY <1>2 DEF Sweep, RunsOK, Runs
    <2> QED BY <1>k, <2>3, <2>4
<1>3. ASSUME NEW r \in Scanners, Find(r) PROVE RunsOK'
    <2> DEFINE h == Min(scan[r].todo)
    <2>1. scan[r] \in Runs /\ RunOK(scan[r]) /\ scan[r].pc = "find"
        BY <1>3 DEF RunsOK, Find
    <2>2. scan[r].todo \in SUBSET Hosts /\ scan[r].todo # {} /\ scan[r].drafts \in SUBSET (Hosts \ {Self})
        BY <2>1 DEF Runs, RunOK
    <2>3. h \in scan[r].todo
        BY <2>2, MinIsIn, NewDevicesAssumption
    <2>4. CASE devices[h].known
        BY <1>3, <1>g, <2>1, <2>2, <2>4 DEF Find
    <2>5. CASE ~devices[h].known
        <3> DEFINE x == [scan[r] EXCEPT !.pc = "insert", !.host = h]
        <3>1. x \in Runs /\ x.pc = "insert" /\ x.host = h /\ x.todo = scan[r].todo /\ x.new = scan[r].new
              /\ x.channels = scan[r].channels
            BY <2>1, <2>2, <2>3 DEF Runs
        <3>2. RunOK(x)
            BY <2>1, <2>3, <3>1 DEF RunOK
        <3>3. scan' = [scan EXCEPT ![r] = x]
            BY <1>3, <2>5 DEF Find, RunsOK, Runs
        <3> QED BY <1>k, <3>2, <3>3
    <2> QED BY <2>4, <2>5
<1>4. ASSUME NEW r \in Scanners, Insert(r) PROVE RunsOK'
    <2> DEFINE x == [scan[r] EXCEPT !.pc = "sighting"]
    <2>1. scan[r] \in Runs /\ RunOK(scan[r]) /\ scan[r].pc = "insert"
        BY <1>4 DEF RunsOK, Insert
    <2>2. x \in Runs /\ x.pc = "sighting" /\ x.host = scan[r].host /\ x.todo = scan[r].todo
          /\ x.new = scan[r].new /\ x.channels = scan[r].channels
        BY <2>1 DEF Runs
    <2>3. RunOK(x)
        BY <2>1, <2>2 DEF RunOK
    <2>4. scan' = [scan EXCEPT ![r] = x]
        BY <1>4 DEF Insert, RunsOK, Runs
    <2> QED BY <1>k, <2>3, <2>4
<1>5. ASSUME NEW r \in Scanners, Sighting(r) PROVE RunsOK'
    <2>1. scan[r] \in Runs /\ RunOK(scan[r]) /\ scan[r].pc = "sighting"
        BY <1>5 DEF RunsOK, Sighting
    <2>2. scan[r].host \in Hosts /\ scan[r].todo \in SUBSET Hosts /\ scan[r].drafts \in SUBSET (Hosts \ {Self})
        BY <2>1 DEF Runs, RunOK
    <2> QED BY <1>5, <1>g, <2>1, <2>2 DEF Sighting
<1>6. ASSUME NEW r \in Scanners, ScanFails(r) PROVE RunsOK'
    <2> DEFINE x == [scan[r] EXCEPT !.pc = "apply", !.todo = {}, !.host = None]
    <2>1. scan[r] \in Runs /\ RunOK(scan[r]) /\ scan[r].pc \in {"find", "insert", "sighting"}
        BY <1>6 DEF RunsOK, ScanFails
    <2>2. x \in Runs /\ x.pc = "apply" /\ x.channels = scan[r].channels
        BY <2>1 DEF Runs
    <2>3. RunOK(x)
        BY <2>1, <2>2 DEF RunOK
    <2> QED BY <1>6, <1>k, <2>3 DEF ScanFails
<1>7. ASSUME NEW r \in Scanners, NEW h \in scan[r].drafts, Ask(r, h) PROVE RunsOK'
    <2> DEFINE x == [scan[r] EXCEPT !.drafts = @ \ {h}, !.new = IF question[h] = NoRow THEN @ \cup {h} ELSE @]
    <2>1. scan[r] \in Runs /\ RunOK(scan[r]) /\ scan[r].pc = "apply"
        BY <1>7 DEF RunsOK, Ask
    <2>2. h \in Hosts \ {Self}
        BY <2>1 DEF Runs
    <2>3. x \in Runs /\ x.pc = "apply" /\ x.channels = scan[r].channels
        BY <2>1, <2>2 DEF Runs
    <2>4. RunOK(x)
        BY <2>1, <2>3 DEF RunOK
    <2>5. scan' = [scan EXCEPT ![r] = x]
        BY <1>7 DEF Ask, RunsOK, Runs
    <2> QED BY <1>k, <2>4, <2>5
<1>8. ASSUME NEW r \in Scanners, Asked(r) PROVE RunsOK'
    <2> DEFINE x == [scan[r] EXCEPT !.pc = "notify", !.channels = Channels]
    <2>1. scan[r] \in Runs /\ RunOK(scan[r]) /\ scan[r].pc = "apply" /\ scan[r].drafts = {}
        BY <1>8 DEF RunsOK, Asked
    <2>2. CASE Channels # <<>>
        <3>1. x \in Runs /\ x.pc = "notify" /\ x.channels = Channels /\ x.drafts = {}
            BY <2>1, NewDevicesAssumption DEF Runs, ChannelSet
        <3>2. RunOK(x)
            BY <2>2, <3>1 DEF RunOK
        <3>3. scan' = [scan EXCEPT ![r] = x] \/ scan' = [scan EXCEPT ![r] = NoScan]
            BY <1>8 DEF Asked
        <3> QED BY <1>k, NoScanOK, <3>2, <3>3
    <2>3. CASE Channels = <<>>
        BY <1>8, <1>k, <2>3, NoScanOK DEF Asked
    <2> QED BY <2>2, <2>3
<1>9. ASSUME NEW r \in Scanners, Deliver(r) PROVE RunsOK'
    <2> DEFINE x == [scan[r] EXCEPT !.channels = Tail(@)]
    <2>1. scan[r] \in Runs /\ RunOK(scan[r]) /\ scan[r].pc = "notify"
        BY <1>9 DEF RunsOK, Deliver
    <2>2. scan[r].channels \in Seq(ChannelSet) /\ scan[r].channels # <<>>
        BY <2>1 DEF RunOK, Runs
    <2>3. CASE Tail(scan[r].channels) = <<>>
        BY <1>9, <1>k, <2>3, NoScanOK DEF Deliver
    <2>4. CASE Tail(scan[r].channels) # <<>>
        <3>1. Tail(scan[r].channels) \in Seq(ChannelSet)
            BY <2>2, HeadTailProperties
        <3>2. x \in Runs /\ x.pc = "notify" /\ x.channels = Tail(scan[r].channels) /\ x.drafts = scan[r].drafts
            BY <2>1, <3>1 DEF Runs
        <3>3. RunOK(x)
            BY <2>1, <2>4, <3>2 DEF RunOK
        <3>4. scan' = [scan EXCEPT ![r] = x]
            BY <1>9, <2>4 DEF Deliver
        <3> QED BY <1>k, <3>3, <3>4
    <2> QED BY <2>3, <2>4
<1>10. ASSUME NEW r \in Scanners, Die(r) PROVE RunsOK'
    BY <1>10, <1>k, NoScanOK DEF Die
<1>11. ASSUME NEW o \in Owners, Answer(o) PROVE RunsOK'
    <2>1. scan' = scan
        BY <1>11 DEF Answer, Trust, Untrust, List, TrustOne, Select, Close, CloseFails, AnswerFails
    <2> QED BY <2>1 DEF RunsOK
<1> QED BY <1>1, <1>2, <1>3, <1>4, <1>5, <1>6, <1>7, <1>8, <1>9, <1>10, <1>11 DEF DevicesNext, Scan

LEMMA AnswersStep == ASSUME DevicesBase, DevicesNext PROVE AnswersOK'
<1> USE DEF DevicesBase
<1>k. ASSUME NEW o \in Owners, NEW x, AnswerOK(x), owner' = [owner EXCEPT ![o] = x] PROVE AnswersOK'
    <2>1. x \in Answers
        BY <1>k DEF AnswerOK
    <2> QED BY <1>k, <2>1 DEF AnswersOK
<1>0. \A o \in Owners : owner[o] \in Answers /\ AnswerOK(owner[o])
    BY DEF AnswersOK
<1>1. ASSUME NEW r \in Scanners, Scan(r) PROVE AnswersOK'
    <2>1. owner' = owner
        BY <1>1 DEF Scan, Begin, Sweep, Find, Insert, Sighting, ScanFails, Ask, Asked, Deliver, Die
    <2> QED BY <2>1 DEF AnswersOK
<1>2. ASSUME NEW o \in Owners, NEW h \in Hosts, Trust(o, h) PROVE AnswersOK'
    <2>1. AnswerOK([pc |-> "trust", scope |-> {h}, todo |-> {}])
        BY DEF AnswerOK, Answers
    <2> QED BY <1>2, <1>k, <2>1 DEF Trust
<1>3. ASSUME NEW o \in Owners, NEW h \in Hosts, Untrust(o, h) PROVE AnswersOK'
    BY <1>3 DEF Untrust, AnswersOK
<1>4. ASSUME NEW o \in Owners, List(o) PROVE AnswersOK'
    <2>1. AnswerOK([pc |-> "trust", scope |-> Hosts, todo |-> {h \in Known : ~devices[h].trusted}])
        BY DEF AnswerOK, Answers, Known
    <2> QED BY <1>4, <1>k, <2>1 DEF List
<1>5. ASSUME NEW o \in Owners, NEW h \in owner[o].todo, TrustOne(o, h) PROVE AnswersOK'
    <2> DEFINE x == [owner[o] EXCEPT !.todo = @ \ {h}]
    <2>1. x \in Answers /\ x.pc = "trust" /\ x.todo = owner[o].todo \ {h} /\ x.scope = owner[o].scope
        BY <1>0, <1>5 DEF TrustOne, Answers
    <2>2. AnswerOK(x)
        BY <1>0, <2>1 DEF AnswerOK
    <2>3. owner' = [owner EXCEPT ![o] = x]
        BY <1>5 DEF TrustOne, AnswersOK, Answers
    <2> QED BY <1>k, <2>2, <2>3
<1>6. ASSUME NEW o \in Owners, Select(o) PROVE AnswersOK'
    <2> DEFINE open == {h \in owner[o].scope : question[h].status = "open"}
               x == [owner[o] EXCEPT !.pc = "close", !.todo = open]
    <2>1. x \in Answers /\ x.pc = "close" /\ x.todo = open /\ x.scope = owner[o].scope
        BY <1>0 DEF Answers
    <2>2. AnswerOK(x)
        BY <2>1 DEF AnswerOK
    <2>3. owner' = [owner EXCEPT ![o] = IF open = {} THEN NoAnswer ELSE x]
        BY <1>6 DEF Select, AnswersOK
    <2> QED BY <1>k, <2>2, <2>3, NoAnswerOK
<1>c. ASSUME NEW o \in Owners, NEW h \in owner[o].todo, owner[o].pc = "close", Closed(o, h) PROVE AnswersOK'
    <2> DEFINE x == [owner[o] EXCEPT !.todo = @ \ {h}]
    <2>1. x \in Answers /\ x.pc = "close" /\ x.todo = owner[o].todo \ {h} /\ x.scope = owner[o].scope
        BY <1>0, <1>c DEF Answers
    <2>2. AnswerOK(x)
        BY <1>0, <2>1 DEF AnswerOK
    <2>3. CASE owner[o].todo \ {h} = {}
        BY <1>c, <1>k, <2>3, NoAnswerOK DEF Closed
    <2>4. CASE owner[o].todo \ {h} # {}
        <3>1. owner' = [owner EXCEPT ![o] = x]
            BY <1>c, <2>4 DEF Closed
        <3> QED BY <1>k, <2>2, <3>1
    <2> QED BY <2>3, <2>4
<1>7. ASSUME NEW o \in Owners, NEW h \in owner[o].todo, Close(o, h) \/ CloseFails(o, h) PROVE AnswersOK'
    BY <1>7, <1>c DEF Close, CloseFails
<1>8. ASSUME NEW o \in Owners, AnswerFails(o) PROVE AnswersOK'
    BY <1>8, <1>k, NoAnswerOK DEF AnswerFails
<1> QED BY <1>1, <1>2, <1>3, <1>4, <1>5, <1>6, <1>7, <1>8 DEF DevicesNext, Answer

LEMMA CarriedHosts == ASSUME DevicesBase, NEW r \in Scanners PROVE Carried(r) \subseteq Hosts \ {Self}
<1>1. scan[r] \in Runs
    BY DEF DevicesBase, RunsOK
<1> QED BY <1>1 DEF Carried, Runs

LEMMA RowsStep == ASSUME DevicesBase, CarryInv, DevicesNext PROVE RowsOK'
<1> USE DEF DevicesBase
<1>0. /\ RowTypes /\ devices \in [Hosts -> DeviceType] /\ question \in [Hosts -> RowType]
      /\ \A r \in Scanners : scan[r] \in Runs /\ RunOK(scan[r])
      /\ \A o \in Owners : owner[o] \in Answers /\ AnswerOK(owner[o])
      /\ \A h \in Hosts : RowOK(h)
      /\ \A o \in Owners : TodoOK(o)
      /\ \A o \in Owners : owner[o].todo \subseteq Hosts
    BY DEF RowsOK, RowTypes, RunsOK, AnswersOK, Answers
<1>1. ASSUME NEW r \in Scanners,
             Begin(r) \/ (\E S \in SUBSET (Hosts \ {Self}) : Sweep(r, S)) \/ Find(r) \/ Sighting(r)
             \/ Asked(r) \/ Deliver(r)
      PROVE RowsOK'
    <2>1. UNCHANGED <<devices, question, owner, lost, muted, late>>
        BY <1>1 DEF Begin, Sweep, Find, Sighting, Asked, Deliver
    <2> QED BY <2>1 DEF RowsOK, RowTypes, RowOK, TodoOK
<1>2. ASSUME NEW r \in Scanners, Insert(r) PROVE RowsOK'
    <2>1. scan[r].host \in Hosts
        BY <1>0, <1>2 DEF Insert, At, RunOK, Runs
    <2>2. UNCHANGED <<question, owner, lost, muted, late>>
        BY <1>2 DEF Insert
    <2>3. devices' \in [Hosts -> DeviceType]
        BY <1>0, <1>2, <2>1 DEF Insert, DeviceType
    <2>4. \A h \in Hosts : /\ devices[h].known => devices'[h].known
                           /\ devices'[h].trusted => devices[h].trusted
        BY <1>0, <1>2, <2>1 DEF Insert
    <2>5. ASSUME NEW h \in Hosts PROVE RowOK(h)'
        BY <1>0, <2>2, <2>4 DEF RowOK
    <2>6. ASSUME NEW o \in Owners PROVE TodoOK(o)'
        BY <1>0, <2>2, <2>4 DEF TodoOK
    <2> QED BY <1>0, <2>2, <2>3, <2>5, <2>6 DEF RowsOK, RowTypes
<1>3. ASSUME NEW r \in Scanners, ScanFails(r) \/ Die(r) PROVE RowsOK'
    <2>1. UNCHANGED <<devices, question, owner, late>>
        BY <1>3 DEF ScanFails, Die
    <2>2. lost' \subseteq lost \cup Carried(r) /\ muted' \subseteq muted \cup scan[r].new
        BY <1>3 DEF ScanFails, Die
    <2>3. scan[r].new \subseteq Hosts
        BY <1>0 DEF Runs
    <2>4. RowTypes'
        BY <1>0, <2>1, <2>2, <2>3, CarriedHosts DEF RowTypes
    <2> QED BY <2>1, <2>4 DEF RowsOK, RowOK, TodoOK
<1>4. ASSUME NEW r \in Scanners, NEW h \in scan[r].drafts, Ask(r, h) PROVE RowsOK'
    <2>1. h \in Hosts /\ h \in Carried(r)
        BY <1>0 DEF Runs, Carried
    <2>2. devices[h].known
        BY <2>1 DEF CarryInv
    <2>3. UNCHANGED <<devices, owner, lost, muted, late>>
        BY <1>4 DEF Ask
    <2>4. /\ question' = [question EXCEPT ![h] = [status |-> "open", severity |-> Severity(r)]]
          /\ Severity(r) \in {"info", "medium"}
        BY <1>4 DEF Ask, Severity
    <2>5. question' \in [Hosts -> RowType]
        BY <1>0, <2>4 DEF RowType
    <2>6. /\ \A g \in Hosts \ {h} : question'[g] = question[g]
          /\ question'[h].status = "open" /\ question'[h].severity # "none"
        BY <1>0, <2>1, <2>4
    <2>7. \A g \in Hosts : RowOK(g)'
        BY <1>0, <2>2, <2>3, <2>6 DEF RowOK
    <2>8. \A o \in Owners : TodoOK(o)'
        BY <1>0, <2>3, <2>6 DEF TodoOK
    <2> QED BY <1>0, <2>3, <2>5, <2>7, <2>8 DEF RowsOK, RowTypes
<1>5. ASSUME NEW o \in Owners, Answer(o) PROVE RowsOK'
    <2>1. UNCHANGED <<lost, muted>>
        BY <1>5 DEF Answer, Trust, Untrust, List, TrustOne, Select, Close, CloseFails, AnswerFails
    \* What changes of devices, questions and answers.
    <2>k. ASSUME devices' \in [Hosts -> DeviceType], question' \in [Hosts -> RowType], late' \subseteq Hosts,
                 \A h \in Hosts : /\ devices'[h].known <=> devices[h].known
                                  /\ devices'[h].trusted => devices[h].known
                                  /\ question'[h] = question[h]
                                    \/ (question[h].status # "none" /\ question'[h].status # "none"
                                        /\ question'[h].severity = question[h].severity),
                 \A p \in Owners : \A h \in owner'[p].todo :
                     /\ h \in owner[p].todo \/ (h \in Hosts /\ devices[h].known)
                     /\ owner'[p].pc = "close" => (h \in owner[p].todo /\ owner[p].pc = "close")
                                                 \/ question[h].status = "open"
          PROVE RowsOK'
        <3>1. RowTypes'
            BY <1>0, <2>k, <2>1 DEF RowTypes
        <3>2. ASSUME NEW h \in Hosts PROVE RowOK(h)'
            BY <1>0, <2>k DEF RowOK, NoRow
        <3>3. ASSUME NEW p \in Owners PROVE TodoOK(p)'
            BY <1>0, <2>k DEF TodoOK
        <3> QED BY <3>1, <3>2, <3>3 DEF RowsOK
    <2>s. RowTypes /\ \A p \in Owners : owner[p].todo \subseteq Hosts
        BY <1>0
    <2>2. ASSUME NEW h \in Hosts, Trust(o, h) PROVE RowsOK'
        <3>1. devices' = [devices EXCEPT ![h].trusted = TRUE] /\ devices[h].known /\ UNCHANGED <<question, late>>
            BY <2>2 DEF Trust, Trusts, Known
        <3>2. \A p \in Owners : owner'[p] = owner[p] \/ owner'[p].todo = {}
            BY <2>2, <1>0 DEF Trust
        <3> QED BY <2>k, <2>s, <1>0, <3>1, <3>2 DEF RowTypes, DeviceType, RowOK
    <2>3. ASSUME NEW h \in Hosts, Untrust(o, h) PROVE RowsOK'
        BY <2>k, <2>s, <1>0, <2>3 DEF Untrust, RowTypes, DeviceType, RowOK
    <2>4. CASE List(o)
        <3>1. UNCHANGED <<devices, question, late>>
            BY <2>4 DEF List
        <3>2. \A p \in Owners : owner'[p] = owner[p] \/ (owner'[p].todo \subseteq Known /\ owner'[p].pc = "trust")
            BY <2>4, <1>0 DEF List
        <3> QED BY <2>k, <2>s, <1>0, <3>1, <3>2 DEF RowTypes, RowOK, Known
    <2>5. ASSUME NEW h \in owner[o].todo, TrustOne(o, h) PROVE RowsOK'
        <3>1. /\ h \in Hosts /\ devices[h].known /\ devices' = [devices EXCEPT ![h].trusted = TRUE]
              /\ UNCHANGED <<question, late>>
            BY <1>0, <2>5 DEF TrustOne, Trusts, TodoOK
        <3>2. \A p \in Owners : owner'[p].pc = owner[p].pc /\ owner'[p].todo \subseteq owner[p].todo
            BY <2>5, <1>0 DEF TrustOne, Answers
        <3> QED BY <2>k, <2>s, <1>0, <3>1, <3>2 DEF RowTypes, DeviceType, RowOK
    <2>6. CASE Select(o)
        <3>1. /\ UNCHANGED <<devices, question>>
              /\ late' \subseteq late \cup owner[o].scope /\ owner[o].scope \subseteq Hosts
            BY <1>0, <2>6 DEF Select, Answers
        <3>2. ASSUME NEW p \in Owners
              PROVE owner'[p] = owner[p] \/ owner'[p].todo = {} \/ owner'[p].todo = {h \in owner[o].scope : question[h].status = "open"}
            BY <2>6, <1>0 DEF Select, Answers, NoAnswer
        <3>3. \A h \in Hosts : question[h].status = "open" => devices[h].known
            BY <1>0 DEF RowOK, NoRow
        <3> QED BY <2>k, <2>s, <1>0, <3>1, <3>2, <3>3 DEF RowTypes, RowOK
    <2>c. ASSUME NEW h \in owner[o].todo, owner[o].pc = "close", Closed(o, h), NEW p \in Owners
          PROVE  owner'[p].todo \subseteq owner[p].todo /\ (owner'[p].todo # {} => owner'[p].pc = owner[p].pc)
        BY <1>0, <2>c DEF Closed, Answers, NoAnswer
    <2>7. ASSUME NEW h \in owner[o].todo, Close(o, h) PROVE RowsOK'
        <3>1. /\ h \in Hosts /\ question[h].status # "none" /\ UNCHANGED <<devices, late>>
              /\ question' = [question EXCEPT ![h].status = "resolved"]
            BY <1>0, <2>7 DEF Close, TodoOK
        <3>2. question' \in [Hosts -> RowType] /\ question'[h].status = "resolved"
              /\ question'[h].severity = question[h].severity /\ \A g \in Hosts \ {h} : question'[g] = question[g]
            BY <1>0, <3>1 DEF RowType
        <3>3. \A p \in Owners : owner'[p].todo \subseteq owner[p].todo /\ (owner'[p].todo # {} => owner'[p].pc = owner[p].pc)
            BY <2>7, <2>c DEF Close
        <3> QED BY <2>k, <2>s, <1>0, <3>1, <3>2, <3>3 DEF RowTypes, RowOK
    <2>8. ASSUME NEW h \in owner[o].todo, CloseFails(o, h) PROVE RowsOK'
        <3>1. h \in Hosts /\ late' = late \cup {h} /\ UNCHANGED <<devices, question>>
            BY <1>0, <2>8 DEF CloseFails
        <3>2. \A p \in Owners : owner'[p].todo \subseteq owner[p].todo /\ (owner'[p].todo # {} => owner'[p].pc = owner[p].pc)
            BY <2>8, <2>c DEF CloseFails
        <3> QED BY <2>k, <2>s, <1>0, <3>1, <3>2 DEF RowTypes, RowOK
    <2>9. CASE AnswerFails(o)
        <3>1. UNCHANGED <<devices, question>> /\ late' \subseteq late \cup owner[o].todo \cup owner[o].scope
            BY <2>9 DEF AnswerFails
        <3>2. \A p \in Owners : owner'[p] = owner[p] \/ owner'[p].todo = {}
            BY <2>9, <1>0 DEF AnswerFails, NoAnswer
        <3>3. owner[o].scope \subseteq Hosts
            BY <1>0 DEF Answers
        <3> QED BY <2>k, <2>s, <1>0, <3>1, <3>2, <3>3 DEF RowTypes, RowOK
    <2> QED BY <1>5, <2>2, <2>3, <2>4, <2>5, <2>6, <2>7, <2>8, <2>9 DEF Answer
<1> QED BY <1>1, <1>2, <1>3, <1>4, <1>5 DEF DevicesNext, Scan

LEMMA TriedStep == ASSUME DevicesBase, DevicesNext PROVE tried' \subseteq Hosts \X ChannelSet
<1>1. ASSUME NEW r \in Scanners, Deliver(r) PROVE tried' \subseteq Hosts \X ChannelSet
    <2>1. scan[r] \in Runs /\ RunOK(scan[r]) /\ scan[r].pc = "notify"
        BY <1>1 DEF DevicesBase, RunsOK, Deliver, At
    <2>2. scan[r].channels \in Seq(ChannelSet) /\ scan[r].channels # <<>> /\ scan[r].new \subseteq Hosts
        BY <2>1 DEF RunOK, Runs
    <2>3. Head(scan[r].channels) \in ChannelSet
        BY <2>2
    <2> QED BY <1>1, <2>2, <2>3 DEF Deliver, DevicesBase
<1>2. ASSUME NEW r \in Scanners, Scan(r), ~Deliver(r) PROVE tried' = tried
    BY <1>2 DEF Scan, Begin, Sweep, Find, Insert, Sighting, ScanFails, Ask, Asked, Die
<1>3. ASSUME NEW o \in Owners, Answer(o) PROVE tried' = tried
    BY <1>3 DEF Answer, Trust, Untrust, List, TrustOne, Select, Close, CloseFails, AnswerFails
<1> QED BY <1>1, <1>2, <1>3 DEF DevicesNext, DevicesBase

\* What a step of a run does to what the runs carry: it gives up or asks about some of
\* it, or adds the host it has just inserted.
CarriedMoves ==
    \A h \in Hosts : (\E r \in Scanners : h \in Carried(r)') =>
        \/ \E r \in Scanners : h \in Carried(r)
        \/ ~devices'[h].trusted

LEMMA CarryStep ==
    ASSUME DevicesBase, CarryInv, EveryDeviceIsAskedAbout, DevicesNext
    PROVE  CarryInv' /\ EveryDeviceIsAskedAbout' /\ CarriedMoves
<1> DEFINE Goal == CarryInv' /\ EveryDeviceIsAskedAbout' /\ CarriedMoves
<1>0. /\ devices \in [Hosts -> DeviceType] /\ question \in [Hosts -> RowType]
      /\ scan \in [Scanners -> Runs] /\ \A r \in Scanners : RunOK(scan[r]) /\ scan[r] \in Runs
      /\ \A h \in Hosts : RowOK(h)
      /\ \A r \in Scanners : Carried(r) \subseteq Hosts \ {Self}
    BY CarriedHosts DEF DevicesBase, RowsOK, RowTypes, RunsOK
\* A run that gives up some of what it carries, with a trace.
<1>s. ASSUME NEW r \in Scanners,
             \A s \in Scanners \ {r} : Carried(s)' = Carried(s),
             Carried(r)' \subseteq Carried(r), lost \cup (Carried(r) \ Carried(r)') \subseteq lost',
             \A h \in Hosts : /\ devices'[h].known <=> devices[h].known
                              /\ question'[h] = NoRow <=> question[h] = NoRow
      PROVE  Goal
    <2>1. \A s \in Scanners : Carried(s)' \subseteq Carried(s)
        BY <1>s
    <2>2. ASSUME NEW h \in Hosts, NEW s \in Scanners, h \in Carried(s)' PROVE devices'[h].known /\ question'[h] = NoRow
        BY <1>s, <2>1, <2>2 DEF CarryInv
    <2>3. ASSUME NEW h \in Hosts, NEW s \in Scanners, NEW t \in Scanners, h \in Carried(s)', h \in Carried(t)' PROVE s = t
        BY <2>1, <2>3 DEF CarryInv
    <2>4. CarryInv'
        BY <2>2, <2>3 DEF CarryInv
    <2>5. ASSUME NEW h \in Hosts, h # Self, devices'[h].known
          PROVE  question'[h] # NoRow \/ h \in lost' \/ \E s \in Scanners : h \in Carried(s)'
        <3>1. question[h] # NoRow \/ h \in lost \/ \E s \in Scanners : h \in Carried(s)
            BY <1>s, <2>5 DEF EveryDeviceIsAskedAbout, Known
        <3> QED BY <1>s, <3>1
    <2>6. EveryDeviceIsAskedAbout'
        BY <2>5 DEF EveryDeviceIsAskedAbout, Known, NoRow
    <2>7. CarriedMoves
        BY <2>1 DEF CarriedMoves
    <2> QED BY <2>4, <2>6, <2>7
\* The others carry what they did.
<1>o. ASSUME NEW r \in Scanners, NEW x, scan' = [scan EXCEPT ![r] = x]
      PROVE  /\ \A s \in Scanners \ {r} : Carried(s)' = Carried(s)
             /\ Carried(r)' = x.drafts \cup {h \in Hosts \ {Self} : x.pc = "sighting" /\ h = x.host}
    BY <1>0, <1>o DEF Carried, At
<1>n. ASSUME NEW r \in Scanners, NEW x, scan' = [scan EXCEPT ![r] = x], x.drafts \subseteq Carried(r), x.pc # "sighting",
             lost' = lost \cup (Carried(r) \ x.drafts), UNCHANGED <<devices, question>>
      PROVE  Goal
    <2>1. /\ \A s \in Scanners \ {r} : Carried(s)' = Carried(s)
          /\ Carried(r)' = x.drafts
        BY <1>n, <1>o
    <2> QED BY <1>n, <1>s, <2>1
<1>1. ASSUME NEW r \in Scanners, Begin(r) PROVE Goal
    <2>1. Carried(r) = {}
        BY <1>0, <1>1 DEF Begin, At, RunOK, Carried, NoScan
    <2> DEFINE x == [NoScan EXCEPT !.pc = "sweep", !.baseline = Known = {}]
    <2>2. x.drafts = {} /\ x.pc = "sweep"
        BY DEF NoScan
    <2> QED BY <1>n, <1>1, <2>1, <2>2 DEF Begin
<1>2. ASSUME NEW r \in Scanners, NEW S \in SUBSET (Hosts \ {Self}), Sweep(r, S) PROVE Goal
    <2> DEFINE x == [scan[r] EXCEPT !.pc = "find", !.todo = S \cup {Self}]
    <2>1. Carried(r) = {} /\ x.drafts = {} /\ x.pc = "find"
        BY <1>0, <1>2 DEF Sweep, At, RunOK, Carried, Runs
    <2>2. scan' = [scan EXCEPT ![r] = x]
        BY <1>0, <1>2 DEF Sweep, Runs
    <2> QED BY <1>n, <1>2, <2>1, <2>2 DEF Sweep
<1>3. ASSUME NEW r \in Scanners, NEW todo, NEW kept, Go(r, todo, kept), kept = Carried(r),
             UNCHANGED <<devices, question, lost>>
      PROVE  Goal
    <2> DEFINE x == [scan[r] EXCEPT !.pc = IF todo = {} THEN "apply" ELSE "find", !.todo = todo,
                                    !.drafts = kept, !.host = None]
    <2>1. x.drafts = kept /\ x.pc # "sighting"
        BY <1>0 DEF Runs
    <2>2. scan' = [scan EXCEPT ![r] = x]
        BY <1>3 DEF Go
    <2>3. x.drafts \subseteq Carried(r) /\ lost' = lost \cup (Carried(r) \ x.drafts)
        BY <1>3, <2>1
    <2> HIDE DEF x
    <2> QED BY <1>n, <1>3, <2>1, <2>2, <2>3
<1>4. ASSUME NEW r \in Scanners, Find(r) PROVE Goal
    <2> DEFINE h == Min(scan[r].todo)
    <2>1. Carried(r) = scan[r].drafts
        BY <1>4 DEF Carried, Find, At
    <2>2. CASE devices[h].known
        BY <1>3, <1>4, <2>1, <2>2 DEF Find
    <2>3. CASE ~devices[h].known
        <3> DEFINE x == [scan[r] EXCEPT !.pc = "insert", !.host = h]
        <3>1. x.drafts = scan[r].drafts /\ x.pc # "sighting"
            BY <1>0 DEF Runs
        <3>2. scan' = [scan EXCEPT ![r] = x]
            BY <1>0, <1>4, <2>3 DEF Find, Runs
        <3>3. /\ x.drafts \subseteq Carried(r) /\ lost' = lost \cup (Carried(r) \ x.drafts)
              /\ UNCHANGED <<devices, question>>
            BY <1>4, <2>1, <3>1 DEF Find
        <3> HIDE DEF x
        <3> QED BY <1>n, <3>1, <3>2, <3>3
    <2> QED BY <2>2, <2>3
<1>5. ASSUME NEW r \in Scanners, Insert(r) PROVE Goal
    <2> DEFINE h == scan[r].host
               x == [scan[r] EXCEPT !.pc = "sighting"]
    <2>1. h \in Hosts /\ ~devices[h].known /\ Carried(r) = scan[r].drafts
        BY <1>0, <1>5 DEF Insert, At, RunOK, Runs, Carried
    <2>2. scan' = [scan EXCEPT ![r] = x] /\ x.drafts = scan[r].drafts /\ x.host = h /\ x.pc = "sighting"
        BY <1>0, <1>5 DEF Insert, Runs
    <2>3. /\ \A s \in Scanners \ {r} : Carried(s)' = Carried(s)
          /\ Carried(r)' = Carried(r) \cup ({h} \ {Self})
        <3> HIDE DEF x, h
        <3>1. /\ \A s \in Scanners \ {r} : Carried(s)' = Carried(s)
              /\ Carried(r)' = x.drafts \cup {g \in Hosts \ {Self} : x.pc = "sighting" /\ g = x.host}
            BY <1>o, <2>2
        <3>2. {g \in Hosts \ {Self} : x.pc = "sighting" /\ g = x.host} = {h} \ {Self}
            BY <2>1, <2>2
        <3> QED BY <2>1, <2>2, <3>1, <3>2
    <2>4. /\ devices'[h].known /\ ~devices'[h].trusted /\ \A g \in Hosts \ {h} : devices'[g] = devices[g]
          /\ question' = question /\ lost' = lost
        BY <1>0, <1>5, <2>1 DEF Insert
    <2>5. question[h] = NoRow /\ \A s \in Scanners : h \notin Carried(s)
        BY <1>0, <2>1 DEF RowOK, CarryInv
    <2>6. ASSUME NEW g \in Hosts, NEW s \in Scanners, g \in Carried(s)' PROVE devices'[g].known /\ question'[g] = NoRow
        BY <2>3, <2>4, <2>5, <2>6 DEF CarryInv
    <2>7. ASSUME NEW g \in Hosts, NEW s \in Scanners, NEW t \in Scanners, g \in Carried(s)', g \in Carried(t)' PROVE s = t
        BY <2>3, <2>5, <2>7 DEF CarryInv
    <2>8. CarryInv'
        BY <2>6, <2>7 DEF CarryInv
    <2>9. ASSUME NEW g \in Hosts, g # Self, devices'[g].known
          PROVE  question'[g] # NoRow \/ g \in lost' \/ \E s \in Scanners : g \in Carried(s)'
        <3>1. CASE g = h
            BY <2>3, <2>9, <3>1
        <3>2. CASE g # h
            BY <2>3, <2>4, <2>9, <3>2 DEF EveryDeviceIsAskedAbout, Known
        <3> QED BY <3>1, <3>2
    <2>10. EveryDeviceIsAskedAbout'
        BY <2>9 DEF EveryDeviceIsAskedAbout, Known, NoRow
    <2>11. CarriedMoves
        BY <2>3, <2>4 DEF CarriedMoves
    <2> QED BY <2>8, <2>10, <2>11
<1>6. ASSUME NEW r \in Scanners, Sighting(r) PROVE Goal
    <2>1. Carried(r) = scan[r].drafts \cup ({scan[r].host} \ {Self})
        BY <1>0, <1>6 DEF Sighting, At, RunOK, Runs, Carried
    <2> QED BY <1>3, <1>6, <2>1 DEF Sighting
<1>7. ASSUME NEW r \in Scanners, ScanFails(r) PROVE Goal
    <2> DEFINE x == [scan[r] EXCEPT !.pc = "apply", !.todo = {}, !.host = None]
    <2>1. x.drafts = scan[r].drafts /\ x.pc # "sighting" /\ scan[r].drafts \subseteq Carried(r)
        BY <1>0 DEF Runs, Carried
    <2> QED BY <1>n, <1>7, <2>1 DEF ScanFails
<1>8. ASSUME NEW r \in Scanners, NEW h \in scan[r].drafts, Ask(r, h) PROVE Goal
    <2> DEFINE x == [scan[r] EXCEPT !.drafts = @ \ {h}, !.new = IF question[h] = NoRow THEN @ \cup {h} ELSE @]
    <2>1. h \in Hosts /\ Carried(r) = scan[r].drafts
        BY <1>0, <1>8 DEF Runs, Carried, Ask, At
    <2>2. scan' = [scan EXCEPT ![r] = x] /\ x.drafts = scan[r].drafts \ {h} /\ x.pc # "sighting"
        BY <1>0, <1>8 DEF Ask, Runs, At
    <2>3. /\ \A s \in Scanners \ {r} : Carried(s)' = Carried(s)
          /\ Carried(r)' = Carried(r) \ {h}
        BY <1>o, <2>1, <2>2
    <2>4. /\ devices' = devices /\ lost' = lost /\ question'[h] # NoRow
          /\ \A g \in Hosts \ {h} : question'[g] = question[g]
        BY <1>0, <1>8, <2>1 DEF Ask, NoRow
    <2>5. ASSUME NEW g \in Hosts, NEW s \in Scanners, g \in Carried(s)'
          PROVE  g \in Carried(s) /\ devices'[g].known /\ question'[g] = NoRow
        BY <2>1, <2>3, <2>4, <2>5 DEF CarryInv
    <2>6. ASSUME NEW g \in Hosts, NEW s \in Scanners, NEW t \in Scanners, g \in Carried(s)', g \in Carried(t)' PROVE s = t
        BY <2>5, <2>6 DEF CarryInv
    <2>7. CarryInv'
        BY <2>5, <2>6 DEF CarryInv
    <2>8. ASSUME NEW g \in Hosts, g # Self, devices'[g].known
          PROVE  question'[g] # NoRow \/ g \in lost' \/ \E s \in Scanners : g \in Carried(s)'
        <3>1. CASE g = h
            BY <2>4, <3>1
        <3>2. CASE g # h
            <4>1. question[g] # NoRow \/ g \in lost \/ \E s \in Scanners : g \in Carried(s)
                BY <2>4, <2>8 DEF EveryDeviceIsAskedAbout, Known
            <4> QED BY <2>3, <2>4, <3>2, <4>1
        <3> QED BY <3>1, <3>2
    <2>9. EveryDeviceIsAskedAbout'
        BY <2>8 DEF EveryDeviceIsAskedAbout, Known, NoRow
    <2>10. CarriedMoves
        BY <2>5 DEF CarriedMoves
    <2> QED BY <2>7, <2>9, <2>10
<1>9. ASSUME NEW r \in Scanners, Asked(r) PROVE Goal
    <2> DEFINE x == [scan[r] EXCEPT !.pc = "notify", !.channels = Channels]
    <2>1. Carried(r) = {}
        BY <1>9 DEF Asked, At, Carried
    <2>2. x.drafts = {} /\ x.pc # "sighting"
        BY <1>0, <1>9 DEF Runs, Asked
    <2>3. NoScan.drafts = {} /\ NoScan.pc # "sighting"
        BY DEF NoScan
    <2>4. scan' = [scan EXCEPT ![r] = x] \/ scan' = [scan EXCEPT ![r] = NoScan]
        BY <1>9 DEF Asked
    <2> QED BY <1>n, <1>9, <2>1, <2>2, <2>3, <2>4 DEF Asked
<1>10. ASSUME NEW r \in Scanners, Deliver(r) PROVE Goal
    <2> DEFINE x == [scan[r] EXCEPT !.channels = Tail(scan[r].channels)]
    <2>1. Carried(r) = {} /\ scan[r].drafts = {}
        BY <1>0, <1>10 DEF Deliver, At, Carried, RunOK
    <2>2. x.drafts = {} /\ x.pc # "sighting"
        BY <1>0, <1>10, <2>1 DEF Runs, Deliver, At
    <2>3. NoScan.drafts = {} /\ NoScan.pc # "sighting"
        BY DEF NoScan
    <2>4. scan' = [scan EXCEPT ![r] = x] \/ scan' = [scan EXCEPT ![r] = NoScan]
        BY <1>10 DEF Deliver
    <2> QED BY <1>n, <1>10, <2>1, <2>2, <2>3, <2>4 DEF Deliver
<1>11. ASSUME NEW r \in Scanners, Die(r) PROVE Goal
    <2>1. NoScan.drafts = {} /\ NoScan.pc # "sighting"
        BY DEF NoScan
    <2> QED BY <1>n, <1>11, <2>1 DEF Die
<1>12. ASSUME NEW o \in Owners, Answer(o) PROVE Goal
    <2>1. UNCHANGED <<scan, lost>>
        BY <1>12 DEF Answer, Trust, Untrust, List, TrustOne, Select, Close, CloseFails, AnswerFails
    <2>2. \A r \in Scanners : Carried(r)' = Carried(r)
        BY <2>1 DEF Carried, At
    <2>3. \A h \in Hosts : devices'[h].known <=> devices[h].known
        BY <1>0, <1>12 DEF Answer, Trust, Untrust, List, TrustOne, Select, Close, CloseFails, AnswerFails, Trusts, DeviceType
    <2>4. \A h \in Hosts : question'[h] = NoRow <=> question[h] = NoRow
        <3>1. ASSUME NEW h \in owner[o].todo, Close(o, h) PROVE \A g \in Hosts : question'[g] = NoRow <=> question[g] = NoRow
            <4>1. h \in Hosts /\ question[h].status # "none"
                BY <3>1 DEF Close, DevicesBase, AnswersOK, Answers, RowsOK, TodoOK
            <4> QED BY <1>0, <3>1, <4>1 DEF Close, NoRow, RowType
        <3>2. CASE question' = question
            BY <3>2
        <3> QED BY <1>12, <3>1, <3>2 DEF Answer, Trust, Untrust, List, TrustOne, Select, CloseFails, AnswerFails
    <2>5. CASE Scanners # {}
        <3>1. PICK r \in Scanners : TRUE
            BY <2>5
        <3> QED BY <1>s, <2>1, <2>2, <2>3, <2>4, <3>1
    <2>6. CASE Scanners = {}
        BY <2>1, <2>3, <2>4, <2>6 DEF CarryInv, EveryDeviceIsAskedAbout, CarriedMoves, Known, NoRow
    <2> QED BY <2>5, <2>6
<1> QED BY <1>1, <1>2, <1>4, <1>5, <1>6, <1>7, <1>8, <1>9, <1>10, <1>11, <1>12 DEF DevicesNext, Scan

-----------------------------------------------------------------------------
(* Alerts.                                                                 *)

\* What a step leaves of a run that it is not about.
LEMMA SendKept ==
    ASSUME NEW r \in Scanners, SendOK(r), scan'[r] = scan[r], tried \subseteq tried',
           \A h \in scan[r].new : question'[h].severity = question[h].severity
    PROVE  SendOK(r)'
BY DEF SendOK, Severity, Sent

LEMMA SendStep ==
    ASSUME DevicesBase, CarryInv, SendInv, AlertsReachEveryChannel, DevicesNext
    PROVE  SendInv' /\ AlertsReachEveryChannel'
<1> DEFINE Goal == SendInv' /\ AlertsReachEveryChannel'
           Alerted(h) == question[h].severity \in Loud /\ h \notin muted /\ (\A r \in Scanners : h \notin scan[r].new)
                            => \A i \in DOMAIN Channels : <<h, Channels[i]>> \in tried
<1>0. /\ question \in [Hosts -> RowType]
      /\ scan \in [Scanners -> Runs] /\ \A r \in Scanners : RunOK(scan[r]) /\ scan[r] \in Runs
      /\ \A h \in Hosts : RowOK(h)
      /\ \A r \in Scanners : scan[r].new \subseteq Hosts
      /\ \A r \in Scanners : SendOK(r)
      /\ \A h \in Hosts : Alerted(h)
    BY DEF DevicesBase, RowsOK, RowTypes, RunsOK, SendInv, AlertsReachEveryChannel, Runs
\* A run that sends nothing and has as many devices as before, or none.
<1>n. ASSUME NEW r \in Scanners, NEW x, scan' = [scan EXCEPT ![r] = x], x.pc # "notify",
             x.new = scan[r].new, x.new # {} => x.baseline = scan[r].baseline, question' = question, tried' = tried, muted' = muted
      PROVE  Goal
    <2>1. /\ \A s \in Scanners \ {r} : scan'[s] = scan[s]
          /\ scan'[r] = x
        BY <1>0, <1>n
    <2>2. ASSUME NEW s \in Scanners \ {r} PROVE SendOK(s)'
        BY <1>0, <1>n, <2>1, SendKept
    <2>3. SendOK(r)'
        BY <1>0, <1>n, <2>1 DEF SendOK, Severity
    <2>4. \A s \in Scanners : scan'[s].new = scan[s].new
        BY <1>n, <2>1
    <2>5. ASSUME NEW h \in Hosts PROVE Alerted(h)'
        BY <1>0, <1>n, <2>4
    <2> QED BY <2>2, <2>3, <2>5 DEF SendInv, AlertsReachEveryChannel
\* A run that is over with what it had to say.
<1>d. ASSUME NEW r \in Scanners, scan' = [scan EXCEPT ![r] = NoScan], question' = question,
             tried \subseteq tried', muted \subseteq muted',
             \A h \in scan[r].new : \/ h \in muted' \/ question[h].severity \notin Loud
                                    \/ \A i \in DOMAIN Channels : <<h, Channels[i]>> \in tried'
      PROVE  Goal
    <2>1. /\ \A s \in Scanners \ {r} : scan'[s] = scan[s]
          /\ scan'[r] = NoScan
        BY <1>0, <1>d
    <2>2. ASSUME NEW s \in Scanners \ {r} PROVE SendOK(s)'
        BY <1>0, <1>d, <2>1, SendKept
    <2>3. SendOK(r)'
        BY <2>1 DEF SendOK, NoScan
    <2>4. ASSUME NEW h \in Hosts PROVE Alerted(h)'
        BY <1>0, <1>d, <2>1
    <2> QED BY <2>2, <2>3, <2>4 DEF SendInv, AlertsReachEveryChannel
<1>1. ASSUME NEW r \in Scanners, Begin(r) PROVE Goal
    <2> DEFINE x == [NoScan EXCEPT !.pc = "sweep", !.baseline = Known = {}]
    <2>1. x.new = {} /\ x.pc = "sweep" /\ scan[r].new = {}
        BY <1>0, <1>1 DEF NoScan, Begin, At, RunOK
    <2> QED BY <1>n, <1>1, <2>1 DEF Begin
<1>2. ASSUME NEW r \in Scanners, NEW S \in SUBSET (Hosts \ {Self}), Sweep(r, S) PROVE Goal
    <2> DEFINE x == [scan[r] EXCEPT !.pc = "find", !.todo = S \cup {Self}]
    <2>1. x.new = scan[r].new /\ x.pc = "find" /\ x.baseline = scan[r].baseline
        BY <1>0 DEF Runs
    <2>2. scan' = [scan EXCEPT ![r] = x]
        BY <1>0, <1>2 DEF Sweep, Runs
    <2> QED BY <1>n, <1>2, <2>1, <2>2 DEF Sweep
<1>3. ASSUME NEW r \in Scanners, NEW todo, NEW kept, Go(r, todo, kept),
             UNCHANGED <<question, tried, muted>>
      PROVE  Goal
    <2> DEFINE x == [scan[r] EXCEPT !.pc = IF todo = {} THEN "apply" ELSE "find", !.todo = todo,
                                    !.drafts = kept, !.host = None]
    <2>1. x.new = scan[r].new /\ x.pc # "notify" /\ x.baseline = scan[r].baseline
        BY <1>0 DEF Runs
    <2>2. scan' = [scan EXCEPT ![r] = x]
        BY <1>3 DEF Go
    <2> HIDE DEF x
    <2> QED BY <1>n, <1>3, <2>1, <2>2
<1>4. ASSUME NEW r \in Scanners, Find(r) PROVE Goal
    <2> DEFINE h == Min(scan[r].todo)
    <2>1. CASE devices[h].known
        BY <1>3, <1>4, <2>1 DEF Find
    <2>2. CASE ~devices[h].known
        <3> DEFINE x == [scan[r] EXCEPT !.pc = "insert", !.host = h]
        <3>1. x.new = scan[r].new /\ x.pc # "notify" /\ x.baseline = scan[r].baseline
            BY <1>0 DEF Runs
        <3>2. scan' = [scan EXCEPT ![r] = x]
            BY <1>0, <1>4, <2>2 DEF Find, Runs
        <3> HIDE DEF x
        <3> QED BY <1>n, <1>4, <3>1, <3>2 DEF Find
    <2> QED BY <2>1, <2>2
<1>5. ASSUME NEW r \in Scanners, Insert(r) PROVE Goal
    <2> DEFINE x == [scan[r] EXCEPT !.pc = "sighting"]
    <2>1. x.new = scan[r].new /\ x.pc # "notify" /\ x.baseline = scan[r].baseline
        BY <1>0 DEF Runs
    <2>2. scan' = [scan EXCEPT ![r] = x]
        BY <1>0, <1>5 DEF Insert, Runs
    <2> HIDE DEF x
    <2> QED BY <1>n, <1>5, <2>1, <2>2 DEF Insert
<1>6. ASSUME NEW r \in Scanners, Sighting(r) PROVE Goal
    BY <1>3, <1>6 DEF Sighting
<1>7. ASSUME NEW r \in Scanners, ScanFails(r) PROVE Goal
    <2> DEFINE x == [scan[r] EXCEPT !.pc = "apply", !.todo = {}, !.host = None]
    <2>1. x.new = scan[r].new /\ x.pc # "notify" /\ x.baseline = scan[r].baseline
        BY <1>0 DEF Runs
    <2> QED BY <1>n, <1>7, <2>1 DEF ScanFails
<1>8. ASSUME NEW r \in Scanners, NEW h \in scan[r].drafts, Ask(r, h) PROVE Goal
    <2> DEFINE x == [scan[r] EXCEPT !.drafts = @ \ {h}, !.new = IF question[h] = NoRow THEN @ \cup {h} ELSE @]
    <2>1. h \in Hosts /\ h \in Carried(r)
        BY <1>0 DEF Runs, Carried
    <2>2. question[h] = NoRow
        BY <2>1 DEF CarryInv
    <2>3. scan' = [scan EXCEPT ![r] = x] /\ x.new = scan[r].new \cup {h} /\ x.pc = "apply" /\ x.baseline = scan[r].baseline
        BY <1>0, <1>8, <2>2 DEF Ask, Runs, At
    <2>4. /\ \A s \in Scanners \ {r} : scan'[s] = scan[s]
          /\ scan'[r].new = scan[r].new \cup {h} /\ scan'[r].pc = "apply" /\ scan'[r].baseline = scan[r].baseline
        BY <1>0, <2>3
    <2>5. /\ question'[h].severity = Severity(r) /\ \A g \in Hosts \ {h} : question'[g] = question[g]
          /\ tried' = tried /\ muted' = muted
        BY <1>0, <1>8, <2>1 DEF Ask
    <2>6. ASSUME NEW s \in Scanners PROVE h \notin scan[s].new
        <3>1. SUFFICES ASSUME h \in scan[s].new PROVE FALSE
            OBVIOUS
        <3>2. question[h].severity = Severity(s)
            BY <1>0, <3>1 DEF SendOK
        <3> QED BY <2>2, <3>2 DEF NoRow, Severity
    <2>7. ASSUME NEW s \in Scanners \ {r} PROVE SendOK(s)'
        <3>1. \A g \in scan[s].new : question'[g].severity = question[g].severity
            BY <1>0, <2>5, <2>6
        <3> QED BY <1>0, <2>4, <2>5, <3>1, SendKept
    <2>8. SendOK(r)'
        <3>1. Severity(r)' = Severity(r)
            BY <2>4 DEF Severity
        <3>2. \A g \in scan[r].new : question'[g].severity = question[g].severity
            BY <1>0, <2>5, <2>6
        <3> QED BY <1>0, <2>4, <2>5, <3>1, <3>2 DEF SendOK
    <2>9. ASSUME NEW g \in Hosts PROVE Alerted(g)'
        <3>1. CASE g = h
            BY <2>4, <3>1
        <3>2. CASE g # h
            <4>1. \A s \in Scanners : g \in scan[s].new => g \in scan'[s].new
                BY <2>4
            <4>2. question'[g] = question[g]
                BY <2>5, <3>2
            <4> QED BY <1>0, <2>5, <4>1, <4>2
        <3> QED BY <3>1, <3>2
    <2> QED BY <2>7, <2>8, <2>9 DEF SendInv, AlertsReachEveryChannel
<1>9. ASSUME NEW r \in Scanners, Asked(r) PROVE Goal
    <2>1. UNCHANGED <<question, tried, muted>>
        BY <1>9 DEF Asked
    <2>2. CASE scan[r].new # {} /\ Severity(r) \in Loud /\ Channels # <<>>
        <3> DEFINE x == [scan[r] EXCEPT !.pc = "notify", !.channels = Channels]
        <3>1. x.new = scan[r].new /\ x.pc = "notify" /\ x.channels = Channels /\ x.baseline = scan[r].baseline
            BY <1>0 DEF Runs
        <3>2. scan' = [scan EXCEPT ![r] = x]
            BY <1>9, <2>2 DEF Asked
        <3> HIDE DEF x
        <3>3. /\ \A s \in Scanners \ {r} : scan'[s] = scan[s]
              /\ scan'[r] = x
            BY <1>0, <3>2
        <3>4. ASSUME NEW s \in Scanners \ {r} PROVE SendOK(s)'
            BY <1>0, <2>1, <3>3, SendKept
        <3>5. SendOK(r)'
            <4>1. Len(Channels) \in Nat
                BY NewDevicesAssumption
            <4>2. Severity(r)' = Severity(r) /\ Sent(r)' = 0
                BY <3>1, <3>3, <4>1 DEF Severity, Sent
            <4> QED BY <1>0, <2>1, <3>1, <3>3, <4>1, <4>2 DEF SendOK
        <3>6. \A s \in Scanners : scan'[s].new = scan[s].new
            BY <3>1, <3>3
        <3>7. ASSUME NEW h \in Hosts PROVE Alerted(h)'
            BY <1>0, <2>1, <3>6
        <3> QED BY <3>4, <3>5, <3>7 DEF SendInv, AlertsReachEveryChannel
    <2>3. CASE ~(scan[r].new # {} /\ Severity(r) \in Loud /\ Channels # <<>>)
        <3>1. scan' = [scan EXCEPT ![r] = NoScan]
            BY <1>9, <2>3 DEF Asked
        <3>2. Channels = <<>> => DOMAIN Channels = {}
            OBVIOUS
        <3>3. \A h \in scan[r].new : question[h].severity = Severity(r)
            BY <1>0 DEF SendOK
        <3> QED BY <1>d, <2>1, <2>3, <3>1, <3>2, <3>3
    <2> QED BY <2>2, <2>3
<1>10. ASSUME NEW r \in Scanners, Deliver(r) PROVE Goal
    <2> DEFINE c == scan[r].channels
               n == Len(Channels)
    <2>1. scan[r].pc = "notify" /\ c \in Seq(ChannelSet) /\ c # <<>>
        BY <1>0, <1>10 DEF Deliver, At, RunOK, Runs
    <2>2. /\ Len(c) \in Nat \ {0} /\ Len(Tail(c)) = Len(c) - 1 /\ Tail(c) \in Seq(ChannelSet) /\ Head(c) = c[1]
          /\ \A i \in 1..Len(Tail(c)) : Tail(c)[i] = c[i + 1]
        BY <2>1, HeadTailProperties
    <2>3. /\ n \in Nat /\ n - Len(c) \in Nat
          /\ \A i \in 1..Len(c) : c[i] = Channels[n - Len(c) + i]
          /\ \A h \in scan[r].new, i \in 1..(n - Len(c)) : <<h, Channels[i]>> \in tried
          /\ DOMAIN Channels = 1..n
        <3>1. Channels \in Seq(ChannelSet)
            BY NewDevicesAssumption DEF ChannelSet
        <3>2. n \in Nat /\ DOMAIN Channels = 1..n
            BY <3>1
        <3>3. SendOK(r)
            BY <1>0
        <3> QED BY <2>1, <3>2, <3>3 DEF SendOK, Sent
    <2>a. Len(c) \in Nat /\ Len(c) >= 1 /\ n \in Nat
        BY <2>2, <2>3
    <2> HIDE DEF n, c
    <2>4. Head(c) = Channels[n - Len(c) + 1]
        <3>1. 1 \in 1..Len(c)
            BY <2>a
        <3> QED BY <2>2, <2>3, <3>1
    <2>5. tried' = tried \cup (scan[r].new \X {Head(c)}) /\ UNCHANGED <<question, muted>>
        BY <1>10 DEF Deliver, c
    <2>6. \A h \in scan[r].new, i \in 1..(n - Len(c) + 1) : <<h, Channels[i]>> \in tried'
        <3>1. ASSUME NEW h \in scan[r].new, NEW i \in 1..(n - Len(c) + 1) PROVE <<h, Channels[i]>> \in tried'
            <4>1. CASE i = n - Len(c) + 1
                BY <2>4, <2>5, <4>1
            <4>2. CASE i # n - Len(c) + 1
                <5>1. i \in 1..(n - Len(c))
                    BY <2>3, <4>2, <2>2
                <5> QED BY <2>3, <2>5, <5>1
            <4> QED BY <4>1, <4>2
        <3> QED BY <3>1
    <2>7. CASE Tail(c) = <<>>
        <3>1. scan' = [scan EXCEPT ![r] = NoScan]
            BY <1>10, <2>7 DEF Deliver, c
        <3>2. n - Len(c) + 1 = n
            <4>1. Len(Tail(c)) = 0
                BY <2>2, <2>7, EmptySeq
            <4> QED BY <2>2, <2>a, <4>1
        <3> QED BY <1>d, <2>3, <2>5, <2>6, <3>1, <3>2
    <2>8. CASE Tail(c) # <<>>
        <3> DEFINE x == [scan[r] EXCEPT !.channels = Tail(c)]
        <3>1. x.new = scan[r].new /\ x.pc = "notify" /\ x.channels = Tail(c) /\ x.baseline = scan[r].baseline
            BY <1>0, <2>1 DEF Runs
        <3>2. scan' = [scan EXCEPT ![r] = x]
            BY <1>10, <2>8 DEF Deliver, c
        <3> HIDE DEF x
        <3>3. /\ \A s \in Scanners \ {r} : scan'[s] = scan[s]
              /\ scan'[r] = x
            BY <1>0, <3>2
        <3>4. ASSUME NEW s \in Scanners \ {r} PROVE SendOK(s)'
            BY <1>0, <2>5, <3>3, SendKept
        <3>5. SendOK(r)'
            <4>1. Severity(r)' = Severity(r) /\ Sent(r)' = n - Len(c) + 1
                <5>1. n - (Len(c) - 1) = n - Len(c) + 1
                    BY <2>a
                <5> QED BY <2>2, <3>1, <3>3, <5>1 DEF Severity, Sent, n
            <4>2. \A i \in 1..Len(Tail(c)) : Tail(c)[i] = Channels[n - Len(c) + 1 + i]
                <5>1. ASSUME NEW i \in 1..Len(Tail(c)) PROVE Tail(c)[i] = Channels[n - Len(c) + 1 + i]
                    <6>1. i + 1 \in 1..Len(c) /\ Tail(c)[i] = c[i + 1]
                        BY <2>2
                    <6>2. n - Len(c) + (i + 1) = n - Len(c) + 1 + i
                        BY <2>2, <2>3
                    <6> QED BY <2>3, <6>1, <6>2
                <5> QED BY <5>1
            <4>3. n - Len(c) + 1 \in Nat
                BY <2>2, <2>3
            <4>4. \A h \in scan[r].new : question[h].severity = Severity(r)
                BY <1>0 DEF SendOK
            <4> QED BY <2>5, <2>6, <3>1, <3>3, <4>1, <4>2, <4>3, <4>4 DEF SendOK
        <3>6. \A s \in Scanners : scan'[s].new = scan[s].new
            BY <3>1, <3>3
        <3>7. ASSUME NEW h \in Hosts PROVE Alerted(h)'
            BY <1>0, <2>5, <3>6
        <3> QED BY <3>4, <3>5, <3>7 DEF SendInv, AlertsReachEveryChannel
    <2> QED BY <2>7, <2>8
<1>11. ASSUME NEW r \in Scanners, Die(r) PROVE Goal
    BY <1>d, <1>11 DEF Die
<1>12. ASSUME NEW o \in Owners, Answer(o) PROVE Goal
    <2>1. UNCHANGED <<scan, tried, muted>>
        BY <1>12 DEF Answer, Trust, Untrust, List, TrustOne, Select, Close, CloseFails, AnswerFails
    <2>2. \A h \in Hosts : question'[h].severity = question[h].severity
        BY <1>0, <1>12 DEF Answer, Trust, Untrust, List, TrustOne, Select, Close, CloseFails, AnswerFails, RowType
    <2>3. ASSUME NEW s \in Scanners PROVE SendOK(s)'
        BY <1>0, <2>1, <2>2, SendKept
    <2>4. ASSUME NEW h \in Hosts PROVE Alerted(h)'
        BY <1>0, <2>1, <2>2
    <2> QED BY <2>3, <2>4 DEF SendInv, AlertsReachEveryChannel
<1> QED BY <1>1, <1>2, <1>4, <1>5, <1>6, <1>7, <1>8, <1>9, <1>10, <1>11, <1>12 DEF DevicesNext, Scan

-----------------------------------------------------------------------------
(* Trust.                                                                  *)

Settled(h) == question[h].status # "open" /\ \A r \in Scanners : h \notin Carried(r)

LEMMA SettledStep ==
    ASSUME DevicesBase, CarryInv, CarriedMoves, SettledInv, DevicesNext
    PROVE  SettledInv'
<1>0. /\ devices \in [Hosts -> DeviceType] /\ question \in [Hosts -> RowType]
      /\ scan \in [Scanners -> Runs]
      /\ owner \in [Owners -> Answers] /\ \A o \in Owners : AnswerOK(owner[o]) /\ owner[o] \in Answers
      /\ \A h \in Hosts : RowOK(h)
      /\ \A o \in Owners : TodoOK(o)
      /\ \A h \in Hosts : devices[h].trusted /\ h \notin late => Settled(h) \/ \E o \in Owners : Answering(o, h)
    BY DEF DevicesBase, RowsOK, RowTypes, RunsOK, AnswersOK, SettledInv, Settled
<1>g. ASSUME \A h \in Hosts : devices'[h].trusted /\ h \notin late' => Settled(h)' \/ \E o \in Owners : Answering(o, h)'
      PROVE  SettledInv'
    BY <1>g DEF SettledInv, Settled
\* Runs: only what they carry is asked.
<1>1. ASSUME NEW r \in Scanners, Scan(r) PROVE SettledInv'
    <2>1. owner' = owner /\ late' = late
        BY <1>1 DEF Scan, Begin, Sweep, Find, Insert, Sighting, ScanFails, Ask, Asked, Deliver, Die
    <2>2. \A h \in Hosts : devices'[h].trusted => devices[h].trusted
        <3>1. CASE Insert(r)
            BY <1>0, <3>1 DEF Insert
        <3>2. CASE devices' = devices
            BY <3>2
        <3> QED BY <1>1, <3>1, <3>2 DEF Scan, Begin, Sweep, Find, Sighting, ScanFails, Ask, Asked, Deliver, Die
    <2>3. \A h \in Hosts : question'[h] = question[h] \/ \E s \in Scanners : h \in Carried(s)
        <3>1. ASSUME NEW h \in scan[r].drafts, Ask(r, h)
              PROVE  \A g \in Hosts : question'[g] = question[g] \/ g \in Carried(r)
            BY <1>0, <3>1 DEF Ask, Carried
        <3>2. CASE question' = question
            BY <3>2
        <3> QED BY <1>1, <3>1, <3>2 DEF Scan, Begin, Sweep, Find, Insert, Sighting, ScanFails, Asked, Deliver, Die
    <2>4. ASSUME NEW h \in Hosts, devices'[h].trusted, h \notin late'
          PROVE  Settled(h)' \/ \E o \in Owners : Answering(o, h)'
        <3>1. CASE Settled(h)
            <4>1. \A s \in Scanners : ~(h \in Carried(s)')
                BY <2>4, <3>1 DEF CarriedMoves, Settled
            <4>2. question'[h] = question[h]
                BY <2>3, <3>1 DEF Settled
            <4> QED BY <3>1, <4>1, <4>2 DEF Settled
        <3>2. CASE \E o \in Owners : Answering(o, h)
            BY <2>1, <3>2 DEF Answering
        <3> QED BY <1>0, <2>1, <2>2, <2>4, <3>1, <3>2
    <2> QED BY <1>g, <2>4
\* Owners: nothing comes to be carried or asked.
<1>2. ASSUME NEW o \in Owners, Answer(o) PROVE SettledInv'
    <2>1. scan' = scan
        BY <1>2 DEF Answer, Trust, Untrust, List, TrustOne, Select, Close, CloseFails, AnswerFails
    <2>2. /\ late \subseteq late' /\ \A p \in Owners \ {o} : owner'[p] = owner[p]
        BY <1>0, <1>2 DEF Answer, Trust, Untrust, List, TrustOne, Select, Close, CloseFails, AnswerFails, Closed
    <2>3. \A h \in Hosts : question[h].status # "open" => question'[h].status # "open"
        BY <1>0, <1>2 DEF Answer, Trust, Untrust, List, TrustOne, Select, Close, CloseFails, AnswerFails, RowType
    <2>4. ASSUME NEW h \in Hosts, Settled(h) PROVE Settled(h)'
        BY <2>1, <2>3, <2>4 DEF Settled, Carried, At
    <2>5. ASSUME NEW h \in Hosts, NEW p \in Owners, p # o, Answering(p, h) PROVE Answering(p, h)'
        BY <2>2, <2>5 DEF Answering
    \* It suffices to look at what o itself was answering, or has trusted now.
    <2>k. ASSUME \A h \in Hosts : devices'[h].trusted /\ h \notin late' =>
                     \/ Settled(h)' \/ Answering(o, h)'
                     \/ devices[h].trusted /\ ~Answering(o, h)
          PROVE SettledInv'
        <3>1. ASSUME NEW h \in Hosts, devices'[h].trusted, h \notin late'
              PROVE  Settled(h)' \/ \E p \in Owners : Answering(p, h)'
            <4>1. CASE Settled(h)' \/ Answering(o, h)'
                BY <4>1
            <4>2. CASE devices[h].trusted /\ ~Answering(o, h)
                <5>1. Settled(h) \/ \E p \in Owners : Answering(p, h)
                    BY <1>0, <2>2, <3>1, <4>2
                <5> QED BY <2>4, <2>5, <4>2, <5>1
            <4> QED BY <2>k, <3>1, <4>1, <4>2
        <3> QED BY <1>g, <3>1
    <2>6. ASSUME NEW h \in Hosts, Trust(o, h) PROVE SettledInv'
        <3>1. /\ owner[o] = NoAnswer /\ owner'[o] = [pc |-> "trust", scope |-> {h}, todo |-> {}]
              /\ devices' = [devices EXCEPT ![h].trusted = TRUE]
            BY <1>0, <2>6 DEF Trust, Trusts
        <3>2. /\ Answering(o, h)' /\ \A g \in Hosts : ~Answering(o, g)
              /\ \A g \in Hosts \ {h} : devices'[g] = devices[g]
            BY <1>0, <3>1 DEF Answering, NoAnswer
        <3> QED BY <2>k, <3>2
    <2>7. ASSUME NEW h \in Hosts, Untrust(o, h) PROVE SettledInv'
        <3>1. owner' = owner /\ \A g \in Hosts : devices'[g].trusted => devices[g].trusted
            BY <1>0, <2>7 DEF Untrust
        <3> QED BY <2>k, <3>1 DEF Answering
    <2>8. CASE List(o)
        <3>1. devices' = devices /\ owner[o] = NoAnswer
            BY <2>8 DEF List
        <3>2. \A g \in Hosts : ~Answering(o, g)
            BY <3>1 DEF Answering, NoAnswer
        <3> QED BY <2>k, <3>1, <3>2
    <2>9. ASSUME NEW h \in owner[o].todo, TrustOne(o, h) PROVE SettledInv'
        <3>1. /\ owner[o].pc = "trust" /\ owner'[o].pc = "trust" /\ owner'[o].scope = owner[o].scope
              /\ h \in owner[o].scope /\ h \in Hosts
              /\ devices' = [devices EXCEPT ![h].trusted = TRUE]
            BY <1>0, <2>9 DEF TrustOne, Trusts, Answers, AnswerOK
        <3>2. /\ \A g \in Hosts : Answering(o, g) => Answering(o, g)'
              /\ Answering(o, h)'
              /\ \A g \in Hosts \ {h} : devices'[g] = devices[g]
            BY <1>0, <3>1 DEF Answering
        <3> QED BY <2>k, <3>2
    <2>10. CASE Select(o)
        <3>1. devices' = devices /\ question' = question
              /\ late' = late \cup (owner[o].scope \cap UNION {Carried(r) : r \in Scanners})
            BY <2>10 DEF Select
        <3>2. ASSUME NEW h \in Hosts, h \in owner[o].scope, h \notin late', question[h].status # "open" PROVE Settled(h)
            BY <3>1, <3>2 DEF Settled
        <3>3. ASSUME NEW h \in Hosts, h \in owner[o].scope, question[h].status = "open" PROVE Answering(o, h)'
            <4> DEFINE open == {g \in owner[o].scope : question[g].status = "open"}
            <4>1. owner' = [owner EXCEPT ![o] = [@ EXCEPT !.pc = "close", !.todo = open]]
                BY <2>10, <3>3 DEF Select
            <4>2. owner'[o].pc = "close" /\ owner'[o].todo = open /\ owner'[o].scope = owner[o].scope
                BY <1>0, <4>1 DEF Answers
            <4> QED BY <3>3, <4>2 DEF Answering
        <3>4. ASSUME NEW h \in Hosts, h \notin owner[o].scope PROVE ~Answering(o, h)
            BY <3>4 DEF Answering
        <3> QED BY <2>k, <2>4, <3>1, <3>2, <3>3, <3>4
    <2>c. ASSUME NEW h \in owner[o].todo, owner[o].pc = "close", Closed(o, h), NEW g \in Hosts, g # h, Answering(o, g)
          PROVE  Answering(o, g)'
        <3> DEFINE rest == owner[o].todo \ {h}
        <3>1. g \in rest
            BY <2>c DEF Answering
        <3>2. owner' = [owner EXCEPT ![o] = [@ EXCEPT !.todo = rest]]
            BY <2>c, <3>1 DEF Closed
        <3>3. owner'[o].pc = owner[o].pc /\ owner'[o].todo = rest /\ owner'[o].scope = owner[o].scope
            BY <1>0, <3>2 DEF Answers
        <3> QED BY <2>c, <3>1, <3>3 DEF Answering
    <2>11. ASSUME NEW h \in owner[o].todo, Close(o, h) PROVE SettledInv'
        <3>1. h \in Hosts /\ question[h].status # "none" /\ question'[h].status = "resolved" /\ devices' = devices
            BY <1>0, <2>11 DEF Close, TodoOK, Answers
        <3>2. \A r \in Scanners : h \notin Carried(r)
            BY <3>1 DEF CarryInv, NoRow
        <3>3. Settled(h)'
            BY <2>1, <3>1, <3>2 DEF Settled, Carried, At
        <3>4. \A g \in Hosts : g # h /\ Answering(o, g) => Answering(o, g)'
            BY <2>c, <2>11 DEF Close
        <3> QED BY <2>k, <3>1, <3>3, <3>4
    <2>12. ASSUME NEW h \in owner[o].todo, CloseFails(o, h) PROVE SettledInv'
        <3>1. h \in late' /\ devices' = devices
            BY <2>12 DEF CloseFails
        <3>2. \A g \in Hosts : g # h /\ Answering(o, g) => Answering(o, g)'
            BY <2>c, <2>12 DEF CloseFails
        <3> QED BY <2>k, <3>1, <3>2
    <2>13. CASE AnswerFails(o)
        <3>1. devices' = devices /\ late' = late \cup (IF owner[o].pc = "close" THEN owner[o].todo ELSE owner[o].scope)
            BY <2>13 DEF AnswerFails
        <3>2. \A g \in Hosts : g \notin late' => ~Answering(o, g)
            BY <3>1 DEF Answering
        <3> QED BY <2>k, <3>1, <3>2
    <2> QED BY <1>2, <2>6, <2>7, <2>8, <2>9, <2>10, <2>11, <2>12, <2>13 DEF Answer
<1> QED BY <1>1, <1>2 DEF DevicesNext

-----------------------------------------------------------------------------

LEMMA DevicesInvInit == DevicesInit => DevicesInv
<1> SUFFICES ASSUME DevicesInit PROVE DevicesInv
    OBVIOUS
<1>1. RunsOK /\ AnswersOK
    <2>1. NoScan \in Runs /\ NoAnswer \in Answers
        BY NoScanOK, NoAnswerOK DEF RunOK, AnswerOK
    <2> QED BY <2>1, NoScanOK, NoAnswerOK DEF DevicesInit, RunsOK, AnswersOK
<1>2. RowsOK
    BY DEF DevicesInit, RowsOK, RowTypes, RowOK, TodoOK, NoDevice, NoRow, NoAnswer, DeviceType, RowType
<1>3. \A r \in Scanners : Carried(r) = {} /\ scan[r] = NoScan
    BY DEF DevicesInit, Carried, At, NoScan
<1>4. CarryInv
    BY <1>3 DEF CarryInv
<1>5. \A h \in Hosts : ~devices[h].known /\ ~devices[h].trusted /\ question[h].severity = "none"
    BY DEF DevicesInit, NoDevice, NoRow
<1>6. EveryDeviceIsAskedAbout
    BY <1>5 DEF EveryDeviceIsAskedAbout, Known
<1>7. SendInv
    BY <1>3 DEF SendInv, SendOK, NoScan
<1>8. AlertsReachEveryChannel
    BY <1>5, NewDevicesAssumption DEF AlertsReachEveryChannel
<1>9. SettledInv
    BY <1>5 DEF SettledInv
<1>10. tried \subseteq Hosts \X ChannelSet
    BY DEF DevicesInit
<1> QED BY <1>1, <1>2, <1>4, <1>6, <1>7, <1>8, <1>9, <1>10 DEF DevicesInv, DevicesBase

LEMMA DevicesInvStep == DevicesInv /\ [DevicesNext]_deviceVars => DevicesInv'
<1>1. ASSUME DevicesInv, DevicesNext PROVE DevicesInv'
    <2>1. DevicesBase /\ CarryInv /\ EveryDeviceIsAskedAbout /\ SendInv /\ AlertsReachEveryChannel /\ SettledInv
        BY <1>1 DEF DevicesInv
    <2>2. DevicesBase'
        BY <1>1, <2>1, RunsStep, AnswersStep, RowsStep, TriedStep DEF DevicesBase, ChannelSet
    <2>3. CarryInv' /\ EveryDeviceIsAskedAbout' /\ CarriedMoves
        BY <1>1, <2>1, CarryStep
    <2>4. SendInv' /\ AlertsReachEveryChannel'
        BY <1>1, <2>1, SendStep
    <2>5. SettledInv'
        BY <1>1, <2>1, <2>3, SettledStep
    <2> QED BY <2>2, <2>3, <2>4, <2>5 DEF DevicesInv
<1>2. ASSUME DevicesInv, UNCHANGED deviceVars PROVE DevicesInv'
    <2>1. UNCHANGED <<devices, question, scan, owner, tried, lost, muted, late>>
        BY <1>2 DEF deviceVars
    <2>2. DevicesBase'
        BY <1>2, <2>1 DEF DevicesInv, DevicesBase, RunsOK, AnswersOK, RowsOK, RowTypes, RowOK, TodoOK
    <2>3. \A r \in Scanners : Carried(r)' = Carried(r)
        BY <2>1 DEF Carried, At
    <2>4. CarryInv'
        BY <1>2, <2>1, <2>3 DEF DevicesInv, CarryInv
    <2>5. EveryDeviceIsAskedAbout'
        BY <1>2, <2>1, <2>3 DEF DevicesInv, EveryDeviceIsAskedAbout, Known
    <2>6. SendInv' /\ AlertsReachEveryChannel'
        BY <1>2, <2>1 DEF DevicesInv, SendInv, SendOK, Severity, Sent, AlertsReachEveryChannel
    <2>7. SettledInv'
        BY <1>2, <2>1, <2>3 DEF DevicesInv, SettledInv, Answering
    <2> QED BY <2>2, <2>4, <2>5, <2>6, <2>7 DEF DevicesInv
<1> QED BY <1>1, <1>2

\* The inductive invariant: what is known, asked, sent and answered about a device is tied
\* to the one run that carries its question and to the owners that are at it.
THEOREM DevicesInductive == DevicesSpec => []DevicesInv
<1> QED BY DevicesInvInit, DevicesInvStep, PTL DEF DevicesSpec

\* Inventory, questions, runs and answers have their types, for any hosts, runs, owners
\* and channels.
THEOREM DevicesTypeCorrect == DevicesSpec => []DevicesTypeOK
<1>1. DevicesInv => DevicesTypeOK
    BY DEF DevicesInv, DevicesBase, DevicesTypeOK, RunsOK, RunOK, AnswersOK, AnswerOK, RowsOK, RowTypes, DeviceType, RowType
<1> QED BY <1>1, DevicesInductive, PTL

\* No device of the inventory is left unasked about, however many runs meet at it, unless
\* the run that added it failed or died with the question (discovery.run, apply_findings).
THEOREM EveryDeviceIsAskedAboutAlways == DevicesSpec => []EveryDeviceIsAskedAbout
<1>1. DevicesInv => EveryDeviceIsAskedAbout
    BY DEF DevicesInv
<1> QED BY <1>1, DevicesInductive, PTL

\* An alert that is severe enough has been tried on every channel, or is about to be, for
\* any number of channels and whatever they answer (notify.channels.send).
THEOREM AlertsReachEveryChannelAlways == DevicesSpec => []AlertsReachEveryChannel
<1>1. DevicesInv => AlertsReachEveryChannel
    BY DEF DevicesInv
<1> QED BY <1>1, DevicesInductive, PTL

\* A trusted device has no open question that nobody is about to close, but for one that
\* came too late or whose lookup failed (trust_device, baseline_devices).
THEOREM TrustAnswersAlways == DevicesSpec => []TrustAnswers
<1>1. DevicesInv => TrustAnswers
    BY DEF DevicesInv, SettledInv, TrustAnswers, Answering, Known
<1> QED BY <1>1, DevicesInductive, PTL
=============================================================================
