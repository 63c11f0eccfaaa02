--------------------------- MODULE DnsPolicyProofs ---------------------------
(* That ListsCurrent and VerdictStays hold for every configuration.        *)
EXTENDS DnsPolicyProps, TLAPS

\* The part of the types the proofs need.
Types ==
    /\ file \in [Names -> [mtime : Nat, entries : SUBSET Listed]]
    /\ status \in [Names -> [mtime : Nat, loaded : BOOLEAN]]
    /\ located \in [Names -> Nat]
    /\ blocked \in [Domains -> Names \cup {None}]
    /\ merged \in [Domains -> Names \cup {None}]
    /\ next \in 1..(Len(Lists) + 1)
    /\ pc \in HousePcs
    /\ judged \in Judged \cup {None}

\* The mtimes on record are those of a file that was there, and a reload that is
\* loading has recorded, for the lists behind it, the mtimes it found.
Records ==
    \A l \in Names :
        /\ status[l].mtime <= file[l].mtime
        /\ located[l] <= file[l].mtime
        /\ file[l].mtime = 0 => file[l].entries = {}

\* b is the first of the first n lists to hold d, or None.
Blamed(b, d, n) ==
    \/ b = None /\ \A i \in 1..n : d \notin file[Lists[i]].entries
    \/ \E i \in 1..n : /\ b = Lists[i] /\ d \in file[Lists[i]].entries
                       /\ \A j \in 1..n : d \in file[Lists[j]].entries => i <= j

\* The dict being built blames the lists behind it rightly, if they are up to date.
Loading ==
    pc = "load" /\ (\A i \in 1..(next - 1) : UpToDate(Lists[i])) =>
        \A d \in Domains : Blamed(merged[d], d, next - 1)

Current ==
    pc # "load" /\ (\A l \in Names : UpToDate(l)) =>
        \A d \in Domains : Blamed(blocked[d], d, Len(Lists))

ListInv == Types /\ Records /\ Loading /\ Current

\* A domain that was marked has a fresh verdict, and whoever is about to replace the
\* set has seen it.
MarkInv ==
    /\ marked \subseteq verdicts
    /\ marked \subseteq malicious
    /\ pc = "assign" => marked \subseteq chosen
    /\ worker = "marking" => marked \subseteq before

LEMMA ListNames ==
    /\ Len(Lists) \in Nat
    /\ \A i \in 1..Len(Lists) : Lists[i] \in Names
    /\ \A l \in Names : \E i \in 1..Len(Lists) : l = Lists[i]
    /\ \A i, j \in 1..Len(Lists) : Lists[i] = Lists[j] => i = j
    /\ None \notin Names
  BY DnsPolicyAssumption DEF Names, ToSet, IsInjective

LEMMA BlamedIsBlame ==
    ASSUME NEW b, NEW d, Blamed(b, d, Len(Lists))
    PROVE  b = Blame(d)
<1> DEFINE S == {i \in 1..Len(Lists) : d \in file[Lists[i]].entries}
<1>1. CASE b = None /\ \A i \in 1..Len(Lists) : d \notin file[Lists[i]].entries
  BY <1>1 DEF Blame
<1>2. CASE \E i \in 1..Len(Lists) : /\ b = Lists[i] /\ d \in file[Lists[i]].entries
                       /\ \A j \in 1..Len(Lists) : d \in file[Lists[j]].entries => i <= j
  <2>1. PICK i \in 1..Len(Lists) : /\ b = Lists[i] /\ d \in file[Lists[i]].entries
                       /\ \A j \in 1..Len(Lists) : d \in file[Lists[j]].entries => i <= j
    BY <1>2
  <2>2. i \in S /\ \A j \in S : i <= j
    BY <2>1
  <2>3. \A j \in S : (\A k \in S : j <= k) => j = i
    BY <2>2, ListNames
  <2>4. Min(S) = i
    BY <2>2, <2>3 DEF Min
  <2> QED BY <2>1, <2>2, <2>4 DEF Blame
<1> QED BY <1>1, <1>2 DEF Blamed

LEMMA InitList == Init => ListInv
<1> SUFFICES ASSUME Init PROVE ListInv
  OBVIOUS
<1>1. Types
  BY ListNames DEF Init, Types, NoEntries, HousePcs, Missing
<1>2. Records
  BY DEF Init, Records, Missing
<1>3. Loading /\ Current
  <2>1. pc = "stat" /\ \A d \in Domains : blocked[d] = None
    BY DEF Init, NoEntries
  <2>2. ASSUME \A l \in Names : UpToDate(l), NEW i \in 1..Len(Lists)
        PROVE  file[Lists[i]].entries = {}
    BY <2>2, ListNames, <1>2 DEF UpToDate, Init, Records
  <2> QED BY <2>1, <2>2 DEF Loading, Current, Blamed
<1> QED BY <1>1, <1>2, <1>3 DEF ListInv

\* What a step must leave alone not to touch the tables of the lists.
LEMMA ListFrame ==
    ASSUME ListInv, Types', UNCHANGED <<file, status, blocked>>,
           \A l \in Names : located'[l] <= file[l].mtime,
           (pc # "load" /\ pc' # "load") \/ UNCHANGED <<pc, next, merged>>
    PROVE  ListInv'
<1>1. Records'
  BY DEF ListInv, Records
<1>2. Current'
  BY DEF ListInv, Current, UpToDate, Blamed
<1>3. Loading'
  BY DEF ListInv, Loading, UpToDate, Blamed
<1> QED BY <1>1, <1>2, <1>3 DEF ListInv

LEMMA StepList == ListInv /\ [Next]_vars => ListInv'
<1> SUFFICES ASSUME ListInv, [Next]_vars PROVE ListInv'
  OBVIOUS
<1> USE DEF ListInv
<1>1. CASE \/ NextSecond \/ MarkRead \/ MarkWrite \/ UNCHANGED vars
           \/ \E d \in Edited : DeleteOverride(d) \/ \E act \in {"allow", "deny"} : SetOverride(d, act)
           \/ \E d \in Judged : Expire(d) \/ StoreVerdict(d)
  <2>1. UNCHANGED <<file, status, blocked, located, pc, next, merged>>
    BY <1>1 DEF NextSecond, MarkRead, MarkWrite, DeleteOverride, SetOverride, Expire,
                StoreVerdict, vars, diskVars, policyVars, reloadVars
  <2>2. judged' \in Judged \cup {None}
    BY <1>1 DEF NextSecond, MarkRead, MarkWrite, DeleteOverride, SetOverride, Expire,
                StoreVerdict, vars, workerVars, Types
  <2>3. Types'
    BY <2>1, <2>2 DEF Types
  <2> QED BY <2>1, <2>3, ListFrame DEF Records
<1>2. CASE StartReload \/ SkipReload \/ ReadRows \/ RowsUnreadable \/ SignRows
           \/ SelectVerdicts \/ SelectFails \/ AssignVerdicts \/ Poll
  <2>1. UNCHANGED <<file, status, blocked, located, merged, judged>> /\ next' \in {1, next}
    BY <1>2 DEF StartReload, SkipReload, ReadRows, RowsUnreadable, SignRows, SelectVerdicts,
                SelectFails, AssignVerdicts, Poll, diskVars, policyVars, workerVars
  <2>2. pc # "load" /\ pc' # "load" /\ pc' \in HousePcs
    BY <1>2 DEF StartReload, SkipReload, ReadRows, RowsUnreadable, SignRows, SelectVerdicts,
                SelectFails, AssignVerdicts, Poll, Goto, EndTick, HousePcs
  <2>3. Types'
    BY <2>1, <2>2, ListNames DEF Types
  <2> QED BY <2>1, <2>2, <2>3, ListFrame DEF Records
<1>3. CASE StatList
  <2>1. UNCHANGED <<file, status, blocked, merged, judged, pc>> /\ pc = "stat" /\ next' = next + 1
        /\ next <= Len(Lists) /\ located' = [located EXCEPT ![Lists[next]] = file[Lists[next]].mtime]
    BY <1>3 DEF StatList, diskVars, policyVars, workerVars
  <2>2. Lists[next] \in Names
    BY <2>1, ListNames DEF Types
  <2>3. Types' /\ \A l \in Names : located'[l] <= file[l].mtime
    BY <2>1, <2>2, ListNames DEF Types, Records
  <2> QED BY <2>1, <2>3, ListFrame
<1>4. CASE StatDone
  <2>1. UNCHANGED <<file, status, blocked, located, judged>> /\ pc = "stat"
        /\ next' = 1 /\ merged' = NoEntries /\ pc' \in {"load", "rows"}
    BY <1>4 DEF StatDone, Goto, diskVars, policyVars, workerVars
  <2>2. Types'
    BY <2>1, ListNames DEF Types, NoEntries, HousePcs
  <2>3. Records' /\ Current'
    BY <2>1 DEF Records, Current, UpToDate, Blamed
  <2>4. Loading'
    BY <2>1 DEF Loading, Blamed, NoEntries
  <2> QED BY <2>2, <2>3, <2>4
<1>5. CASE LoadList \/ LoadFails \/ SkipMissing
  <2> DEFINE l == Lists[next]
  <2>1. UNCHANGED <<file, blocked, located, judged, pc>> /\ pc = "load" /\ next' = next + 1
        /\ next <= Len(Lists)
    BY <1>5 DEF LoadList, LoadFails, SkipMissing, Loaded, diskVars, workerVars
  <2>2. l \in Names /\ next \in 1..Len(Lists) /\ Len(Lists) \in Nat
    BY <2>1, ListNames DEF Types
  <2>3. \E ok \in BOOLEAN : /\ status' = [status EXCEPT ![l] = [mtime |-> located[l], loaded |-> ok]]
                            /\ ok <=> LoadList
    BY <1>5 DEF LoadList, LoadFails, SkipMissing, Loaded
  <2>4. merged' = IF LoadList THEN Merge(merged, file[l].entries, l) ELSE merged
    BY <1>5 DEF LoadList, LoadFails, SkipMissing
  <2>5. Types'
    BY <2>1, <2>2, <2>3, <2>4 DEF Types, Merge
  <2>6. Records'
    BY <2>1, <2>2, <2>3 DEF Types, Records
  <2>7. Current'
    BY <2>1 DEF Current
  <2>8. Loading'
    <3> SUFFICES ASSUME \A i \in 1..next : UpToDate(Lists[i])', NEW d \in Domains
                 PROVE  Blamed(merged'[d], d, next)
      BY <2>1, <2>2 DEF Loading, Blamed
    <3>1. \A i \in 1..(next - 1) : UpToDate(Lists[i])
      <4>1. \A i \in 1..(next - 1) : Lists[i] # l /\ Lists[i] \in Names
        BY <2>2, ListNames
      <4> QED BY <4>1, <2>1, <2>2, <2>3 DEF UpToDate, Types
    <3>2. Blamed(merged[d], d, next - 1)
      BY <3>1, <2>1 DEF Loading
    <3>3. status'[l].mtime = file[l].mtime /\ (LoadList \/ file[l].mtime = 0)
      BY <2>1, <2>2, <2>3 DEF UpToDate, Types
    <3>4. ~LoadList => file[l].entries = {}
      BY <3>3, <2>2 DEF Records
    <3>5. merged'[d] = IF d \in file[l].entries /\ merged[d] = None THEN l ELSE merged[d]
      BY <2>4, <3>4 DEF Merge
    <3>6. CASE d \notin file[l].entries
      BY <3>6, <3>5, <3>2, <2>2 DEF Blamed
    <3>7. CASE d \in file[l].entries
      <4>1. CASE \A i \in 1..(next - 1) : d \notin file[Lists[i]].entries
        <5>1. merged[d] = None
          BY <4>1, <3>2 DEF Blamed
        <5> QED BY <5>1, <4>1, <3>7, <3>5, <2>2 DEF Blamed
      <4>2. CASE \E i \in 1..(next - 1) : d \in file[Lists[i]].entries
        <5>1. PICK i \in 1..(next - 1) : /\ merged[d] = Lists[i] /\ d \in file[Lists[i]].entries
                  /\ \A j \in 1..(next - 1) : d \in file[Lists[j]].entries => i <= j
          BY <4>2, <3>2 DEF Blamed
        <5>2. merged'[d] = Lists[i] /\ i \in 1..next
          BY <5>1, <3>5, <2>2, ListNames
        <5>3. \A j \in 1..next : d \in file[Lists[j]].entries => i <= j
          BY <5>1, <2>2
        <5> QED BY <5>1, <5>2, <5>3 DEF Blamed
      <4> QED BY <4>1, <4>2
    <3> QED BY <3>6, <3>7
  <2> QED BY <2>5, <2>6, <2>7, <2>8
<1>6. CASE LoadDone
  <2>1. UNCHANGED <<file, status, located, judged, next>> /\ blocked' = merged /\ pc = "load"
        /\ pc' = "rows" /\ merged' = NoEntries /\ next > Len(Lists)
    BY <1>6 DEF LoadDone, Goto, diskVars, workerVars
  <2>2. Types'
    BY <2>1 DEF Types, NoEntries, HousePcs
  <2>3. Records' /\ Loading'
    BY <2>1 DEF Records, Loading
  <2>4. next - 1 = Len(Lists)
    BY <2>1, ListNames DEF Types
  <2>5. Current'
    BY <2>1, <2>4, ListNames DEF Current, Loading, UpToDate, Blamed
  <2> QED BY <2>2, <2>3, <2>5
<1>7. CASE \E l \in Names, entries \in SUBSET Listed : ReplaceList(l, entries)
  <2>1. PICK l \in Names, entries \in SUBSET Listed : ReplaceList(l, entries)
    BY <1>7
  <2>2. UNCHANGED <<status, blocked, located, merged, judged, pc, next>>
        /\ file' = [file EXCEPT ![l] = [mtime |-> @.mtime + 1, entries |-> entries]]
    BY <2>1 DEF ReplaceList, policyVars, reloadVars, workerVars
  <2>3. Types'
    BY <2>2 DEF Types
  <2>4. Records'
    BY <2>2 DEF Types, Records
  <2>5. ~UpToDate(l)'
    BY <2>2 DEF Types, Records, UpToDate
  <2>6. \A k \in Names \ {l} : (UpToDate(k)' <=> UpToDate(k)) /\ file'[k] = file[k]
    BY <2>2 DEF Types, UpToDate
  <2>7. Current'
    BY <2>5 DEF Current
  <2>8. Loading'
    <3> SUFFICES ASSUME pc = "load", \A i \in 1..(next - 1) : UpToDate(Lists[i])', NEW d \in Domains
                 PROVE  Blamed(merged[d], d, next - 1)'
      BY <2>2 DEF Loading
    <3>1. \A i \in 1..(next - 1) : Lists[i] \in Names /\ Lists[i] # l
      BY <2>5, ListNames DEF Types
    <3>2. Blamed(merged[d], d, next - 1)
      BY <3>1, <2>6 DEF Loading
    <3> QED BY <3>1, <3>2, <2>2, <2>6 DEF Blamed
  <2> QED BY <2>3, <2>4, <2>7, <2>8
<1> QED BY <1>1, <1>2, <1>3, <1>4, <1>5, <1>6, <1>7 DEF Next, HouseStep, WorkerStep, Failure

\* ListStatus tells the truth about _blocked, for any lists, entries and reads that
\* fail: when no list is behind, every domain is blamed on the first that holds it.
THEOREM ListsCurrentAlways == Spec => []ListsCurrent
<1>1. ListInv => ListsCurrent
  BY BlamedIsBlame DEF ListInv, Current, ListsCurrent
<1> QED BY <1>1, InitList, StepList, PTL DEF Spec

LEMMA StepMark == MarkInv /\ [Next]_vars => MarkInv'
<1> SUFFICES ASSUME MarkInv, [Next]_vars PROVE MarkInv'
  OBVIOUS
<1> USE DEF MarkInv
<1>1. CASE \E d \in Judged : Expire(d) \/ StoreVerdict(d)
  BY <1>1 DEF Expire, StoreVerdict, policyVars, reloadVars, workerVars
<1>2. CASE MarkRead
  BY <1>2 DEF MarkRead, diskVars, policyVars, reloadVars
<1>3. CASE MarkWrite
  BY <1>3 DEF MarkWrite, Undone, diskVars, reloadVars
<1>4. CASE SelectVerdicts \/ SelectFails
  BY <1>4 DEF SelectVerdicts, SelectFails, Goto, diskVars, policyVars, workerVars
<1>5. CASE AssignVerdicts
  BY <1>5 DEF AssignVerdicts, Goto, diskVars, workerVars
<1>6. CASE \/ StartReload \/ SkipReload \/ StatDone \/ LoadDone \/ ReadRows \/ RowsUnreadable
           \/ SignRows \/ Poll
  BY <1>6 DEF StartReload, SkipReload, StatDone, LoadDone, ReadRows, RowsUnreadable, SignRows,
              Poll, Goto, EndTick, diskVars, policyVars, workerVars
<1>7. CASE \/ StatList \/ LoadList \/ LoadFails \/ SkipMissing \/ NextSecond \/ UNCHANGED vars
           \/ \E d \in Edited : DeleteOverride(d) \/ \E act \in {"allow", "deny"} : SetOverride(d, act)
           \/ \E l \in Names, entries \in SUBSET Listed : ReplaceList(l, entries)
  BY <1>7 DEF StatList, LoadList, LoadFails, SkipMissing, Loaded, NextSecond, DeleteOverride,
              SetOverride, ReplaceList, vars, diskVars, policyVars, reloadVars, workerVars
<1> QED BY <1>1, <1>2, <1>3, <1>4, <1>5, <1>6, <1>7 DEF Next, HouseStep, WorkerStep, Failure

\* A verdict that was marked while no reload was about to undo it is enforced until it
\* expires, whatever reloads and other verdicts come in between.
THEOREM VerdictStaysAlways == Spec => []VerdictStays
<1>1. Init => MarkInv
  BY DEF Init, MarkInv
<1>2. MarkInv => VerdictStays
  BY DEF MarkInv, VerdictStays
<1> QED BY <1>1, <1>2, StepMark, PTL DEF Spec
=============================================================================
