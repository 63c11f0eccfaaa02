------------------------------ MODULE DnsPolicy ------------------------------
(***************************************************************************)
(* What the DNS resolver blocks (homesoc/dnsfilter/policy.py) and how the  *)
(* three tables it decides by follow the disk and the database.            *)
(*                                                                         *)
(* The housekeeping thread wakes every few seconds.  When a minute has     *)
(* passed it reloads everything (Policy.reload); on every wake-up it polls *)
(* a signature of the overrides (refresh_overrides_if_changed).  Meanwhile *)
(* the dashboard edits overrides, the feeds job replaces list files and    *)
(* the reputation worker stores verdicts and marks domains, each with no   *)
(* lock in common with the reload.                                         *)
(*                                                                         *)
(* A name is the sequence of its labels from the root, ads.shop.example is *)
(* <<"example","shop","ads">>: its suffixes are the sequence's prefixes.   *)
(***************************************************************************)
EXTENDS Naturals, FiniteSets, SequencesExt

CONSTANTS
    Lists,       \* dns.lists, in the order of the configuration
    Domains,     \* domains the tables can hold
    Edited,      \* those the dashboard sets overrides for
    Listed,      \* those the list files hold
    Judged,      \* those the reputation worker looks up
    NeverBlock,  \* NEVER_BLOCK_SUFFIXES and the upstreams' own names
    MaxClock,    \* bound: seconds that pass
    MaxVersion,  \* bound: times a list file is replaced
    Failing,     \* whether reads of files and tables may fail
    None         \* no list

ASSUME DnsPolicyAssumption ==
    /\ Lists \in Seq(STRING) /\ IsInjective(Lists) /\ None \notin ToSet(Lists)
    /\ Edited \cup Listed \cup Judged \cup NeverBlock \subseteq Domains
    /\ None \notin Domains
    /\ MaxClock \in Nat /\ MaxVersion \in Nat /\ Failing \in BOOLEAN

Names == ToSet(Lists)

VARIABLES
    \* the disk and the database
    action,      \* dns_overrides.action per domain, "none" without a row
    stamp,       \* dns_overrides.created_at, whole seconds
    clock,       \* the second it is
    file,        \* per list: mtime (0: no file yet) and entries
    verdicts,    \* domains with a fresh malicious row in `reputation`
    \* Policy
    overrides,   \* _overrides
    sig,         \* _override_sig
    blocked,     \* _blocked: domain -> the list it is blamed on
    malicious,   \* _malicious
    status,      \* ListStatus: mtime and loaded, per list
    \* the housekeeping thread
    pc,          \* where it is in housekeeping
    next,        \* index of the list it is at
    changed,     \* _reload_lists: a file has changed
    located,     \* _reload_lists: the mtimes it found
    merged,      \* _reload_lists: the dict it is building
    chosen,      \* _reload_reputation: the rows it selected
    \* the reputation worker
    worker,      \* where it is in process
    judged,      \* the domain it is at
    before,      \* mark_malicious: the set it read
    \* history
    settled,     \* housekeeping wake-ups completed since the last edit, up to 2
    marked       \* domains marked, with no reload in between that could undo it

diskVars   == <<action, stamp, clock, file, verdicts>>
policyVars == <<overrides, sig, blocked, malicious, status>>
reloadVars == <<pc, next, changed, located, merged, chosen>>
workerVars == <<worker, judged, before>>
vars == <<diskVars, policyVars, reloadVars, workerVars, settled, marked>>

NoEntries == [d \in Domains |-> None]
Missing   == [mtime |-> 0, entries |-> {}]
HousePcs  == {"sleep", "stat", "load", "rows", "sign", "select", "assign", "poll", "refresh"}

-----------------------------------------------------------------------------
(* Policy.decide.                                                          *)

Decision(act, reason, match) == [action |-> act, reason |-> reason, matched |-> match]

\* The most specific suffix of name that is in T.
Closest(T, name) ==
    CHOOSE d \in T : IsPrefix(d, name) /\ \A e \in T : IsPrefix(e, name) => Len(e) <= Len(d)

Covers(T, name) == \E d \in T : IsPrefix(d, name)

Decide(over, block, bad, name) ==
    LET allows == {d \in Domains : over[d] = "allow"}
        denies == {d \in Domains : over[d] = "deny"}
        lists  == {d \in Domains : block[d] # None}
    IN  IF Covers(allows, name) THEN Decision("allow", "override:allow", Closest(allows, name))
        ELSE IF Covers(denies, name) THEN Decision("block", "override:deny", Closest(denies, name))
        ELSE IF Covers(NeverBlock, name)
             THEN Decision("allow", "never_block", Closest(NeverBlock, name))
        ELSE IF Covers(lists, name)
             THEN Decision("block", block[Closest(lists, name)], Closest(lists, name))
        ELSE IF Covers(bad, name) THEN Decision("block", "reputation", Closest(bad, name))
        ELSE Decision("allow", "default", None)

\* dict.setdefault for every entry: the first list configured takes the blame.
Merge(dict, entries, l) ==
    [d \in Domains |-> IF d \in entries /\ dict[d] = None THEN l ELSE dict[d]]

\* (COUNT, MAX(created_at)) of dns_overrides.
Signature ==
    LET present == {d \in Domains : action[d] # "none"}
    IN  <<Cardinality(present), IF present = {} THEN 0 ELSE Max({stamp[d] : d \in present})>>

-----------------------------------------------------------------------------
\* Policy.load: the tables are empty and the first reload, forced, begins.
Init ==
    /\ action \in {f \in [Domains -> {"none", "allow", "deny"}] :
                      \A d \in Domains \ Edited : f[d] = "none"}
    /\ stamp = [d \in Domains |-> 0]
    /\ clock = 0
    /\ file \in [Names -> {Missing} \cup [mtime : {1}, entries : SUBSET Listed]]
    /\ verdicts \in SUBSET Judged
    /\ overrides = [d \in Domains |-> "none"]
    /\ sig = <<>>
    /\ blocked = NoEntries
    /\ malicious = {}
    /\ status = [l \in Names |-> [mtime |-> 0, loaded |-> FALSE]]
    /\ pc = "stat" /\ next = 1 /\ changed = TRUE
    /\ located = [l \in Names |-> 0]
    /\ merged = NoEntries
    /\ chosen = {}
    /\ worker = "idle" /\ judged = None /\ before = {}
    /\ settled = 0
    /\ marked = {}

-----------------------------------------------------------------------------
(* The dashboard, the feeds job, the clock.                                *)

\* dns_override_set: created_at is rewritten too, in whole seconds.
SetOverride(d, act) ==
    /\ action' = [action EXCEPT ![d] = act]
    /\ stamp' = [stamp EXCEPT ![d] = clock]
    /\ settled' = 0
    /\ UNCHANGED <<clock, file, verdicts, policyVars, reloadVars, workerVars, marked>>

DeleteOverride(d) ==
    /\ action[d] # "none"
    /\ action' = [action EXCEPT ![d] = "none"]
    /\ stamp' = [stamp EXCEPT ![d] = 0]
    /\ settled' = 0
    /\ UNCHANGED <<clock, file, verdicts, policyVars, reloadVars, workerVars, marked>>

NextSecond ==
    /\ clock < MaxClock
    /\ clock' = clock + 1
    /\ UNCHANGED <<action, stamp, file, verdicts, policyVars, reloadVars, workerVars,
                   settled, marked>>

\* The feeds job moves a new download over the list's file.
ReplaceList(l, entries) ==
    /\ file[l].mtime < MaxVersion
    /\ file' = [file EXCEPT ![l] = [mtime |-> @.mtime + 1, entries |-> entries]]
    /\ UNCHANGED <<action, stamp, clock, verdicts, policyVars, reloadVars, workerVars,
                   settled, marked>>

\* reputation_ttl_hours pass.
Expire(d) ==
    /\ d \in verdicts
    /\ verdicts' = verdicts \ {d}
    /\ marked' = marked \ {d}
    /\ UNCHANGED <<action, stamp, clock, file, policyVars, reloadVars, workerVars, settled>>

-----------------------------------------------------------------------------
(* The reputation worker: lookup_domain_detail stores the verdict, then    *)
(* _on_malicious calls mark_malicious, a read and a write with no lock.    *)

StoreVerdict(d) ==
    /\ worker = "idle"
    /\ verdicts' = verdicts \cup {d}
    /\ worker' = "stored" /\ judged' = d
    /\ UNCHANGED <<action, stamp, clock, file, policyVars, reloadVars, before, settled, marked>>

MarkRead ==
    /\ worker = "stored"
    /\ worker' = "marking" /\ before' = malicious
    /\ UNCHANGED <<diskVars, policyVars, reloadVars, judged, settled, marked>>

\* A reload that selected its rows before the verdict was stored, or a verdict
\* that has expired by now, will undo this.
Undone == judged \notin verdicts \/ (pc = "assign" /\ judged \notin chosen)

MarkWrite ==
    /\ worker = "marking"
    /\ malicious' = before \cup {judged}
    /\ marked' = IF Undone THEN marked ELSE marked \cup {judged}
    /\ worker' = "idle" /\ judged' = None /\ before' = {}
    /\ UNCHANGED <<diskVars, overrides, sig, blocked, status, reloadVars, settled>>

-----------------------------------------------------------------------------
(* The housekeeping thread: Policy.reload once a minute.                   *)

Goto(label) == pc' = label

\* A wake-up ends.
EndTick == Goto("sleep") /\ settled' = IF settled < 2 THEN settled + 1 ELSE 2

\* maybe_reload: RELOAD_CHECK_SECONDS have passed.
StartReload ==
    /\ pc = "sleep"
    /\ Goto("stat") /\ next' = 1 /\ changed' = FALSE
    /\ UNCHANGED <<diskVars, policyVars, located, merged, chosen, workerVars, settled, marked>>

\* They have not.
SkipReload ==
    /\ pc = "sleep"
    /\ Goto("poll")
    /\ UNCHANGED <<diskVars, policyVars, next, changed, located, merged, chosen,
                   workerVars, settled, marked>>

\* _reload_lists, first loop: a new, an updated, or a not yet loaded file is a change.
StatList ==
    /\ pc = "stat" /\ next <= Len(Lists)
    /\ LET l == Lists[next] IN
       /\ located' = [located EXCEPT ![l] = file[l].mtime]
       /\ changed' = \/ changed
                     \/ file[l].mtime # status[l].mtime
                     \/ file[l].mtime # 0 /\ ~status[l].loaded
    /\ next' = next + 1
    /\ UNCHANGED <<diskVars, policyVars, pc, merged, chosen, workerVars, settled, marked>>

\* Mutant: nothing changed on disk, nothing to do.
StatDoneReturns ==
    /\ pc = "stat" /\ next > Len(Lists)
    /\ Goto(IF changed THEN "load" ELSE "poll")
    /\ next' = 1 /\ merged' = NoEntries
    /\ UNCHANGED <<diskVars, policyVars, changed, located, chosen, workerVars, settled, marked>>

StatDone ==
    /\ pc = "stat" /\ next > Len(Lists)
    /\ Goto(IF changed THEN "load" ELSE "rows")
    /\ next' = 1 /\ merged' = NoEntries
    /\ UNCHANGED <<diskVars, policyVars, changed, located, chosen, workerVars, settled, marked>>

\* The list being loaded is recorded with the mtime found before it was read.
Loaded(ok) ==
    LET l == Lists[next] IN
    /\ status' = [status EXCEPT ![l] = [mtime |-> located[l], loaded |-> ok]]
    /\ next' = next + 1
    /\ UNCHANGED <<diskVars, overrides, sig, blocked, malicious, pc, changed, located, chosen,
                   workerVars, settled, marked>>

\* _reload_lists, second loop: load_list_file reads what the file holds now.
LoadList ==
    /\ pc = "load" /\ next <= Len(Lists) /\ located[Lists[next]] # 0
    /\ merged' = Merge(merged, file[Lists[next]].entries, Lists[next])
    /\ Loaded(TRUE)

\* Mutant: a list that could not be read counts as loaded.
LoadFailsQuietly ==
    /\ pc = "load" /\ next <= Len(Lists) /\ located[Lists[next]] # 0
    /\ UNCHANGED merged
    /\ Loaded(TRUE)

LoadFails ==
    /\ pc = "load" /\ next <= Len(Lists) /\ located[Lists[next]] # 0
    /\ UNCHANGED merged
    /\ Loaded(FALSE)

SkipMissing ==
    /\ pc = "load" /\ next <= Len(Lists) /\ located[Lists[next]] = 0
    /\ UNCHANGED merged
    /\ Loaded(FALSE)

LoadDone ==
    /\ pc = "load" /\ next > Len(Lists)
    /\ blocked' = merged
    /\ Goto("rows")
    /\ merged' = NoEntries
    /\ UNCHANGED <<diskVars, overrides, sig, malicious, status, next, changed, located, chosen,
                   workerVars, settled, marked>>

\* _reload_overrides, from reload and from refresh_overrides_if_changed.
ReadRows ==
    /\ pc \in {"rows", "refresh"}
    /\ overrides' = action
    /\ IF pc = "rows" THEN Goto("sign") /\ UNCHANGED settled ELSE EndTick
    /\ UNCHANGED <<diskVars, sig, blocked, malicious, status, next, changed, located, merged,
                   chosen, workerVars, marked>>

\* sqlite3.Error: the old table stays.
RowsUnreadable ==
    /\ pc \in {"rows", "refresh"}
    /\ IF pc = "rows" THEN Goto("sign") /\ UNCHANGED settled ELSE EndTick
    /\ UNCHANGED <<diskVars, policyVars, next, changed, located, merged, chosen, workerVars,
                   marked>>

\* reload: the signature is taken after the rows.
SignRows ==
    /\ pc = "sign"
    /\ sig' = Signature
    /\ Goto("select")
    /\ UNCHANGED <<diskVars, overrides, blocked, malicious, status, next, changed, located,
                   merged, chosen, workerVars, settled, marked>>

\* _reload_reputation: the SELECT, and the assignment after it.
SelectVerdicts ==
    /\ pc = "select"
    /\ chosen' = verdicts
    /\ Goto("assign")
    /\ UNCHANGED <<diskVars, policyVars, next, changed, located, merged, workerVars,
                   settled, marked>>

SelectFails ==
    /\ pc = "select"
    /\ Goto("poll")
    /\ UNCHANGED <<diskVars, policyVars, next, changed, located, merged, chosen, workerVars,
                   settled, marked>>

\* Mutant: only the rows that are new.
AssignNewOnly ==
    /\ pc = "assign"
    /\ malicious' = chosen \ malicious
    /\ chosen' = {}
    /\ Goto("poll")
    /\ UNCHANGED <<diskVars, overrides, sig, blocked, status, next, changed, located, merged,
                   workerVars, settled, marked>>

AssignVerdicts ==
    /\ pc = "assign"
    /\ malicious' = chosen
    /\ chosen' = {}
    /\ Goto("poll")
    /\ UNCHANGED <<diskVars, overrides, sig, blocked, status, next, changed, located, merged,
                   workerVars, settled, marked>>

\* refresh_overrides_if_changed: the signature is taken before the rows.
Poll ==
    /\ pc = "poll"
    /\ IF sig = Signature THEN EndTick /\ UNCHANGED sig
       ELSE sig' = Signature /\ Goto("refresh") /\ UNCHANGED settled
    /\ UNCHANGED <<diskVars, overrides, blocked, malicious, status, next, changed, located,
                   merged, chosen, workerVars, marked>>

-----------------------------------------------------------------------------
Failure == Failing /\ (LoadFails \/ RowsUnreadable \/ SelectFails)

HouseStep ==
    \/ StartReload \/ SkipReload \/ StatList \/ StatDone \/ LoadList \/ SkipMissing \/ LoadDone
    \/ ReadRows \/ SignRows \/ SelectVerdicts \/ AssignVerdicts \/ Poll
    \/ Failure

WorkerStep == MarkRead \/ MarkWrite

Next ==
    \/ HouseStep \/ WorkerStep \/ NextSecond
    \/ \E d \in Edited : DeleteOverride(d) \/ \E act \in {"allow", "deny"} : SetOverride(d, act)
    \/ \E l \in Names, entries \in SUBSET Listed : ReplaceList(l, entries)
    \/ \E d \in Judged : Expire(d) \/ StoreVerdict(d)

Spec == Init /\ [][Next]_vars

\* Both threads go on, and of the wake-ups, seconds apart, one is a minute after the
\* last reload again and again.
FairSpec == Spec /\ WF_vars(HouseStep) /\ SF_vars(StartReload) /\ WF_vars(WorkerStep)
=============================================================================
