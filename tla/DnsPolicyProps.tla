---------------------------- MODULE DnsPolicyProps ----------------------------
(* What the resolver's policy promises.                                    *)
EXTENDS DnsPolicy

\* Every variable keeps its type.
TypeOK ==
    /\ action \in [Domains -> {"none", "allow", "deny"}]
    /\ stamp \in [Domains -> 0..MaxClock]
    /\ clock \in 0..MaxClock
    /\ file \in [Names -> [mtime : Nat, entries : SUBSET Listed]]
    /\ verdicts \subseteq Judged
    /\ overrides \in [Domains -> {"none", "allow", "deny"}]
    /\ sig \in {<<>>} \cup (Nat \X Nat)
    /\ blocked \in [Domains -> Names \cup {None}]
    /\ malicious \subseteq Judged
    /\ status \in [Names -> [mtime : Nat, loaded : BOOLEAN]]
    /\ pc \in HousePcs
    /\ next \in 1..(Len(Lists) + 1)
    /\ changed \in BOOLEAN
    /\ located \in [Names -> Nat]
    /\ merged \in [Domains -> Names \cup {None}]
    /\ chosen \subseteq Judged
    /\ worker \in {"idle", "stored", "marking"}
    /\ judged \in Judged \cup {None}
    /\ before \subseteq Judged
    /\ settled \in 0..2
    /\ marked \subseteq Judged

\* The list a domain is to be blamed on, going by the files.
Blame(d) ==
    LET holders == {i \in 1..Len(Lists) : d \in file[Lists[i]].entries}
    IN  IF holders = {} THEN None ELSE Lists[Min(holders)]

\* ListStatus says the file is the one in use, or that there is none.
UpToDate(l) ==
    /\ status[l].mtime = file[l].mtime
    /\ status[l].loaded \/ file[l].mtime = 0

\* _reload_lists skips the reading when its records say that nothing changed: when
\* they say so, _blocked holds exactly the files' entries, whenever files were
\* replaced and whichever reads failed before.
ListsCurrent ==
    pc # "load" /\ (\A l \in Names : UpToDate(l)) =>
        \A d \in Domains : blocked[d] = Blame(d)

\* mark_malicious blocks a domain "without waiting for the 60 s refresh", and no
\* later reload or verdict lets it through until the verdict expires.
VerdictStays == marked \subseteq malicious

\* What decide would answer if the tables were the disk's and the database's.
Intended(name) == Decide(action, [d \in Domains |-> Blame(d)], verdicts, name)

\* The inputs have stopped changing and nothing fails.
Calm ==
    /\ UNCHANGED <<action, file, verdicts>>
    /\ LoadFails \/ SelectFails => FALSE
    /\ RowsUnreadable => ReadRows

\* Once that is so, decide comes to answer for every name what they ask for,
\* whatever races came before: the reload makes good every lost update.
FilterCatchesUp ==
    \A name \in Domains :
        <>[][Calm]_vars => <>[](Decide(overrides, blocked, malicious, name) = Intended(name))

\* refresh_overrides_if_changed: "overrides written by the dashboard apply within
\* seconds", that is, after the wake-up in progress and one more.
OverridesApplyWithinSeconds == settled = 2 => overrides = action
===============================================================================
