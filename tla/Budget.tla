-------------------------------- MODULE Budget --------------------------------
(***************************************************************************)
(* VirusTotal's daily quota (Budget, _ClientBudget and ReputationWorker's  *)
(* shares in homesoc/dnsfilter/reputation.py).                             *)
(*                                                                         *)
(* The reputation worker (Reputation) asks for one client after another:   *)
(* the client's share of today, then the quota, then the share is charged, *)
(* each under a lock of its own.  The files scanner draws on the same      *)
(* quota, midnight may fall anywhere, the count may fail to be saved, and  *)
(* the process may restart at any step.                                    *)
(***************************************************************************)
EXTENDS Naturals

CONSTANTS
    Hosts,         \* the clients that names are looked up for
    Limit,         \* dns.virustotal_daily_budget
    PerMinute,     \* VT_PER_MINUTE
    ClientShare,   \* calls a day for one client: VT_CLIENT_SHARE of the limit
    UnknownShare,  \* and for all clients outside the inventory
    MaxDay,        \* bound: days
    MaxRestarts,   \* bound: restarts
    NoHost

ASSUME BudgetAssumption ==
    /\ NoHost \notin Hosts
    /\ {PerMinute, ClientShare, UnknownShare} \subseteq Nat \ {0}
    /\ {Limit, MaxDay, MaxRestarts} \subseteq Nat

VARIABLES
    today,      \* the date
    saved,      \* vt.budget.<today> in `settings`
    quota,      \* Budget: _date, _used, _tokens
    shares,     \* _vt_day, _vt_by_client, _vt_unknown
    asker,      \* the worker's lookup: where it is, for whom, a device or not
    restarts,
    \* history
    drawn,      \* calls drawn today
    lost,       \* those that restarts forgot
    spent,      \* per client, calls drawn for it today since the process started
    strangers   \* and for clients outside the inventory

budgetVars == <<today, saved, quota, shares, asker, restarts, drawn, lost, spent, strangers>>

NoneDrawn == [c \in Hosts |-> 0]
NoAsker  == [pc |-> "idle", client |-> NoHost, known |-> FALSE]
NoShares == [day |-> 0, by |-> NoneDrawn, unknown |-> 0]

BudgetInit ==
    /\ today = 1 /\ saved = 0
    /\ quota = [day |-> 1, used |-> 0, tokens |-> PerMinute]
    /\ shares = NoShares /\ asker = NoAsker /\ restarts = 0
    /\ drawn = 0 /\ lost = 0 /\ spent = NoneDrawn /\ strangers = 0

AskerAt(label)   == asker.pc = label
AskerGoto(label) == asker' = [asker EXCEPT !.pc = label]
Done        == asker' = NoAsker

\* process: the client is a device if it is in the inventory now.
Ask(c, known) ==
    /\ AskerAt("idle")
    /\ asker' = [pc |-> "share", client |-> c, known |-> known]
    /\ UNCHANGED <<today, saved, quota, shares, restarts, drawn, lost, spent, strangers>>

\* _vt_roll_day.
Rolled == IF shares.day = today THEN shares ELSE [NoShares EXCEPT !.day = today]

ShareLeft(s) == /\ s.by[asker.client] < ClientShare
                /\ asker.known \/ s.unknown < UnknownShare

\* _vt_share_ok.
CheckShare ==
    /\ AskerAt("share")
    /\ shares' = Rolled
    /\ IF ShareLeft(Rolled) THEN AskerGoto("quota") ELSE Done
    /\ UNCHANGED <<today, saved, quota, restarts, drawn, lost, spent, strangers>>

\* Budget._roll_day.
Current == IF quota.day = today THEN quota ELSE [quota EXCEPT !.day = today, !.used = saved]

\* Mutant: the minute's tokens are not looked at.
AllowsAllAtOnce(q) == q.used < Limit

Allows(q) == q.used < Limit /\ q.tokens > 0

\* Mutant: a count that cannot be saved is not counted.
DrawUncounted ==
    /\ Allows(Current)
    /\ \/ saved' = Current.used + 1 /\ quota' = [Current EXCEPT !.used = @ + 1, !.tokens = @ - 1]
       \/ UNCHANGED saved /\ quota' = [Current EXCEPT !.tokens = @ - 1]
    /\ drawn' = drawn + 1

\* Budget.try_acquire says yes; the count may fail to be saved.
Draw ==
    /\ Allows(Current)
    /\ quota' = [Current EXCEPT !.used = @ + 1, !.tokens = @ - 1]
    /\ saved' \in {saved, quota'.used}
    /\ drawn' = drawn + 1

One == IF asker.known THEN 0 ELSE 1

Acquire ==
    /\ AskerAt("quota") /\ Draw
    /\ spent' = [spent EXCEPT ![asker.client] = @ + 1]
    /\ strangers' = strangers + One
    /\ AskerGoto("drawn")
    /\ UNCHANGED <<today, shares, restarts, lost>>

\* It says no: VirusTotal is skipped, and the client's share is not charged.
Refused ==
    /\ AskerAt("quota") /\ ~Allows(Current)
    /\ quota' = Current
    /\ Done
    /\ UNCHANGED <<today, saved, shares, restarts, drawn, lost, spent, strangers>>

\* Mutant: a day that has begun is not noticed.
DrawnUnrolled ==
    /\ AskerAt("drawn")
    /\ shares' = [shares EXCEPT !.by[asker.client] = @ + 1, !.unknown = @ + One]
    /\ Done
    /\ UNCHANGED <<today, saved, quota, restarts, drawn, lost, spent, strangers>>

\* _vt_drawn.
Drawn ==
    /\ AskerAt("drawn")
    /\ shares' = [Rolled EXCEPT !.by[asker.client] = @ + 1, !.unknown = @ + One]
    /\ Done
    /\ UNCHANGED <<today, saved, quota, restarts, drawn, lost, spent, strangers>>

-----------------------------------------------------------------------------
\* scanners.files asks about a file.
ScanDraws ==
    /\ Draw
    /\ UNCHANGED <<today, shares, asker, restarts, lost, spent, strangers>>

ScanRefused ==
    /\ ~Allows(Current)
    /\ quota' = Current
    /\ UNCHANGED <<today, saved, shares, asker, restarts, drawn, lost, spent, strangers>>

\* Budget._refill, one token at a time.
Refill ==
    /\ quota.tokens < PerMinute
    /\ quota' = [quota EXCEPT !.tokens = @ + 1]
    /\ UNCHANGED <<today, saved, shares, asker, restarts, drawn, lost, spent, strangers>>

\* Midnight: the counters roll over when they are next used.
NewDay ==
    /\ today < MaxDay
    /\ today' = today + 1 /\ saved' = 0
    /\ drawn' = 0 /\ lost' = 0 /\ spent' = NoneDrawn /\ strangers' = 0
    /\ UNCHANGED <<quota, shares, asker, restarts>>

\* Budget.__init__ loads the count that was saved, or none if the query fails; the
\* shares are memory only.
Reload ==
    /\ restarts < MaxRestarts
    /\ restarts' = restarts + 1
    /\ \E used \in {saved, 0} : /\ quota' = [day |-> today, used |-> used, tokens |-> PerMinute]
                                /\ lost' = drawn - used
    /\ shares' = NoShares /\ asker' = NoAsker
    /\ spent' = NoneDrawn /\ strangers' = 0
    /\ UNCHANGED <<today, saved, drawn>>

-----------------------------------------------------------------------------
BudgetNext == \/ \E c \in Hosts, known \in BOOLEAN : Ask(c, known)
        \/ CheckShare \/ Acquire \/ Refused \/ Drawn
        \/ ScanDraws \/ ScanRefused \/ Refill \/ NewDay \/ Reload

BudgetSpec == BudgetInit /\ [][BudgetNext]_budgetVars
=============================================================================
