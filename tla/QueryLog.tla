------------------------------- MODULE QueryLog -------------------------------
(***************************************************************************)
(* The DNS query log (homesoc/dnsfilter/querylog.py): buffer, raw rows,    *)
(* hourly totals and retention, and how the dashboard adds the two kinds   *)
(* up (_dns_window and dns_window_counts in homesoc/web/api.py).           *)
(*                                                                         *)
(* Threads that answer queries append to the buffer; the log's own thread  *)
(* writes it out, and stop does once that thread has ended; the hourly job *)
(* rolls up and purges, and does not overlap itself (Scheduler).  Each SQL *)
(* statement is atomic.                                                    *)
(*                                                                         *)
(* Time goes in ticks, PerHour of them to the hour; tick 0 is the first of *)
(* an hour.  All queries are one client's, and blocked ones are not        *)
(* counted apart: the code groups by both in the same statements.          *)
(***************************************************************************)
EXTENDS Naturals, FiniteSets, FiniteSetsExt, SequencesExt

CONSTANTS
    PerHour,       \* ticks
    Back,          \* ticks that a rollup looks back, hours_back
    Retain,        \* ticks that raw rows are kept, log_retention_days
    RetainHourly,  \* and hourly totals
    Window,        \* ticks that the dashboard looks back
    QueueMax,      \* batch_size * 20
    MaxRows,       \* MAX_LOG_ROWS
    MaxClock,      \* bound: the last tick
    MaxQueries     \* bound: queries

ASSUME QueryLogAssumption ==
    /\ {PerHour, MaxRows} \subseteq Nat \ {0}
    /\ {Back, Retain, RetainHourly, Window, QueueMax, MaxClock, MaxQueries} \subseteq Nat

VARIABLES
    clock,
    queue,     \* _queue: the timestamps
    batch,     \* flush: the rows it has taken out of the queue
    rows,      \* dns_queries: [id, ts]
    hourly,    \* dns_hourly: hour -> total, for the hours it has
    job,       \* where maintenance is
    totals,    \* rollup: the counts it has selected
    reader,    \* a request inside dns_window_counts: where the window is split
    asked,     \* how many queries there have been
    ever       \* history: every row there has been

vars == <<clock, queue, batch, rows, hourly, job, totals, reader, asked, ever>>

Hour(t)   == t \div PerHour
StartOf(h) == h * PerHour
Ago(n)    == IF clock > n THEN clock - n ELSE 0   \* _cutoff_iso
Hours     == 0..Hour(MaxClock)
Of(T, h)  == {r \in T : Hour(r.ts) = h}
Since(T, t) == {r \in T : r.ts >= t}

NoReader == [since |-> 0, first |-> 0, newest |-> 0, at |-> "idle"]

Init ==
    /\ clock = 0 /\ queue = <<>> /\ batch = <<>>
    /\ rows = {} /\ ever = {} /\ hourly = <<>> /\ job = "idle" /\ totals = <<>>
    /\ reader = NoReader /\ asked = 0

-----------------------------------------------------------------------------
(* record and flush.                                                       *)

\* Mutant: the buffer has no limit.
RecordUnlimited ==
    /\ asked < MaxQueries /\ asked' = asked + 1
    /\ queue' = Append(queue, clock)
    /\ UNCHANGED <<clock, batch, rows, hourly, job, totals, reader, ever>>

\* A query within its budget joins the queue, unless that is full.
Record ==
    /\ asked < MaxQueries /\ asked' = asked + 1
    /\ queue' = IF Len(queue) >= QueueMax THEN queue ELSE Append(queue, clock)
    /\ UNCHANGED <<clock, batch, rows, hourly, job, totals, reader, ever>>

TakeBatch ==
    /\ queue # <<>> /\ batch = <<>>
    /\ batch' = queue /\ queue' = <<>>
    /\ UNCHANGED <<clock, rows, hourly, job, totals, reader, asked, ever>>

WriteBatch ==
    /\ batch # <<>>
    /\ LET new == {[id |-> Cardinality(ever) + i, ts |-> batch[i]] : i \in 1..Len(batch)}
       IN  rows' = rows \cup new /\ ever' = ever \cup new
    /\ batch' = <<>>
    /\ UNCHANGED <<clock, queue, hourly, job, totals, reader, asked>>

\* The insert fails.
LoseBatch ==
    /\ batch # <<>> /\ batch' = <<>>
    /\ UNCHANGED <<clock, queue, rows, hourly, job, totals, reader, asked, ever>>

\* The process dies with what it has in memory.
Crash ==
    /\ queue # <<>> \/ batch # <<>> \/ job # "idle" \/ reader.at # "idle"
    /\ queue' = <<>> /\ batch' = <<>>
    /\ job' = "idle" /\ totals' = <<>> /\ reader' = NoReader
    /\ UNCHANGED <<clock, rows, hourly, asked, ever>>

-----------------------------------------------------------------------------
(* maintenance: rollup, purge, row cap.                                    *)

\* Counts per hour, of the hours that have rows since then.
Count(since) ==
    [h \in {Hour(r.ts) : r \in Since(rows, since)} |-> Cardinality(Of(Since(rows, since), h))]

RollupRead ==
    /\ job = "idle" /\ job' = "write"
    /\ totals' = Count(Ago(Back))
    /\ UNCHANGED <<clock, queue, batch, rows, hourly, reader, asked, ever>>

Total(T, h) == IF h \in DOMAIN T THEN T[h] ELSE 0

\* Mutant: the new counts are added to the old.
RollupAdds ==
    /\ job = "write" /\ job' = "purge" /\ totals' = <<>>
    /\ hourly' = [h \in DOMAIN hourly \cup DOMAIN totals |-> Total(hourly, h) + Total(totals, h)]
    /\ UNCHANGED <<clock, queue, batch, rows, reader, asked, ever>>

\* ON CONFLICT DO UPDATE SET total = excluded.total
RollupWrite ==
    /\ job = "write" /\ job' = "purge" /\ totals' = <<>>
    /\ hourly' = [h \in DOMAIN hourly \cup DOMAIN totals |->
                    IF h \in DOMAIN totals THEN totals[h] ELSE hourly[h]]
    /\ UNCHANGED <<clock, queue, batch, rows, reader, asked, ever>>

PurgeQueries ==
    /\ job = "purge" /\ job' = "hourly"
    /\ rows' = Since(rows, Ago(Retain))
    /\ UNCHANGED <<clock, queue, batch, hourly, totals, reader, asked, ever>>

PurgeHourly ==
    /\ job = "hourly" /\ job' = "idle"
    /\ hourly' = Restrict(hourly, {h \in DOMAIN hourly : h >= Hour(Ago(RetainHourly))})
    /\ UNCHANGED <<clock, queue, batch, rows, totals, reader, asked, ever>>

\* A statement of the job fails, and with it the rest of the job.
JobFails ==
    /\ job # "idle" /\ job' = "idle" /\ totals' = <<>>
    /\ UNCHANGED <<clock, queue, batch, rows, hourly, reader, asked, ever>>

\* enforce_row_cap, one slice: of the job or of the log's thread.
Evict ==
    /\ Cardinality(rows) > 0
    /\ LET newest == Max({r.id : r \in rows})
       IN  \E upto \in {r.id : r \in rows} :
             /\ upto + MaxRows <= newest
             /\ rows' = {r \in rows : r.id > upto}
    /\ UNCHANGED <<clock, queue, batch, hourly, job, totals, reader, asked, ever>>

-----------------------------------------------------------------------------
(* dns_window_counts: a statement that finds where the rolled-up hours of  *)
(* the window end, and one that counts.                                    *)

Middle(since) == {h \in DOMAIN hourly : h > Hour(since)}

\* Mutant: the window begins with its first, partial hour's total.
SplitEarly ==
    /\ reader.at = "idle"
    /\ LET since  == Ago(Window)
           newest == IF Middle(since) = {} THEN 0 ELSE Max(Middle(since))
       IN  reader' = [since |-> since, first |-> Hour(since), newest |-> newest,
                      at |-> IF newest > Hour(since) + 1 THEN "both" ELSE "raw"]
    /\ UNCHANGED <<clock, queue, batch, rows, hourly, job, totals, asked, ever>>

\* _dns_window
Split ==
    /\ reader.at = "idle"
    /\ LET since  == Ago(Window)
           newest == IF Middle(since) = {} THEN 0 ELSE Max(Middle(since))
       IN  reader' = [since |-> since, first |-> Hour(since) + 1, newest |-> newest,
                      at |-> IF newest > Hour(since) + 1 THEN "both" ELSE "raw"]
    /\ UNCHANGED <<clock, queue, batch, rows, hourly, job, totals, asked, ever>>

\* SUM(total) over the hours H: as many as there are pairs of an hour and a number up to
\* its total.
TotalOver(T, H) == Cardinality(UNION {{h} \X (1..T[h]) : h \in H})

\* What the second statement returns: raw rows of the partial first hour, totals of the
\* whole hours in the middle, and raw rows again from the newest rolled-up hour on.
Shown ==
    IF reader.at = "raw" THEN Cardinality(Since(rows, reader.since))
    ELSE Cardinality({r \in rows : r.ts >= reader.since /\ r.ts < StartOf(reader.first)})
         + TotalOver(hourly, {h \in DOMAIN hourly : reader.first <= h /\ h < reader.newest})
         + Cardinality(Since(rows, StartOf(reader.newest)))

Answer ==
    /\ reader.at # "idle" /\ reader' = NoReader
    /\ UNCHANGED <<clock, queue, batch, rows, hourly, job, totals, asked, ever>>

\* A request takes less than a tick.
Tick ==
    /\ clock < MaxClock /\ clock' = clock + 1 /\ reader.at = "idle"
    /\ UNCHANGED <<queue, batch, rows, hourly, job, totals, reader, asked, ever>>

-----------------------------------------------------------------------------
Next ==
    \/ Record \/ Crash \/ Tick
    \/ TakeBatch \/ WriteBatch \/ LoseBatch
    \/ RollupRead \/ RollupWrite \/ PurgeQueries \/ PurgeHourly \/ JobFails \/ Evict
    \/ Split \/ Answer

Spec == Init /\ [][Next]_vars
===============================================================================
