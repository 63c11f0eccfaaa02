---------------------------- MODULE QueryLogProps ----------------------------
(* What the query log's numbers are worth.                                 *)
EXTENDS QueryLog

Entries == [id : 1..MaxQueries, ts : 0..MaxClock]

\* Every variable keeps its type; the buffer keeps its limit while the disk stalls.
TypeOK ==
    /\ clock \in 0..MaxClock /\ asked \in 0..MaxQueries
    /\ {queue, batch} \subseteq Seq(0..MaxClock) /\ {Len(queue), Len(batch)} \subseteq 0..QueueMax
    /\ rows \subseteq ever /\ ever \subseteq Entries
    /\ {DOMAIN hourly, DOMAIN totals} \subseteq SUBSET Hours
    /\ \A h \in DOMAIN hourly : hourly[h] \in 1..MaxQueries
    /\ \A h \in DOMAIN totals : totals[h] \in 1..MaxQueries
    /\ job \in {"idle", "write", "purge", "hourly"}
    /\ reader \in [since : 0..MaxClock, first : Nat, newest : Hours, at : {"idle", "raw", "both"}]

\* "the job is idempotent": however often it runs, fails or dies between its statements,
\* no query is counted twice in its hour's total.
CountedOnce == \A h \in DOMAIN hourly : hourly[h] <= Cardinality(Of(ever, h))

\* A window of up to hours_back, put together from rows and totals by two statements with
\* flushes, rollups, purges and evictions before, between and behind them, shows each of its
\* rows once: all that are still there, and at most those evicted since the rollup beside.
WindowExact ==
    reader.at # "idle" =>
        /\ Shown >= Cardinality(Since(rows, reader.since))
        /\ Shown <= Cardinality(Since(ever, reader.since))

\* "Re-aggregating a window ... makes the job idempotent and self-healing": as long as no
\* rows are evicted, an hour's total never goes down.
RollupKeepsCounts ==
    [][RollupWrite => \A h \in DOMAIN hourly : hourly'[h] >= hourly[h]]_vars
===============================================================================
