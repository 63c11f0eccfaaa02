---------------------------- MODULE SchedulerProps ----------------------------
(* What the scheduler promises.                                            *)
EXTENDS Scheduler

\* Every variable keeps its type.
TypeOK ==
    /\ queue \in Seq(Jobs)
    /\ queued \in [Jobs -> BOOLEAN]
    /\ running \in [Jobs -> BOOLEAN]
    /\ lock \in [Jobs -> Executors \cup {None}]
    /\ timetable \in Seq(Jobs)
    /\ due \in 0..Len(timetable)
    /\ phase \in [Executors -> Phases]
    /\ job \in [Executors -> Jobs \cup {None}]
    /\ done \in [Jobs -> BOOLEAN]
    /\ wanted \subseteq Devices
    /\ mode \in {"up", "stopping", "detached"}

\* "The per-job lock guarantees the same job never overlaps", whether the worker
\* or callers left without one run it; `running`, which run_now and the dashboard
\* go by, says so exactly.
NoOverlap ==
    /\ \A x, y \in Executors :
          phase[x] \in Busy /\ phase[y] \in Busy /\ job[x] = job[y] => x = y
    /\ \A j \in Jobs : running[j] <=> \E x \in Executors : phase[x] \in Busy /\ job[x] = j

\* Clicks do not stack up: a job waits in the queue at most once, and `queued`
\* tells whether it does.
NoStacking ==
    /\ IsInjective(queue)
    /\ \A j \in Jobs : queued[j] <=> Contains(queue, j)

\* What each thread has in hand: a job that _next_job or run_now gave it, until it
\* has run it or found it running.
Hand(x) ==
    CASE phase[x] = "start" -> [job |-> job[x], state |-> "taken"]
      [] phase[x] \in Busy  -> [job |-> job[x], state |-> "running"]
      [] OTHER              -> [job |-> None, state |-> "none"]

Asked == {queue[i] : i \in 1..Len(queue)}
Hands == [x \in Executors |-> Hand(x)]

Service == INSTANCE JobService WITH
    Threads <- Executors, open <- Alive, asked <- Asked, hand <- Hands

\* Queue, timetable, flags and locks together are a job service: run_now accepts a
\* job only while the worker lives and only once, what it accepted goes before what
\* is due, and whoever has a job in hand runs it alone or finds it running.
IsJobService == Service!Spec

\* A click run_now accepted is carried out, however many others come after it.
AcceptedClicksRun ==
    \A j \in Jobs : (queued[j] /\ mode = "up") ~> (running[j] \/ mode # "up")

\* A job whose time has come runs, once the clicks that go first have ended.
DueJobsRun ==
    \A j \in Jobs :
        <>[](queue = <<>> /\ mode = "up") =>
            [](j \in {timetable[i] : i \in 1..due} => <>running[j])

\* queue_device_scan: "the device_scan job drains the queue".
DeviceClicksAreScanned ==
    \A d \in Devices : (d \in wanted) ~> (d \notin wanted \/ mode # "up")
==============================================================================
