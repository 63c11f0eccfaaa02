------------------------------ MODULE Scheduler ------------------------------
(***************************************************************************)
(* The job scheduler (homesoc/scheduler.py) and the device_scan job that   *)
(* it shares with the dashboard (homesoc/cli.py, homesoc/web/api.py).      *)
(*                                                                         *)
(* One worker thread takes jobs from the queue of run_now, then from the   *)
(* timetable.  Request threads (Callers) queue jobs under the condition's  *)
(* lock, wait for them, or, once the worker is gone, run them themselves.  *)
(* The flags `running` and `queued` are written outside that lock, so the  *)
(* steps of _execute interleave with run_now one by one.                   *)
(*                                                                         *)
(* Time is the order of the timetable: its first `due` entries have a      *)
(* next_run in the past.                                                   *)
(***************************************************************************)
EXTENDS Naturals, SequencesExt

CONSTANTS
    Jobs,        \* job names
    DeviceScan,  \* the job that drains the dashboard's device queue
    Timetable,   \* the jobs with an interval or an hour, in start-up order
    Devices,     \* devices "Scan this device now" is offered for
    Worker,      \* the scheduler's thread
    Callers,     \* request threads
    None         \* no job, no holder

Executors == {Worker} \cup Callers

ASSUME SchedulerAssumption ==
    /\ DeviceScan \in Jobs
    /\ Timetable \in Seq(Jobs \ {DeviceScan}) /\ IsInjective(Timetable)
    /\ Worker \notin Callers
    /\ None \notin Jobs \cup Executors

VARIABLES
    queue,       \* _queue
    queued,      \* _State.queued
    running,     \* _State.running
    lock,        \* _State.lock: who holds it
    timetable,   \* the jobs with a next_run, soonest first
    due,         \* how many of them have a next_run in the past
    phase,       \* where each thread is in _loop, _execute or run_now
    job,         \* the job it is there for
    done,        \* _done_events: which are set
    wanted,      \* _DEVICE_SCAN_QUEUE
    mode         \* "up", "stopping" (stop was called), "detached" (_thread = None)

schedVars == <<queue, queued, timetable, due, done>>
vars == <<schedVars, running, lock, phase, job, wanted, mode>>

Busy   == {"drain", "scan"}
Phases == Busy \cup {"idle", "start", "record", "wake", "exit", "click", "wait"}

\* Scheduler.running: the thread is known and alive.
Alive == mode # "detached" /\ phase[Worker] # "exit"

Goto(x, label) == phase' = [phase EXCEPT ![x] = label]
Begin(x, j)    == Goto(x, "start") /\ job' = [job EXCEPT ![x] = j]

Init ==
    /\ queue = <<>>
    /\ queued = [j \in Jobs |-> FALSE]
    /\ running = [j \in Jobs |-> FALSE]
    /\ lock = [j \in Jobs |-> None]
    /\ timetable = Timetable
    /\ due \in 0..Len(Timetable)
    /\ phase = [x \in Executors |-> "idle"]
    /\ job = [x \in Executors |-> None]
    /\ done = [j \in Jobs |-> FALSE]
    /\ wanted = {}
    /\ mode = "up"

-----------------------------------------------------------------------------
(* _next_job: the queue first, then the job that is due the longest.       *)

\* Mutant: the newest click first.
NextQueuedLast(w) ==
    /\ phase[w] = "idle" /\ mode = "up" /\ queue # <<>>
    /\ queue' = Front(queue)
    /\ queued' = [queued EXCEPT ![Last(queue)] = FALSE]
    /\ Begin(w, Last(queue))
    /\ UNCHANGED <<running, lock, timetable, due, done, wanted, mode>>

NextQueued(w) ==
    /\ phase[w] = "idle" /\ mode = "up" /\ queue # <<>>
    /\ queue' = Tail(queue)
    /\ queued' = [queued EXCEPT ![Head(queue)] = FALSE]
    /\ Begin(w, Head(queue))
    /\ UNCHANGED <<running, lock, timetable, due, done, wanted, mode>>

\* Mutant: the job that came due last.
NextDueLatest(w) ==
    /\ phase[w] = "idle" /\ mode = "up" /\ queue = <<>> /\ due > 0
    /\ Begin(w, timetable[due])
    /\ UNCHANGED <<schedVars, running, lock, wanted, mode>>

\* Mutant: what is due goes before what was clicked.
NextDueFirst(w) ==
    /\ phase[w] = "idle" /\ mode = "up" /\ due > 0
    /\ Begin(w, timetable[1])
    /\ UNCHANGED <<schedVars, running, lock, wanted, mode>>

NextDue(w) ==
    /\ phase[w] = "idle" /\ mode = "up" /\ queue = <<>> /\ due > 0
    /\ Begin(w, timetable[1])
    /\ UNCHANGED <<schedVars, running, lock, wanted, mode>>

\* The clock reaches the next entry's next_run.
Tick ==
    /\ due < Len(timetable)
    /\ due' = due + 1
    /\ UNCHANGED <<queue, queued, timetable, done, running, lock, phase, job,
                   wanted, mode>>

-----------------------------------------------------------------------------
(* _execute, by the worker or inline by a caller.                          *)

\* What follows _execute: the worker sets the done event, a caller returns.
Return(x) ==
    IF x = Worker THEN Goto(x, "wake") /\ UNCHANGED job
    ELSE Goto(x, "idle") /\ job' = [job EXCEPT ![x] = None]

\* Mutant: `running` is looked at instead of the lock being taken.
ExecuteUnlocked(x) ==
    LET j == job[x] IN
    /\ phase[x] = "start"
    /\ lock' = [lock EXCEPT ![j] = x]
    /\ running' = [running EXCEPT ![j] = TRUE]
    /\ Goto(x, IF j = DeviceScan THEN "drain" ELSE "scan")
    /\ UNCHANGED <<schedVars, job, wanted, mode>>

\* lock.acquire(blocking=False), then running = True and job.func(); or "skipped".
Execute(x) ==
    LET j == job[x] IN
    /\ phase[x] = "start"
    /\ IF lock[j] = None
       THEN /\ lock' = [lock EXCEPT ![j] = x]
            /\ running' = [running EXCEPT ![j] = TRUE]
            /\ Goto(x, IF j = DeviceScan THEN "drain" ELSE "scan")
            /\ UNCHANGED job
       ELSE Return(x) /\ UNCHANGED <<lock, running>>
    /\ UNCHANGED <<schedVars, wanted, mode>>

\* run_device_scan: take every id that was asked for.
DrainDevices(x) ==
    /\ phase[x] = "drain"
    /\ wanted' = {}
    /\ Goto(x, "scan")
    /\ UNCHANGED <<schedVars, running, lock, job, mode>>

\* Mutant: a finished job gets no next_run.
RescheduleNever(j) ==
    /\ UNCHANGED due
    /\ IF Contains(timetable, j)
       THEN \E i \in 1..Len(timetable) : timetable[i] = j /\ timetable' = RemoveAt(timetable, i)
       ELSE UNCHANGED timetable

\* _next_after_run: j's entry moves to some place in the future.
Reschedule(j) ==
    IF Contains(timetable, j)
    THEN \E i \in 1..Len(timetable) :
            /\ timetable[i] = j
            /\ due' = IF i <= due THEN due - 1 ELSE due
            /\ \E p \in (due' + 1)..Len(timetable) :
                  timetable' = InsertAt(RemoveAt(timetable, i), p, j)
    ELSE UNCHANGED <<timetable, due>>

\* The `finally`: running = False, a new next_run, the lock released.
FinishRun(x) ==
    LET j == job[x] IN
    /\ phase[x] = "scan"
    /\ running' = [running EXCEPT ![j] = FALSE]
    /\ lock' = [lock EXCEPT ![j] = None]
    /\ Reschedule(j)
    /\ Goto(x, "record")
    /\ UNCHANGED <<queue, queued, done, job, wanted, mode>>

\* _record: three database writes, with no lock held.
Record(x) ==
    /\ phase[x] = "record"
    /\ Return(x)
    /\ UNCHANGED <<schedVars, running, lock, wanted, mode>>

\* _loop: done.set(), then _stop is looked at again.
SetDone(w) ==
    /\ phase[w] = "wake"
    /\ done' = [done EXCEPT ![job[w]] = TRUE]
    /\ Goto(w, "idle") /\ job' = [job EXCEPT ![w] = None]
    /\ UNCHANGED <<queue, queued, timetable, due, running, lock, wanted, mode>>

ExitLoop(w) ==
    /\ phase[w] = "idle" /\ mode # "up"
    /\ Goto(w, "exit")
    /\ UNCHANGED <<schedVars, running, lock, job, wanted, mode>>

-----------------------------------------------------------------------------
(* run_now and its callers.                                                *)

\* Already running or already queued: turned away.
Accepted(j) == ~running[j] /\ ~queued[j]

\* The part under the condition's lock.
Enqueue(j) ==
    /\ queued' = [queued EXCEPT ![j] = TRUE]
    /\ queue' = Append(queue, j)
    /\ done' = [done EXCEPT ![j] = FALSE]

\* run_now(j, wait=...) with a worker alive.  A run that began before the call
\* and has not set running yet is not the caller's.
RunNow(c, j, wait) ==
    /\ Alive
    /\ IF Accepted(j)
       THEN /\ Enqueue(j)
            /\ IF wait THEN Goto(c, "wait") /\ job' = [job EXCEPT ![c] = j]
                       ELSE Goto(c, "idle") /\ UNCHANGED job
       ELSE Goto(c, "idle") /\ UNCHANGED <<queue, queued, done, job>>
    /\ UNCHANGED <<timetable, due, running, lock, wanted, mode>>

\* run_now with no worker: in the caller's own thread, unless j is running.
RunInline(c, j) ==
    /\ ~Alive
    /\ IF running[j] THEN Goto(c, "idle") /\ UNCHANGED job ELSE Begin(c, j)
    /\ UNCHANGED <<schedVars, running, lock, wanted, mode>>

Call(c, j, wait) == RunNow(c, j, wait) \/ RunInline(c, j)

StopWaiting(c) ==
    /\ Goto(c, "idle")
    /\ job' = [job EXCEPT ![c] = None]
    /\ UNCHANGED <<schedVars, running, lock, wanted, mode>>

\* done.wait returns: the event is set, or the timeout has passed.
WaitReturns(c) ==
    /\ phase[c] = "wait" /\ done[job[c]]
    /\ StopWaiting(c)

WaitTimesOut(c) ==
    /\ phase[c] = "wait"
    /\ StopWaiting(c)

\* trigger_device_scan: queue_device_scan first, run_now("device_scan") next.
QueueDeviceScan(c, d) ==
    /\ phase[c] = "idle"
    /\ wanted' = wanted \cup {d}
    /\ Goto(c, "click")
    /\ UNCHANGED <<schedVars, running, lock, job, mode>>

RunDeviceScan(c) == phase[c] = "click" /\ Call(c, DeviceScan, FALSE)

-----------------------------------------------------------------------------
(* Scheduler.stop                                                          *)

Stop ==
    /\ mode = "up"
    /\ mode' = "stopping"
    /\ UNCHANGED <<schedVars, running, lock, phase, job, wanted>>

\* join returned, or gave up after its timeout with a job still going on.
Detach ==
    /\ mode = "stopping"
    /\ mode' = "detached"
    /\ UNCHANGED <<schedVars, running, lock, phase, job, wanted>>

-----------------------------------------------------------------------------
ExecuteStep(x) ==
    Execute(x) \/ DrainDevices(x) \/ FinishRun(x) \/ Record(x)

WorkerStep == NextQueued(Worker) \/ NextDue(Worker) \/ SetDone(Worker) \/ ExitLoop(Worker)
              \/ ExecuteStep(Worker)

CallerStep(c) == RunDeviceScan(c) \/ ExecuteStep(c) \/ WaitReturns(c)

Next ==
    \/ WorkerStep \/ Tick \/ Stop \/ Detach
    \/ \E c \in Callers :
          \/ \E j \in Jobs \ {DeviceScan}, wait \in BOOLEAN : phase[c] = "idle" /\ Call(c, j, wait)
          \/ \E d \in Devices : QueueDeviceScan(c, d)
          \/ CallerStep(c) \/ WaitTimesOut(c)

Spec == Init /\ [][Next]_vars

\* Threads go on, and a job ends: network code carries its own wall-clock limits.
FairSpec == Spec /\ WF_vars(WorkerStep) /\ \A c \in Callers : WF_vars(CallerStep(c))
=============================================================================
