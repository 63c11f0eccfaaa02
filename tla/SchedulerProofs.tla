--------------------------- MODULE SchedulerProofs ---------------------------
(***************************************************************************)
(* No job overlaps itself and no click stacks up, for any jobs, timetable  *)
(* and number of request threads, before and after the worker is stopped.  *)
(***************************************************************************)
EXTENDS SchedulerProps, SequenceTheorems, TLAPS

\* A thread in _execute has a job, the lock is held exactly while one is busy
\* with it, and `running` follows the lock.
LockInv ==
    /\ \A x \in Executors : phase[x] \in Busy \cup {"start", "record", "wake", "wait"}
                               => job[x] \in Jobs
    /\ \A x \in Executors, j \in Jobs : lock[j] = x <=> phase[x] \in Busy /\ job[x] = j
    /\ \A j \in Jobs : running[j] <=> lock[j] # None

IInv == TypeOK /\ LockInv /\ NoStacking

LEMMA Piece ==
    ASSUME NEW S, NEW s \in Seq(S), NEW m \in 1..(Len(s) + 1), NEW n \in (m - 1)..Len(s)
    PROVE  SubSeq(s, m, n) \in Seq(S) /\ Len(SubSeq(s, m, n)) = n - m + 1
<1>1. \A k \in m..n : s[k] \in S
    OBVIOUS
<1>2. m \in Int /\ n \in Int
    OBVIOUS
<1> QED BY <1>1, <1>2, SubSeqProperties

\* Moving one entry of a sequence keeps it a sequence of the same length.
LEMMA MoveEntry ==
    ASSUME NEW S, NEW s \in Seq(S), NEW i \in 1..Len(s), NEW p \in 1..Len(s), NEW e \in S
    PROVE  /\ InsertAt(RemoveAt(s, i), p, e) \in Seq(S)
           /\ Len(InsertAt(RemoveAt(s, i), p, e)) = Len(s)
<1> DEFINE r == RemoveAt(s, i)
<1>1. r \in Seq(S) /\ Len(r) = Len(s) - 1
    <2>1. SubSeq(s, 1, i - 1) \in Seq(S) /\ Len(SubSeq(s, 1, i - 1)) = i - 1
        BY Piece
    <2>2. SubSeq(s, i + 1, Len(s)) \in Seq(S) /\ Len(SubSeq(s, i + 1, Len(s))) = Len(s) - i
        BY Piece
    <2>3. i - 1 \in Nat /\ Len(s) - i \in Nat /\ (i - 1) + (Len(s) - i) = Len(s) - 1
        OBVIOUS
    <2> DEFINE a == SubSeq(s, 1, i - 1)
               b == SubSeq(s, i + 1, Len(s))
    <2>4. a \in Seq(S) /\ Len(a) = i - 1 /\ b \in Seq(S) /\ Len(b) = Len(s) - i
        BY <2>1, <2>2
    <2> HIDE DEF a, b
    <2>5. a \o b \in Seq(S) /\ Len(a \o b) = Len(a) + Len(b)
        BY <2>4, ConcatProperties
    <2>6. RemoveAt(s, i) = a \o b
        BY DEF RemoveAt, a, b
    <2> QED BY <2>3, <2>4, <2>5, <2>6
<1> HIDE DEF r
<1>2. SubSeq(r, 1, p - 1) \in Seq(S) /\ Len(SubSeq(r, 1, p - 1)) = p - 1
    BY <1>1, Piece
<1>3. SubSeq(r, p, Len(r)) \in Seq(S) /\ Len(SubSeq(r, p, Len(r))) = Len(s) - p
    BY <1>1, Piece
<1>4. <<e>> \in Seq(S) /\ Len(<<e>>) = 1
    OBVIOUS
<1>5. SubSeq(r, 1, p - 1) \o <<e>> \in Seq(S) /\ Len(SubSeq(r, 1, p - 1) \o <<e>>) = p
    BY <1>2, <1>4, ConcatProperties
<1>6. InsertAt(r, p, e) \in Seq(S) /\ Len(InsertAt(r, p, e)) = Len(s)
    <2> DEFINE a == SubSeq(r, 1, p - 1) \o <<e>>
               b == SubSeq(r, p, Len(r))
    <2>1. p \in Nat /\ Len(s) - p \in Nat /\ p + (Len(s) - p) = Len(s)
        OBVIOUS
    <2>2. a \in Seq(S) /\ Len(a) = p /\ b \in Seq(S) /\ Len(b) = Len(s) - p
        BY <1>3, <1>5
    <2> HIDE DEF a, b
    <2>3. a \o b \in Seq(S) /\ Len(a \o b) = Len(a) + Len(b)
        BY <2>2, ConcatProperties
    <2>4. InsertAt(r, p, e) = a \o b
        BY DEF InsertAt, a, b
    <2>5. Len(a \o b) = Len(s)
        BY <2>1, <2>2, <2>3
    <2> QED BY <2>3, <2>4, <2>5, Zenon
<1>7. r = RemoveAt(s, i)
    BY Zenon DEF r
<1> QED BY <1>6, <1>7, ZenonT(30)

LEMMA RescheduleKeeps ==
    ASSUME NEW j \in Jobs, timetable \in Seq(Jobs), due \in 0..Len(timetable), Reschedule(j)
    PROVE  timetable' \in Seq(Jobs) /\ due' \in 0..Len(timetable')
<1>1. CASE Contains(timetable, j)
    <2>1. PICK i \in 1..Len(timetable) :
              /\ timetable[i] = j
              /\ due' = IF i <= due THEN due - 1 ELSE due
              /\ \E p \in (due' + 1)..Len(timetable) :
                    timetable' = InsertAt(RemoveAt(timetable, i), p, j)
        BY <1>1 DEF Reschedule
    <2>2. due' \in 0..Len(timetable)
        BY <2>1
    <2>3. PICK p \in 1..Len(timetable) : timetable' = InsertAt(RemoveAt(timetable, i), p, j)
        BY <2>1, <2>2
    <2> QED BY <2>2, <2>3, MoveEntry
<1>2. CASE ~Contains(timetable, j)
    BY <1>2 DEF Reschedule
<1> QED BY <1>1, <1>2

\* A thread that moves from one place outside the lock to another.
LEMMA NotBusy ==
    ASSUME TypeOK, LockInv, NEW x \in Executors, UNCHANGED <<lock, running>>,
           \A y \in Executors \ {x} : phase'[y] = phase[y] /\ job'[y] = job[y],
           phase[x] \notin Busy, phase'[x] \notin Busy,
           phase'[x] \in {"start", "record", "wake", "wait"} => job'[x] \in Jobs
    PROVE  LockInv'
<1>1. \A y \in Executors : phase'[y] \in Busy \cup {"start", "record", "wake", "wait"}
                                => job'[y] \in Jobs
    BY DEF LockInv, Busy
<1>2. \A y \in Executors, j \in Jobs : lock'[j] = y <=> phase'[y] \in Busy /\ job'[y] = j
    BY DEF LockInv
<1> QED BY <1>1, <1>2 DEF LockInv

LEMMA InitInv == Init => IInv
BY SchedulerAssumption
   DEF Init, IInv, TypeOK, LockInv, NoStacking, Executors, Phases, Busy, IsInjective, Contains

LEMMA Step == IInv /\ [Next]_vars => IInv'
<1> SUFFICES ASSUME IInv, [Next]_vars PROVE IInv'
    OBVIOUS
<1> USE SchedulerAssumption DEF IInv, Executors, Busy, Goto
<1>1. ASSUME NextQueued(Worker) PROVE IInv'
    <2>1. queue \in Seq(Jobs) /\ queue # <<>> /\ IsInjective(queue)
        BY <1>1 DEF NextQueued, TypeOK, NoStacking
    <2>2. /\ Head(queue) \in Jobs /\ Tail(queue) \in Seq(Jobs) /\ Len(Tail(queue)) = Len(queue) - 1
          /\ Head(queue) = queue[1] /\ Len(queue) \in Nat \ {0}
          /\ \A i \in 1..Len(Tail(queue)) : Tail(queue)[i] = queue[i + 1]
        BY <2>1, HeadTailProperties
    <2>3. TypeOK'
        BY <1>1, <2>2 DEF NextQueued, Begin, TypeOK, Phases
    <2>4. LockInv'
        BY <1>1, <2>2 DEF NextQueued, Begin, TypeOK, LockInv
    <2>5. IsInjective(Tail(queue))
        BY <2>1, <2>2 DEF IsInjective
    <2>6. ASSUME NEW j \in Jobs
          PROVE  Contains(Tail(queue), j) <=> Contains(queue, j) /\ j # Head(queue)
        <3>1. Contains(Tail(queue), j) => Contains(queue, j) /\ j # Head(queue)
            BY <2>1, <2>2 DEF Contains, IsInjective
        <3>2. ASSUME NEW i \in 1..Len(queue), queue[i] = j, j # Head(queue)
              PROVE  Contains(Tail(queue), j)
            <4>1. i - 1 \in 1..Len(Tail(queue))
                BY <3>2, <2>2
            <4>2. Tail(queue)[i - 1] = j
                BY <3>2, <2>2, <4>1
            <4> QED BY <4>1, <4>2 DEF Contains
        <3> QED BY <3>1, <3>2 DEF Contains
    <2>7. NoStacking'
        BY <1>1, <2>2, <2>5, <2>6 DEF NextQueued, NoStacking, TypeOK
    <2> QED BY <2>3, <2>4, <2>7
<1>2. ASSUME NextDue(Worker) PROVE IInv'
    <2>1. timetable[1] \in Jobs
        BY <1>2 DEF NextDue, TypeOK
    <2> QED BY <1>2, <2>1 DEF NextDue, Begin, TypeOK, LockInv, NoStacking, Phases, schedVars
<1>3. ASSUME Tick PROVE IInv'
    BY <1>3 DEF Tick, TypeOK, LockInv, NoStacking
<1>4. ASSUME NEW x \in Executors, Execute(x) PROVE IInv'
    <2>0. job[x] \in Jobs
        BY <1>4 DEF Execute, LockInv
    <2>1. CASE lock[job[x]] = None
        <3> DEFINE label == IF job[x] = DeviceScan THEN "drain" ELSE "scan"
        <3>1. /\ lock' = [lock EXCEPT ![job[x]] = x] /\ running' = [running EXCEPT ![job[x]] = TRUE]
              /\ phase' = [phase EXCEPT ![x] = label] /\ label \in Busy /\ phase[x] = "start"
              /\ UNCHANGED <<schedVars, job, wanted, mode>>
            BY <1>4, <2>1 DEF Execute
        <3> HIDE DEF label
        <3>2. TypeOK'
            BY <2>0, <3>1 DEF schedVars, TypeOK, Phases
        <3>3. LockInv'
            BY <2>0, <2>1, <3>1 DEF TypeOK, LockInv
        <3>4. NoStacking'
            BY <3>1 DEF schedVars, NoStacking
        <3> QED BY <3>2, <3>3, <3>4
    <2>2. CASE lock[job[x]] # None
        BY <1>4, <2>0, <2>2 DEF Execute, Return, TypeOK, LockInv, NoStacking, Phases, schedVars
    <2> QED BY <2>1, <2>2
<1>5. ASSUME NEW x \in Executors, DrainDevices(x) PROVE IInv'
    BY <1>5 DEF DrainDevices, TypeOK, LockInv, NoStacking, Phases, schedVars
<1>6. ASSUME NEW x \in Executors, FinishRun(x) PROVE IInv'
    <2>1. timetable' \in Seq(Jobs) /\ due' \in 0..Len(timetable')
        BY <1>6, RescheduleKeeps DEF FinishRun, LockInv, TypeOK
    <2>2. job[x] \in Jobs /\ lock[job[x]] = x
        BY <1>6 DEF FinishRun, LockInv
    <2> QED BY <1>6, <2>1, <2>2 DEF FinishRun, TypeOK, LockInv, NoStacking, Phases
<1>7. ASSUME NEW x \in Executors, Record(x) PROVE IInv'
    <2>1. TypeOK'
        BY <1>7 DEF Record, Return, schedVars, TypeOK, Phases
    <2>2. LockInv'
        BY <1>7 DEF Record, Return, schedVars, TypeOK, LockInv
    <2>3. NoStacking'
        BY <1>7 DEF Record, Return, schedVars, NoStacking
    <2> QED BY <2>1, <2>2, <2>3
<1>8. ASSUME SetDone(Worker) PROVE IInv'
    BY <1>8 DEF SetDone, TypeOK, LockInv, NoStacking, Phases
<1>9. ASSUME ExitLoop(Worker) PROVE IInv'
    BY <1>9 DEF ExitLoop, TypeOK, LockInv, NoStacking, Phases, schedVars
<1>10. ASSUME NEW c \in Callers, NEW j \in Jobs, NEW wait \in BOOLEAN,
              phase[c] \in {"idle", "click"}, RunNow(c, j, wait)
       PROVE IInv'
    <2>1. CASE ~Accepted(j)
        BY <1>10, <2>1 DEF RunNow, TypeOK, LockInv, NoStacking, Phases
    <2>2. CASE Accepted(j)
        <3>1. /\ queue' = Append(queue, j) /\ queue \in Seq(Jobs)
              /\ queued' = [queued EXCEPT ![j] = TRUE] /\ done' = [done EXCEPT ![j] = FALSE]
              /\ UNCHANGED <<timetable, due, running, lock, wanted, mode>>
            BY <1>10, <2>2 DEF RunNow, Enqueue, TypeOK
        <3>2. /\ Append(queue, j) \in Seq(Jobs) /\ Len(Append(queue, j)) = Len(queue) + 1
              /\ \A i \in 1..Len(queue) : Append(queue, j)[i] = queue[i]
              /\ Append(queue, j)[Len(queue) + 1] = j /\ Len(queue) \in Nat
            BY <3>1, AppendProperties
        <3>3. IF wait THEN Goto(c, "wait") /\ job' = [job EXCEPT ![c] = j]
                      ELSE Goto(c, "idle") /\ UNCHANGED job
            BY <1>10, <2>2 DEF RunNow
        <3>4. TypeOK'
            BY <3>1, <3>2, <3>3 DEF TypeOK, Phases
        <3>5. LockInv'
            BY <1>10, <3>1, <3>3, NotBusy DEF TypeOK
        <3>6. ~Contains(queue, j) /\ IsInjective(queue)
            BY <2>2 DEF Accepted, NoStacking
        <3>7. IsInjective(Append(queue, j))
            BY <3>1, <3>2, <3>6 DEF IsInjective, Contains
        <3>8. \A t \in Jobs : Contains(Append(queue, j), t) <=> Contains(queue, t) \/ t = j
            <4>1. ASSUME NEW t \in Jobs, Contains(queue, t) PROVE Contains(Append(queue, j), t)
                BY <3>1, <3>2, <4>1 DEF Contains
            <4>2. Contains(Append(queue, j), j)
                BY <3>2 DEF Contains
            <4>3. ASSUME NEW t \in Jobs, Contains(Append(queue, j), t), t # j
                  PROVE  Contains(queue, t)
                BY <3>1, <3>2, <4>3 DEF Contains
            <4> QED BY <4>1, <4>2, <4>3
        <3>9. NoStacking'
            BY <3>1, <3>7, <3>8 DEF NoStacking, TypeOK
        <3> QED BY <3>4, <3>5, <3>9
    <2> QED BY <2>1, <2>2
<1>11. ASSUME NEW c \in Callers, NEW j \in Jobs, phase[c] \in {"idle", "click"}, RunInline(c, j)
       PROVE IInv'
    <2>1. CASE running[j]
        BY <1>11, <2>1 DEF RunInline, TypeOK, LockInv, NoStacking, Phases, schedVars
    <2>2. CASE ~running[j]
        <3>1. /\ phase' = [phase EXCEPT ![c] = "start"] /\ job' = [job EXCEPT ![c] = j]
              /\ UNCHANGED <<queue, queued, timetable, due, done, running, lock, wanted, mode>>
            BY <1>11, <2>2 DEF RunInline, Begin, schedVars
        <3>2. TypeOK'
            BY <3>1 DEF TypeOK, Phases
        <3>3. LockInv'
            BY <1>11, <3>1, NotBusy DEF TypeOK
        <3>4. NoStacking'
            BY <3>1 DEF NoStacking
        <3> QED BY <3>2, <3>3, <3>4
    <2> QED BY <2>1, <2>2
<1>12. ASSUME NEW c \in Callers, WaitReturns(c) \/ WaitTimesOut(c) PROVE IInv'
    <2>1. TypeOK'
        BY <1>12 DEF WaitReturns, WaitTimesOut, StopWaiting, schedVars, TypeOK, Phases
    <2>2. LockInv'
        BY <1>12, NotBusy DEF WaitReturns, WaitTimesOut, StopWaiting, schedVars, TypeOK
    <2>3. NoStacking'
        BY <1>12 DEF WaitReturns, WaitTimesOut, StopWaiting, schedVars, NoStacking
    <2> QED BY <2>1, <2>2, <2>3
<1>13. ASSUME NEW c \in Callers, NEW d \in Devices, QueueDeviceScan(c, d) PROVE IInv'
    BY <1>13 DEF QueueDeviceScan, TypeOK, LockInv, NoStacking, Phases, schedVars
<1>14. CASE Stop \/ Detach
    BY <1>14 DEF Stop, Detach, TypeOK, LockInv, NoStacking, schedVars
<1>15. CASE UNCHANGED vars
    BY <1>15 DEF vars, schedVars, TypeOK, LockInv, NoStacking
<1> QED
    BY <1>1, <1>2, <1>3, <1>4, <1>5, <1>6, <1>7, <1>8, <1>9, <1>10, <1>11, <1>12, <1>13, <1>14, <1>15
    DEF Next, WorkerStep, CallerStep, ExecuteStep, RunDeviceScan, Call

\* The invariant that carries the others: lock, `running` and the threads agree.
THEOREM Inductive == Spec => []IInv
BY InitInv, Step, PTL DEF Spec

\* Every reachable state of the scheduler is well typed.
THEOREM TypeCorrect == Spec => []TypeOK
<1>1. IInv => TypeOK
    BY DEF IInv
<1> QED BY <1>1, Inductive, PTL

\* No job is ever run by two threads at once (_State.lock), and `running` is the
\* truth about it, whether or not the worker is alive.
THEOREM NoOverlapAlways == Spec => []NoOverlap
<1>1. IInv => NoOverlap
    BY SchedulerAssumption DEF IInv, LockInv, NoOverlap, TypeOK, Executors, Busy
<1> QED BY <1>1, Inductive, PTL

\* run_now never has a job in the queue twice, and `queued` tells the truth.
THEOREM NoStackingAlways == Spec => []NoStacking
<1>1. IInv => NoStacking
    BY DEF IInv
<1> QED BY <1>1, Inductive, PTL
-----------------------------------------------------------------------------
(* The scheduler is a job service (JobService).                            *)

LEMMA RunningIsRunning ==
    ASSUME IInv, NEW j \in Jobs
    PROVE  (\E t \in Executors : Hands[t] = [job |-> j, state |-> "running"]) <=> running[j]
<1>1. \A t \in Executors : Hands[t] = [job |-> j, state |-> "running"] <=> phase[t] \in Busy /\ job[t] = j
    BY DEF Hands, Hand
<1>2. running[j] <=> \E t \in Executors : lock[j] = t
    BY SchedulerAssumption DEF IInv, LockInv, TypeOK
<1>3. \A t \in Executors : Hands[t] = [job |-> j, state |-> "running"] <=> lock[j] = t
    <2>1. \A t \in Executors : lock[j] = t <=> phase[t] \in Busy /\ job[t] = j
        BY DEF IInv, LockInv
    <2> QED BY <1>1, <2>1, Zenon
<1> QED BY <1>2, <1>3, Zenon

\* A step of one thread shows in its own hand.
LEMMA HandOf ==
    ASSUME NEW x \in Executors, NEW h, Hand(x)' = h,
           \A y \in Executors \ {x} : Hand(y)' = Hand(y)
    PROVE  Hands' = [Hands EXCEPT ![x] = h]
BY DEF Hands

LEMMA Quiet ==
    ASSUME \A x \in Executors : Hand(x)' = Hand(x), UNCHANGED queue, Alive' = Alive
    PROVE  UNCHANGED Service!vars
BY DEF Hands, Asked, Service!vars
LEMMA ServiceInit == Init => Service!Init
BY SchedulerAssumption
   DEF Init, Service!Init, Service!Empty, Alive, Asked, Hands, Hand, Executors, Busy

\* What run_now and _next_job do to the queue, as the set of jobs asked for.
LEMMA AskedFollowsQueued ==
    ASSUME IInv, IInv'
    PROVE  /\ Asked = {j \in Jobs : queued[j]}
           /\ Asked' = {j \in Jobs : queued'[j]}
<1>1. ASSUME queue \in Seq(Jobs), queued \in [Jobs -> BOOLEAN], \A j \in Jobs : queued[j] <=> Contains(queue, j)
      PROVE  Asked = {j \in Jobs : queued[j]}
    BY <1>1 DEF Asked, Contains
<1>2. ASSUME queue' \in Seq(Jobs), queued' \in [Jobs -> BOOLEAN], \A j \in Jobs : queued'[j] <=> Contains(queue', j)
      PROVE  Asked' = {j \in Jobs : queued'[j]}
    BY <1>2 DEF Asked, Contains
<1> QED BY <1>1, <1>2 DEF IInv, TypeOK, NoStacking

LEMMA ServiceStep == IInv /\ IInv' /\ [Next]_vars => [Service!Next]_Service!vars
<1> SUFFICES ASSUME IInv, IInv', [Next]_vars PROVE Service!Next \/ UNCHANGED Service!vars
    OBVIOUS
<1> USE SchedulerAssumption DEF Executors, Busy, Goto
<1>1. ASSUME NextQueued(Worker) PROVE Service!TakeAsked(Worker, Head(queue)) /\ Head(queue) \in Jobs
    <2>1. queue \in Seq(Jobs) /\ queue # <<>> /\ queued \in [Jobs -> BOOLEAN] /\ queued[Head(queue)]
        BY <1>1 DEF NextQueued, IInv, TypeOK, NoStacking, Contains
    <2>2. Head(queue) \in Jobs
        BY <2>1
    <2>3. Asked' = Asked \ {Head(queue)} /\ Head(queue) \in Asked
        BY <1>1, <2>1, <2>2, AskedFollowsQueued DEF NextQueued
    <2>4. /\ phase' = [phase EXCEPT ![Worker] = "start"] /\ phase[Worker] = "idle"
          /\ job' = [job EXCEPT ![Worker] = Head(queue)] /\ mode = "up" /\ mode' = mode
        BY <1>1 DEF NextQueued, Begin
    <2>5. /\ Hand(Worker)' = [job |-> Head(queue), state |-> "taken"]
          /\ \A y \in Executors \ {Worker} : Hand(y)' = Hand(y)
        BY <2>4 DEF IInv, TypeOK, Hand
    <2>7. Hands[Worker] = [job |-> None, state |-> "none"]
        BY <2>4 DEF Hand, Hands
    <2>6. Alive /\ Alive'
        BY <2>4 DEF Alive, IInv, TypeOK
    <2> QED BY <2>2, <2>3, <2>5, <2>6, <2>7, HandOf DEF Service!TakeAsked, Service!Grasp, Service!Empty
<1>2. ASSUME NextDue(Worker) PROVE Service!TakeOther(Worker, timetable[1]) /\ timetable[1] \in Jobs
    <2>1. timetable[1] \in Jobs
        BY <1>2 DEF NextDue, IInv, TypeOK
    <2>2. /\ phase' = [phase EXCEPT ![Worker] = "start"] /\ phase[Worker] = "idle"
          /\ job' = [job EXCEPT ![Worker] = timetable[1]] /\ mode' = mode /\ mode = "up"
          /\ queue = <<>> /\ queue' = queue
        BY <1>2 DEF NextDue, Begin, schedVars
    <2>3. /\ Hand(Worker)' = [job |-> timetable[1], state |-> "taken"]
          /\ \A y \in Executors \ {Worker} : Hand(y)' = Hand(y)
        BY <2>2 DEF IInv, TypeOK, Hand
    <2>5. Hands[Worker] = [job |-> None, state |-> "none"]
        BY <2>2 DEF Hand, Hands
    <2>4. Alive' = Alive /\ Asked = {} /\ Asked' = Asked
        BY <2>2 DEF Alive, Asked, IInv, TypeOK
    <2> QED BY <2>1, <2>3, <2>4, <2>5, HandOf DEF Service!TakeOther, Service!Grasp, Service!Empty
<1>3. CASE Tick \/ Stop
    BY <1>3, Quiet DEF Tick, Stop, schedVars, Hand, Alive, IInv, TypeOK
<1>4. ASSUME NEW x \in Executors, Execute(x) PROVE Service!Run(x) \/ Service!PutDown(x)
    <2>1. phase[x] = "start" /\ job[x] \in Jobs /\ Hands[x] = [job |-> job[x], state |-> "taken"]
        BY <1>4 DEF Execute, IInv, LockInv, Hands, Hand
    <2>2. UNCHANGED <<queue, mode>>
        BY <1>4 DEF Execute, schedVars
    <2>3. CASE lock[job[x]] = None
        <3> DEFINE label == IF job[x] = DeviceScan THEN "drain" ELSE "scan"
        <3>1. phase' = [phase EXCEPT ![x] = label] /\ label \in Busy /\ UNCHANGED job
            BY <1>4, <2>3 DEF Execute
        <3> HIDE DEF label
        <3>2. /\ Hand(x)' = [job |-> job[x], state |-> "running"]
              /\ \A y \in Executors \ {x} : Hand(y)' = Hand(y)
            BY <3>1 DEF IInv, TypeOK, Hand
        <3>3. Hands' = [Hands EXCEPT ![x] = [job |-> job[x], state |-> "running"]]
            BY <3>2, HandOf
        <3>5. ~running[job[x]]
            BY <2>1, <2>3 DEF IInv, LockInv
        <3>6. Alive' = Alive /\ Asked' = Asked
            BY <2>1, <2>2, <3>1 DEF Alive, Asked, IInv, TypeOK
        <3> QED BY <2>1, <3>3, <3>5, <3>6, RunningIsRunning DEF Service!Run, Service!Running
    <2>4. CASE lock[job[x]] # None
        <3>1. Return(x)
            BY <1>4, <2>4 DEF Execute
        <3>2. /\ Hand(x)' = [job |-> None, state |-> "none"]
              /\ \A y \in Executors \ {x} : Hand(y)' = Hand(y)
            BY <3>1 DEF Return, IInv, TypeOK, Hand
        <3>3. running[job[x]]
            BY <2>1, <2>4 DEF IInv, LockInv
        <3>4. Alive' = Alive /\ Asked' = Asked
            BY <2>1, <2>2, <3>1 DEF Return, Alive, Asked, IInv, TypeOK
        <3> QED BY <2>1, <3>2, <3>3, <3>4, HandOf, RunningIsRunning
               DEF Service!PutDown, Service!Running, Service!Empty
    <2> QED BY <2>3, <2>4
<1>5. ASSUME NEW x \in Executors, FinishRun(x) PROVE Service!PutDown(x)
    <2>1. /\ phase[x] = "scan" /\ phase' = [phase EXCEPT ![x] = "record"]
          /\ UNCHANGED <<queue, job, mode>>
        BY <1>5 DEF FinishRun
    <2>2. /\ Hand(x)' = [job |-> None, state |-> "none"] /\ Hands[x].state = "running"
          /\ \A y \in Executors \ {x} : Hand(y)' = Hand(y)
        BY <2>1 DEF IInv, TypeOK, Hand, Hands
    <2>3. Alive' = Alive /\ Asked' = Asked
        BY <2>1 DEF Alive, Asked, IInv, TypeOK
    <2> QED BY <2>2, <2>3, HandOf DEF Service!PutDown, Service!Empty
<1>6. ASSUME NEW x \in Executors, DrainDevices(x) \/ Record(x) PROVE UNCHANGED Service!vars
    <2>1. /\ UNCHANGED <<queue, mode>> /\ \A y \in Executors \ {x} : Hand(y)' = Hand(y)
          /\ Hand(x)' = Hand(x) /\ phase[x] # "exit" /\ phase'[x] # "exit"
          /\ \A y \in Executors \ {x} : phase'[y] = phase[y]
        BY <1>6 DEF DrainDevices, Record, Return, schedVars, IInv, TypeOK, Hand
    <2>2. Alive' = Alive
        BY <2>1 DEF Alive
    <2> QED BY <2>1, <2>2, Quiet
<1>7. CASE SetDone(Worker)
    <2>1. /\ UNCHANGED <<queue, mode>> /\ \A y \in Executors : Hand(y)' = Hand(y)
          /\ phase[Worker] # "exit" /\ phase'[Worker] # "exit"
        BY <1>7 DEF SetDone, IInv, TypeOK, Hand
    <2> QED BY <2>1, Quiet DEF Alive
<1>8. ASSUME ExitLoop(Worker) \/ Detach PROVE Service!Close \/ UNCHANGED Service!vars
    <2>1. UNCHANGED queue /\ \A y \in Executors : Hand(y)' = Hand(y)
        BY <1>8 DEF ExitLoop, Detach, schedVars, IInv, TypeOK, Hand
    <2>2. Alive' = FALSE /\ Alive \in BOOLEAN
        BY <1>8 DEF ExitLoop, Detach, Alive, IInv, TypeOK
    <2>3. Hands' = Hands /\ Asked' = Asked
        BY <2>1 DEF Hands, Asked
    <2> QED BY <2>2, <2>3 DEF Service!Close, Service!vars
<1>9. ASSUME NEW c \in Callers, NEW j \in Jobs, NEW wait \in BOOLEAN,
             phase[c] \in {"idle", "click"}, RunNow(c, j, wait)
      PROVE Service!Ask(j) \/ UNCHANGED Service!vars
    <2>1. /\ \A y \in Executors : Hand(y)' = Hand(y)
          /\ phase'[Worker] = phase[Worker] /\ mode' = mode /\ Alive
        BY <1>9 DEF RunNow, IInv, TypeOK, Hand
    <2>2. Alive' = Alive
        BY <2>1 DEF Alive
    <2>3. CASE ~Accepted(j)
        BY <1>9, <2>1, <2>2, <2>3, Quiet DEF RunNow
    <2>4. CASE Accepted(j)
        <3>1. queued' = [queued EXCEPT ![j] = TRUE] /\ ~queued[j] /\ ~running[j]
            BY <1>9, <2>4 DEF RunNow, Enqueue, Accepted
        <3>2. Asked' = Asked \cup {j} /\ j \notin Asked
            BY <3>1, AskedFollowsQueued DEF IInv, TypeOK
        <3>3. Hands' = Hands
            BY <2>1 DEF Hands
        <3> QED BY <2>1, <2>2, <3>1, <3>2, <3>3, RunningIsRunning DEF Service!Ask, Service!Running
    <2> QED BY <2>3, <2>4
<1>10. ASSUME NEW c \in Callers, NEW j \in Jobs, phase[c] \in {"idle", "click"}, RunInline(c, j)
       PROVE Service!TakeOther(c, j) \/ UNCHANGED Service!vars
    <2>1. /\ UNCHANGED <<queue, mode>> /\ ~Alive /\ Alive' = Alive /\ Asked' = Asked
          /\ Hands[c] = [job |-> None, state |-> "none"]
        BY <1>10 DEF RunInline, Begin, schedVars, Alive, Asked, Hands, Hand, IInv, TypeOK
    <2>2. CASE running[j]
        <3>1. \A y \in Executors : Hand(y)' = Hand(y)
            BY <1>10, <2>2 DEF RunInline, IInv, TypeOK, Hand
        <3> QED BY <2>1, <3>1, Quiet
    <2>3. CASE ~running[j]
        <3>1. /\ Hand(c)' = [job |-> j, state |-> "taken"]
              /\ \A y \in Executors \ {c} : Hand(y)' = Hand(y)
            BY <1>10, <2>3 DEF RunInline, Begin, IInv, TypeOK, Hand
        <3> QED BY <2>1, <3>1, HandOf DEF Service!TakeOther, Service!Grasp, Service!Empty
    <2> QED BY <2>2, <2>3
<1>11. ASSUME NEW c \in Callers,
              WaitReturns(c) \/ WaitTimesOut(c) \/ \E d \in Devices : QueueDeviceScan(c, d)
       PROVE UNCHANGED Service!vars
    <2>1. /\ UNCHANGED <<queue, mode>> /\ \A y \in Executors : Hand(y)' = Hand(y)
          /\ phase'[Worker] = phase[Worker]
        BY <1>11 DEF WaitReturns, WaitTimesOut, StopWaiting, QueueDeviceScan, schedVars, IInv, TypeOK, Hand
    <2> QED BY <2>1, Quiet DEF Alive
<1>12. CASE UNCHANGED vars
    BY <1>12, Quiet DEF vars, schedVars, Hand, Alive
<1> QED
    BY <1>1, <1>2, <1>3, <1>4, <1>5, <1>6, <1>7, <1>8, <1>9, <1>10, <1>11, <1>12
    DEF Next, WorkerStep, CallerStep, ExecuteStep, RunDeviceScan, Call, Service!Next

\* The scheduler implements a job service: what run_now accepts and what falls due
\* reaches one thread at a time, in the right order, whatever the threads do.
THEOREM ImplementsJobService == Spec => IsJobService
BY ServiceInit, Inductive, ServiceStep, PTL DEF Spec, IsJobService, Service!Spec
=============================================================================
