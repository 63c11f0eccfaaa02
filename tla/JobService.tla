------------------------------ MODULE JobService ------------------------------
(***************************************************************************)
(* What the scheduler is for, without its queue, timetable, flags and      *)
(* locks: jobs are asked for, a thread takes one in hand, and runs it      *)
(* unless another thread is running it already.                            *)
(***************************************************************************)
EXTENDS Naturals

CONSTANTS Jobs, Threads, None

VARIABLES
    open,    \* whether jobs can be asked for
    asked,   \* the jobs that have been, and that nobody has taken yet
    hand     \* per thread: the job it has in hand, and whether it is running it yet

vars == <<open, asked, hand>>

Empty      == [job |-> None, state |-> "none"]
Running(j) == \E t \in Threads : hand[t] = [job |-> j, state |-> "running"]

Init == open = TRUE /\ asked = {} /\ hand = [t \in Threads |-> Empty]

\* A job that is running or has been asked for is not asked for again.
Ask(j) ==
    /\ open /\ j \notin asked /\ ~Running(j)
    /\ asked' = asked \cup {j}
    /\ UNCHANGED <<open, hand>>

Grasp(t, j) == hand[t] = Empty /\ hand' = [hand EXCEPT ![t] = [job |-> j, state |-> "taken"]]

TakeAsked(t, j) == open /\ j \in asked /\ asked' = asked \ {j} /\ Grasp(t, j) /\ UNCHANGED open

\* What nobody asked for comes second.
TakeOther(t, j) == (open => asked = {}) /\ Grasp(t, j) /\ UNCHANGED <<open, asked>>

Run(t) ==
    /\ hand[t].state = "taken" /\ ~Running(hand[t].job)
    /\ hand' = [hand EXCEPT ![t] = [job |-> @.job, state |-> "running"]]
    /\ UNCHANGED <<open, asked>>

\* A job is put down when it has run, or because another thread is running it.
PutDown(t) ==
    /\ hand[t].state = "running" \/ Running(hand[t].job)
    /\ hand' = [hand EXCEPT ![t] = Empty]
    /\ UNCHANGED <<open, asked>>

Close == open /\ open' = FALSE /\ UNCHANGED <<asked, hand>>

Next == \/ \E j \in Jobs : Ask(j)
        \/ \E t \in Threads : \/ \E j \in Jobs : TakeAsked(t, j) \/ TakeOther(t, j)
                              \/ Run(t) \/ PutDown(t)
        \/ Close

Spec == Init /\ [][Next]_vars
===============================================================================
