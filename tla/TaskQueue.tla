----------------------------- MODULE TaskQueue -----------------------------
(***************************************************************************)
(* What the thread pool promises to its user: a bounded first-in first-out *)
(* hand-off of tasks to workers.  A task that is submitted is either       *)
(* rejected at once or handed to exactly one worker, in submission order.  *)
(* Nothing here knows of ring buffers, mutexes or condition variables:     *)
(* ThreadPool implements this module.                                      *)
(***************************************************************************)
EXTENDS Naturals, Sequences

CONSTANTS
    Workers,    \* the pool's threads
    Tasks,      \* the tasks that may ever be submitted
    NoTask,     \* the job of a worker that has none
    Capacity    \* how many tasks may wait

VARIABLES
    queue,      \* tasks accepted and not yet taken, oldest first
    job,        \* job[w]: the task worker w is executing
    fate,       \* fate[t]: how far task t has come
    open        \* FALSE once the pool has been told to shut down

vars == <<queue, job, fate, open>>

Fates == {"new", "queued", "running", "done", "rejected"}

Init ==
    /\ queue = <<>>
    /\ job   = [w \in Workers |-> NoTask]
    /\ fate  = [t \in Tasks |-> "new"]
    /\ open  = TRUE

Accept(t) ==
    /\ open
    /\ fate[t] = "new"
    /\ Len(queue) < Capacity
    /\ queue' = Append(queue, t)
    /\ fate'  = [fate EXCEPT ![t] = "queued"]
    /\ UNCHANGED <<job, open>>

Reject(t) ==
    /\ open
    /\ fate[t] = "new"
    /\ Len(queue) = Capacity
    /\ fate' = [fate EXCEPT ![t] = "rejected"]
    /\ UNCHANGED <<queue, job, open>>

Take(w) ==
    /\ open
    /\ job[w] = NoTask
    /\ queue # <<>>
    /\ queue' = Tail(queue)
    /\ job'   = [job EXCEPT ![w] = Head(queue)]
    /\ fate'  = [fate EXCEPT ![Head(queue)] = "running"]
    /\ UNCHANGED open

Finish(w) ==
    /\ job[w] # NoTask
    /\ job'  = [job EXCEPT ![w] = NoTask]
    /\ fate' = [fate EXCEPT ![job[w]] = "done"]
    /\ UNCHANGED <<queue, open>>

\* After shutdown nothing is accepted or taken; what waited is dropped.
Close ==
    /\ open
    /\ open' = FALSE
    /\ UNCHANGED <<queue, job, fate>>

Next ==
    \/ \E t \in Tasks : Accept(t) \/ Reject(t)
    \/ \E w \in Workers : Take(w) \/ Finish(w)
    \/ Close

Spec == Init /\ [][Next]_vars
=============================================================================
