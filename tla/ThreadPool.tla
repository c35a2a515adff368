----------------------------- MODULE ThreadPool -----------------------------
(***************************************************************************)
(* threadPool.c: a ring of TASK_QUEUE_SIZE slots guarded by queue_mutex,   *)
(* the condition variable queue_cond, THREAD_COUNT worker threads, and     *)
(* shutdown.                                                               *)
(*                                                                         *)
(* Every access to the ring and to shutdown is made under queue_mutex, so  *)
(* each critical section is one step.  pthread_cond_wait releases the      *)
(* mutex and blocks in one step ("waiting"); a woken worker ("woken")      *)
(* contends for the mutex again and re-evaluates the loop condition.       *)
(* pthread_cond_signal wakes one waiter if there is one and is otherwise   *)
(* without effect; a waiter may also wake without a signal (POSIX).        *)
(*                                                                         *)
(* One thread, the pool's user, creates the pool, adds tasks and destroys  *)
(* it (main of server.c); "phase" is how far it has come.                  *)
(***************************************************************************)
EXTENDS Integers, Sequences, FiniteSets

CONSTANTS
    THREAD_COUNT,       \* threads of the pool (server.c: 4)
    TASK_QUEUE_SIZE,    \* slots of the ring (threadPool.h: 10)
    Tasks,              \* the tasks the user may submit, each once
    NoTask              \* content of a slot never written; job of an idle worker

ASSUME PoolAssumption ==
    /\ THREAD_COUNT \in Nat \ {0}
    /\ TASK_QUEUE_SIZE \in Nat \ {0}
    /\ NoTask \notin Tasks

Workers == 1 .. THREAD_COUNT
Slots   == 0 .. TASK_QUEUE_SIZE - 1

VARIABLES
    task_queue,     \* task_queue[s]: the task in slot s (task_queue and task_args)
    queue_front,    \* slot of the oldest task
    queue_rear,     \* slot the next task goes to
    shutdown,       \* the flag destroyThreadPool sets
    pc,             \* pc[w]: where worker w is in threadWorker
    task,           \* task[w]: the local variables task, task_arg of worker w
    phase,          \* the user: "creating", "ready", "joining", "freed", "failed"
    count,          \* threads created (while creating) or joined (while joining)
    fate            \* history: what became of each task

ring == <<task_queue, queue_front, queue_rear>>
user == <<phase, count>>
vars == <<task_queue, queue_front, queue_rear, shutdown, pc, task, phase, count, fate>>

Locations == {"none", "lock", "waiting", "woken", "run", "exit"}
Phases    == {"creating", "ready", "joining", "freed", "failed"}
Fates     == {"new", "queued", "running", "done", "rejected"}

TypeOK ==
    /\ task_queue \in [Slots -> Tasks \cup {NoTask}]
    /\ queue_front \in Slots
    /\ queue_rear \in Slots
    /\ shutdown \in BOOLEAN
    /\ pc \in [Workers -> Locations]
    /\ task \in [Workers -> Tasks \cup {NoTask}]
    /\ phase \in Phases
    /\ count \in 0 .. THREAD_COUNT
    /\ fate \in [Tasks -> Fates]
-----------------------------------------------------------------------------
NoWrap(s) == s + 1      \* Follow, the ring not closed

Follow(s) == (s + 1) % TASK_QUEUE_SIZE

QueueEmpty == queue_front = queue_rear

FullOneEarly == Follow(Follow(queue_rear)) = queue_front    \* QueueFull, off by one

QueueFull == Follow(queue_rear) = queue_front

\* The number of waiting tasks as addTaskToPool computes it for its message.
TasksInQueue ==
    IF queue_rear >= queue_front
    THEN queue_rear - queue_front
    ELSE TASK_QUEUE_SIZE - queue_front + queue_rear

\* The workers that will lock queue_mutex and look at the ring without
\* anything else having to happen.
Contending == {w \in Workers : pc[w] \in {"lock", "woken"}}

Waiting == {w \in Workers : pc[w] = "waiting"}

InTask == {w \in Workers : pc[w] = "run"}
-----------------------------------------------------------------------------
Init ==
    /\ task_queue  = [s \in Slots |-> NoTask]
    /\ queue_front = 0
    /\ queue_rear  = 0
    /\ shutdown    = FALSE
    /\ pc          = [w \in Workers |-> "none"]
    /\ task        = [w \in Workers |-> NoTask]
    /\ phase       = "creating"
    /\ count       = 0
    /\ fate        = [t \in Tasks |-> "new"]

\* createThreadPool: one turn of its loop starts thread number count + 1.
CreateThread ==
    /\ phase = "creating"
    /\ count' = count + 1
    /\ pc'    = [pc EXCEPT ![count + 1] = "lock"]
    /\ phase' = IF count' = THREAD_COUNT THEN "ready" ELSE "creating"
    /\ UNCHANGED <<ring, shutdown, task, fate>>

\* pthread_create fails: the pool is freed under the threads already running
\* and createThreadPool returns NULL; the process has no way on but to exit.
CreateFails ==
    /\ phase = "creating"
    /\ phase' = "failed"
    /\ UNCHANGED <<ring, shutdown, pc, task, count, fate>>

NoSignal == UNCHANGED pc    \* Signal, the call left out

\* pthread_cond_signal
Signal ==
    IF Waiting = {}
    THEN UNCHANGED pc
    ELSE \E w \in Waiting : pc' = [pc EXCEPT ![w] = "woken"]

AddTask(t) ==
    /\ phase = "ready"
    /\ fate[t] = "new"
    /\ ~QueueFull
    /\ task_queue' = [task_queue EXCEPT ![queue_rear] = t]
    /\ queue_rear' = Follow(queue_rear)
    /\ fate'       = [fate EXCEPT ![t] = "queued"]
    /\ Signal
    /\ UNCHANGED <<queue_front, shutdown, task, user>>

RejectTask(t) ==
    /\ phase = "ready"
    /\ fate[t] = "new"
    /\ QueueFull
    /\ fate' = [fate EXCEPT ![t] = "rejected"]
    /\ UNCHANGED <<ring, shutdown, pc, task, user>>
-----------------------------------------------------------------------------
(* threadWorker.  No step is taken on a pool whose creation failed.        *)

Running == phase # "failed"

\* MustWait, the while of line 19 written as an if
MustWaitOnce(w) == pc[w] = "lock" /\ QueueEmpty /\ ~shutdown

MustWait(w) == QueueEmpty /\ ~shutdown

WorkerWait(w) ==
    /\ Running
    /\ pc[w] \in {"lock", "woken"}
    /\ MustWait(w)
    /\ pc' = [pc EXCEPT ![w] = "waiting"]
    /\ UNCHANGED <<ring, shutdown, task, user, fate>>

SpuriousWakeup(w) ==
    /\ Running
    /\ pc[w] = "waiting"
    /\ pc' = [pc EXCEPT ![w] = "woken"]
    /\ UNCHANGED <<ring, shutdown, task, user, fate>>

WorkerExit(w) ==
    /\ Running
    /\ pc[w] \in {"lock", "woken"}
    /\ shutdown
    /\ pc' = [pc EXCEPT ![w] = "exit"]
    /\ UNCHANGED <<ring, shutdown, task, user, fate>>

WorkerTake(w) ==
    /\ Running
    /\ pc[w] \in {"lock", "woken"}
    /\ ~MustWait(w)
    /\ ~shutdown
    /\ task'        = [task EXCEPT ![w] = task_queue[queue_front]]
    /\ queue_front' = Follow(queue_front)
    /\ fate'        = [t \in Tasks |-> IF t = task_queue[queue_front]
                                       THEN "running" ELSE fate[t]]
    /\ pc'          = [pc EXCEPT ![w] = "run"]
    /\ UNCHANGED <<task_queue, queue_rear, shutdown, user>>

\* task(task_arg) returns.
TaskReturns(w) ==
    /\ Running
    /\ pc[w] = "run"
    /\ pc'   = [pc EXCEPT ![w] = "lock"]
    /\ fate' = [fate EXCEPT ![task[w]] = "done"]
    /\ task' = [task EXCEPT ![w] = NoTask]
    /\ UNCHANGED <<ring, shutdown, user>>
-----------------------------------------------------------------------------
(* destroyThreadPool: set shutdown and broadcast; join the threads in the  *)
(* order of their creation; free the pool.                                 *)

\* Broadcast, pthread_cond_signal in its place
WakeOne(ws) == [w \in Workers |->
                  IF ws # {} /\ w = (CHOOSE v \in ws : TRUE) THEN "woken" ELSE pc[w]]

Broadcast(ws) == [w \in Workers |-> IF w \in ws THEN "woken" ELSE pc[w]]

SetShutdown ==
    /\ phase = "ready"
    /\ shutdown' = TRUE
    /\ pc'       = Broadcast(Waiting)
    /\ phase'    = "joining"
    /\ count'    = 0
    /\ UNCHANGED <<ring, task, fate>>

\* JoinThread, the thread detached instead
JoinNoWait ==
    /\ phase = "joining"
    /\ count < THREAD_COUNT
    /\ count' = count + 1
    /\ UNCHANGED <<ring, shutdown, pc, task, phase, fate>>

JoinThread ==
    /\ phase = "joining"
    /\ count < THREAD_COUNT
    /\ pc[count + 1] = "exit"
    /\ count' = count + 1
    /\ UNCHANGED <<ring, shutdown, pc, task, phase, fate>>

FreePool ==
    /\ phase = "joining"
    /\ count = THREAD_COUNT
    /\ phase' = "freed"
    /\ UNCHANGED <<ring, shutdown, pc, task, count, fate>>

Worker(w) == WorkerWait(w) \/ WorkerExit(w) \/ WorkerTake(w)

Next ==
    \/ CreateThread
    \/ CreateFails
    \/ \E t \in Tasks : AddTask(t) \/ RejectTask(t)
    \/ \E w \in Workers : Worker(w) \/ SpuriousWakeup(w) \/ TaskReturns(w)
    \/ SetShutdown
    \/ JoinThread
    \/ FreePool

Spec == Init /\ [][Next]_vars

(***************************************************************************)
(* The scheduler runs every thread that can run, so a worker in its loop   *)
(* and the user inside destroyThreadPool are weakly fair.  Nothing makes a *)
(* task return, a client connect or anyone shut the pool down.             *)
(***************************************************************************)
Fairness ==
    /\ \A w \in Workers : WF_vars(Worker(w))
    /\ WF_vars(JoinThread)
    /\ WF_vars(FreePool)

FairSpec == Spec /\ Fairness
-----------------------------------------------------------------------------
\* A worker sleeps only if every waiting task has an awake worker of its own
\* on the way to it: one pthread_cond_signal per addTaskToPool is enough,
\* although busy workers may steal the task a sleeper was woken for.
NoLostWakeup ==
    (Waiting # {} /\ ~shutdown) => Cardinality(Contending) >= TasksInQueue

\* A task is handed over exactly once: while it is marked running exactly one
\* worker has it, and no worker executes a slot nobody filled.
ExactlyOneRunner ==
    /\ \A t \in Tasks : fate[t] = "running" <=> \E w \in InTask : task[w] = t
    /\ \A v, w \in InTask : task[v] = task[w] => v = w
    /\ \A w \in InTask : task[w] \in Tasks

\* destroyThreadPool frees the pool when no thread can touch it any more.
FreedWhenUnused ==
    phase = "freed" => \A w \in Workers : pc[w] = "exit"

\* No worker sleeps through shutdown: once it is set nobody waits on
\* queue_cond, where no further signal would come.
NobodySleepsThroughShutdown ==
    shutdown => Waiting = {}

\* Work conservation: a waiting task is not left waiting while a worker is
\* free; either the ring drains, or every worker is inside a task, or the
\* pool shuts down (or was never built).
TasksTakenWhileWorkersFree ==
    (~QueueEmpty) ~> (QueueEmpty \/ InTask = Workers \/ shutdown)

\* destroyThreadPool returns unless some task never does.
DestroyReturns ==
    shutdown ~> (phase = "freed" \/ InTask # {})
-----------------------------------------------------------------------------
(* The refinement: what waits, oldest first, and what each worker runs.    *)

Contents ==
    [k \in 1 .. TasksInQueue |-> task_queue[(queue_front + k - 1) % TASK_QUEUE_SIZE]]

Abstract == INSTANCE TaskQueue
    WITH Capacity <- TASK_QUEUE_SIZE - 1,
         queue <- Contents,
         job   <- task,
         open  <- ~shutdown

\* The ring, its mutex and its condition variable hand tasks over as the
\* bounded queue of TASK_QUEUE_SIZE - 1 places does.
ImplementsTaskQueue == Abstract!Spec
=============================================================================
