------------------------- MODULE ThreadPool_proofs -------------------------
(***************************************************************************)
(* Proofs of the invariants of ThreadPool, for every THREAD_COUNT, every   *)
(* TASK_QUEUE_SIZE and every set of tasks, and of ThreadPool's refinement  *)
(* of TaskQueue: queue <- Contents, job <- task, open <- ~shutdown.        *)
(***************************************************************************)
EXTENDS ThreadPool, FiniteSetTheorems, SequenceTheorems, TLAPS

\* Follow, (x + 1) % TASK_QUEUE_SIZE of addTaskToPool and threadWorker, steps
\* through the slots and comes back to slot 0.
LEMMA FollowWraps ==
    ASSUME NEW s \in Slots
    PROVE  /\ Follow(s) = IF s + 1 = TASK_QUEUE_SIZE THEN 0 ELSE s + 1
           /\ Follow(s) \in Slots
  BY PoolAssumption DEF Follow, Slots

\* createThreadPool starts the threads in order and destroyThreadPool joins them
\* in that order: those counted have been started, or have exited.
JoinInv ==
    /\ phase = "creating" => /\ count < THREAD_COUNT
                             /\ \A w \in Workers : w > count => pc[w] = "none"
    /\ phase \in {"joining", "freed"} => \A w \in Workers : w <= count => pc[w] = "exit"
    /\ phase = "freed" => count = THREAD_COUNT

TypeInv == TypeOK /\ JoinInv

\* Every reachable state is well typed and create and join keep their count.
LEMMA TypeInvariant == Spec => []TypeInv
<1>1. Init => TypeInv
  <2> SUFFICES ASSUME Init PROVE TypeOK /\ JoinInv
    BY DEF TypeInv
  <2> USE PoolAssumption DEF Init
  <2>1. TypeOK
    <3>1. 0 \in Slots /\ 0 \in 0 .. THREAD_COUNT
      BY DEF Slots
    <3>2. task_queue \in [Slots -> Tasks \cup {NoTask}] /\ task \in [Workers -> Tasks \cup {NoTask}]
      OBVIOUS
    <3>3. pc \in [Workers -> Locations] /\ fate \in [Tasks -> Fates] /\ phase \in Phases
      BY DEF Locations, Fates, Phases
    <3>4. shutdown \in BOOLEAN
      OBVIOUS
    <3> QED
      BY <3>1, <3>2, <3>3, <3>4 DEF TypeOK
  <2>2. JoinInv
    BY DEF JoinInv
  <2> QED
    BY <2>1, <2>2
<1>2. TypeInv /\ [Next]_vars => TypeInv'
  <2> SUFFICES ASSUME TypeOK, JoinInv, [Next]_vars
               PROVE  TypeOK' /\ JoinInv'
    BY DEF TypeInv
  <2> USE PoolAssumption DEF TypeOK, JoinInv, Workers, Locations, Phases, Fates
  <2>1. CASE CreateThread
    BY <2>1 DEF CreateThread, ring
  <2>2. CASE CreateFails
    BY <2>2 DEF CreateFails, ring
  <2>3. ASSUME NEW t \in Tasks, AddTask(t)
        PROVE  TypeOK' /\ JoinInv'
    BY <2>3, FollowWraps DEF AddTask, Signal, Waiting, user
  <2>4. ASSUME NEW t \in Tasks, RejectTask(t)
        PROVE  TypeOK' /\ JoinInv'
    BY <2>4 DEF RejectTask, ring, user
  <2>5. ASSUME NEW w \in Workers, WorkerWait(w)
        PROVE  TypeOK' /\ JoinInv'
    BY <2>5 DEF WorkerWait, ring, user
  <2>6. ASSUME NEW w \in Workers, WorkerExit(w)
        PROVE  TypeOK' /\ JoinInv'
    BY <2>6 DEF WorkerExit, ring, user
  <2>7. ASSUME NEW w \in Workers, WorkerTake(w)
        PROVE  TypeOK' /\ JoinInv'
    BY <2>7, FollowWraps DEF WorkerTake, user
  <2>8. ASSUME NEW w \in Workers, SpuriousWakeup(w)
        PROVE  TypeOK' /\ JoinInv'
    BY <2>8 DEF SpuriousWakeup, ring, user
  <2>9. ASSUME NEW w \in Workers, TaskReturns(w)
        PROVE  TypeOK' /\ JoinInv'
    BY <2>9 DEF TaskReturns, ring, user
  <2>10. CASE SetShutdown
    BY <2>10 DEF SetShutdown, Broadcast, ring
  <2>11. CASE JoinThread
    BY <2>11 DEF JoinThread, ring
  <2>12. CASE FreePool
    BY <2>12 DEF FreePool, ring
  <2>13. CASE UNCHANGED vars
    BY <2>13 DEF vars
  <2> QED
    BY <2>1, <2>2, <2>3, <2>4, <2>5, <2>6, <2>7, <2>8, <2>9, <2>10, <2>11, <2>12, <2>13
    DEF Next, Worker
<1> QED
  BY <1>1, <1>2, PTL DEF Spec

\* The ring indices stay inside the ring, and every variable has its type, for
\* any number of threads, slots and tasks.
THEOREM TypeCorrect == Spec => []TypeOK
  BY TypeInvariant, PTL DEF TypeInv

\* destroyThreadPool frees the pool (threadPool.c:131-134) only after every
\* worker has left threadWorker: JoinThread has counted all of them.
THEOREM FreedWhenUnusedHolds == Spec => []FreedWhenUnused
<1>1. TypeInv => FreedWhenUnused
  BY PoolAssumption DEF TypeInv, JoinInv, FreedWhenUnused, Workers
<1> QED
  BY <1>1, TypeInvariant, PTL

\* The broadcast of destroyThreadPool (threadPool.c:121) wakes whoever waits, and
\* the loop condition of line 19 lets nobody wait afterwards.
THEOREM NobodySleepsHolds == Spec => []NobodySleepsThroughShutdown
<1>1. Init => NobodySleepsThroughShutdown
  BY DEF Init, NobodySleepsThroughShutdown
<1>2. TypeOK /\ NobodySleepsThroughShutdown /\ [Next]_vars => NobodySleepsThroughShutdown'
  <2> SUFFICES ASSUME TypeOK, [Next]_vars, shutdown => Waiting = {},
                      shutdown', NEW v \in Workers
               PROVE  pc'[v] # "waiting"
    BY DEF NobodySleepsThroughShutdown, Waiting
  <2> USE DEF Waiting, TypeOK
  <2>1. CASE CreateThread
    BY <2>1 DEF CreateThread
  <2>2. CASE CreateFails
    BY <2>2 DEF CreateFails
  <2>3. ASSUME NEW t \in Tasks, AddTask(t)
        PROVE  pc'[v] # "waiting"
    BY <2>3 DEF AddTask, Signal
  <2>4. ASSUME NEW t \in Tasks, RejectTask(t)
        PROVE  pc'[v] # "waiting"
    BY <2>4 DEF RejectTask
  <2>5. ASSUME NEW w \in Workers, WorkerWait(w)
        PROVE  pc'[v] # "waiting"
    BY <2>5 DEF WorkerWait, MustWait
  <2>6. ASSUME NEW w \in Workers, WorkerExit(w)
        PROVE  pc'[v] # "waiting"
    BY <2>6 DEF WorkerExit
  <2>7. ASSUME NEW w \in Workers, WorkerTake(w)
        PROVE  pc'[v] # "waiting"
    BY <2>7 DEF WorkerTake
  <2>8. ASSUME NEW w \in Workers, SpuriousWakeup(w)
        PROVE  pc'[v] # "waiting"
    BY <2>8 DEF SpuriousWakeup
  <2>9. ASSUME NEW w \in Workers, TaskReturns(w)
        PROVE  pc'[v] # "waiting"
    BY <2>9 DEF TaskReturns
  <2>10. CASE SetShutdown
    BY <2>10 DEF SetShutdown, Broadcast
  <2>11. CASE JoinThread
    BY <2>11 DEF JoinThread
  <2>12. CASE FreePool
    BY <2>12 DEF FreePool
  <2>13. CASE UNCHANGED vars
    BY <2>13 DEF vars
  <2> QED
    BY <2>1, <2>2, <2>3, <2>4, <2>5, <2>6, <2>7, <2>8, <2>9, <2>10, <2>11, <2>12, <2>13
    DEF Next, Worker
<1> QED
  BY <1>1, <1>2, TypeCorrect, PTL DEF Spec

\* There are finitely many workers, so they can be counted.
LEMMA WorkersFinite ==
    ASSUME NEW S \in SUBSET Workers
    PROVE  IsFiniteSet(S) /\ Cardinality(S) \in Nat
<1>1. IsFiniteSet(Workers)
  BY PoolAssumption, FS_Interval DEF Workers
<1> QED
  BY <1>1, FS_Subset, FS_CardinalityType

\* Moving queue_rear of a ring that is not full adds one waiting task.
LEMMA AddedTask ==
    ASSUME TypeOK, ~QueueFull, queue_front' = queue_front, queue_rear' = Follow(queue_rear)
    PROVE  TasksInQueue' = TasksInQueue + 1
<1>1. queue_front \in Slots /\ queue_rear \in Slots
  BY DEF TypeOK
<1>2. queue_rear' = IF queue_rear + 1 = TASK_QUEUE_SIZE THEN 0 ELSE queue_rear + 1
  BY <1>1, FollowWraps
<1>3. queue_rear' # queue_front
  BY DEF QueueFull
<1> QED
  BY <1>1, <1>2, <1>3, PoolAssumption DEF TasksInQueue, Slots

\* Moving queue_front of a ring that is not empty takes one waiting task.
LEMMA TakenTask ==
    ASSUME TypeOK, ~QueueEmpty, queue_rear' = queue_rear, queue_front' = Follow(queue_front)
    PROVE  TasksInQueue' = TasksInQueue - 1
<1>1. queue_front \in Slots /\ queue_rear \in Slots
  BY DEF TypeOK
<1>2. queue_front' = IF queue_front + 1 = TASK_QUEUE_SIZE THEN 0 ELSE queue_front + 1
  BY <1>1, FollowWraps
<1> QED
  BY <1>1, <1>2, PoolAssumption DEF QueueEmpty, TasksInQueue, Slots

\* The count of addTaskToPool is that of a ring with one slot left free.
LEMMA TasksCounted ==
    TypeOK => TasksInQueue \in 0 .. TASK_QUEUE_SIZE - 1 /\ (QueueEmpty <=> TasksInQueue = 0)
  BY PoolAssumption DEF TypeOK, TasksInQueue, QueueEmpty, Slots

\* One pthread_cond_signal per task (threadPool.c:108) is enough: while a worker
\* sleeps there are at least as many awake workers on their way to the ring as
\* there are tasks in it.  The property is inductive with TypeOK: a task is added
\* with a signal or with nobody asleep, and who takes one leaves with it.
THEOREM NoLostWakeupHolds == Spec => []NoLostWakeup
<1>1. Init => NoLostWakeup
  BY DEF Init, NoLostWakeup, Waiting
<1>2. TypeOK /\ TypeOK' /\ NoLostWakeup /\ [Next]_vars => NoLostWakeup'
  <2> SUFFICES ASSUME TypeOK, TypeOK', [Next]_vars, Waiting' # {}, ~shutdown',
                      Waiting # {} /\ ~shutdown => Cardinality(Contending) >= TasksInQueue
               PROVE  Cardinality(Contending') >= TasksInQueue'
    BY DEF NoLostWakeup
  <2>1. Contending \in SUBSET Workers /\ Contending' \in SUBSET Workers
    BY DEF Contending
  <2>2. /\ IsFiniteSet(Contending) /\ Cardinality(Contending) \in Nat
        /\ IsFiniteSet(Contending') /\ Cardinality(Contending') \in Nat
    BY <2>1, WorkersFinite
  <2>3. /\ TasksInQueue \in 0 .. TASK_QUEUE_SIZE - 1
        /\ QueueEmpty <=> TasksInQueue = 0
    BY TasksCounted
  \* A step that leaves the ring and shutdown alone and stops no contender.
  <2>4. ASSUME UNCHANGED <<ring, shutdown>>, Waiting' \subseteq Waiting,
               Contending \subseteq Contending'
        PROVE  Cardinality(Contending') >= TasksInQueue'
    <3>1. TasksInQueue' = TasksInQueue
      BY <2>4 DEF ring, TasksInQueue
    <3>2. Cardinality(Contending) <= Cardinality(Contending')
      BY <2>2, <2>4, FS_Subset
    <3> QED
      BY <2>2, <2>3, <2>4, <3>1, <3>2, PoolAssumption
  <2>5. CASE CreateThread
    BY <2>4, <2>5 DEF CreateThread, TypeOK, Waiting, Contending
  <2>6. CASE CreateFails \/ JoinThread \/ FreePool \/ UNCHANGED vars
    BY <2>4, <2>6
    DEF CreateFails, JoinThread, FreePool, vars, ring, Waiting, Contending
  <2>7. ASSUME NEW t \in Tasks, AddTask(t)
        PROVE  Cardinality(Contending') >= TasksInQueue'
    <3>1. Waiting # {}
      BY <2>7 DEF AddTask, Signal, Waiting
    <3>2. PICK w \in Waiting : pc' = [pc EXCEPT ![w] = "woken"]
      BY <2>7, <3>1 DEF AddTask, Signal
    <3>3. Contending' = Contending \cup {w} /\ w \notin Contending
      BY <3>2 DEF Contending, Waiting, TypeOK
    <3>4. Cardinality(Contending') = Cardinality(Contending) + 1
      BY <2>2, <3>3, FS_AddElement
    <3>5. TasksInQueue' = TasksInQueue + 1
      BY <2>7, AddedTask DEF AddTask
    <3> QED
      BY <2>2, <2>3, <2>7, <3>1, <3>4, <3>5, PoolAssumption DEF AddTask
  <2>8. ASSUME NEW t \in Tasks, RejectTask(t)
        PROVE  Cardinality(Contending') >= TasksInQueue'
    BY <2>4, <2>8 DEF RejectTask, Waiting, Contending
  <2>9. ASSUME NEW w \in Workers, WorkerWait(w)
        PROVE  Cardinality(Contending') >= TasksInQueue'
    BY <2>2, <2>3, <2>9 DEF WorkerWait, MustWait, ring, TasksInQueue, QueueEmpty
  <2>10. ASSUME NEW w \in Workers, WorkerExit(w)
        PROVE  Cardinality(Contending') >= TasksInQueue'
    BY <2>10 DEF WorkerExit
  <2>11. ASSUME NEW w \in Workers, WorkerTake(w)
        PROVE  Cardinality(Contending') >= TasksInQueue'
    <3>1. Contending' = Contending \ {w} /\ w \in Contending
      BY <2>11 DEF WorkerTake, Contending, TypeOK
    <3>2. Waiting' = Waiting
      BY <2>11 DEF WorkerTake, Waiting, TypeOK
    <3>3. Cardinality(Contending') = Cardinality(Contending) - 1
      BY <2>2, <3>1, FS_RemoveElement
    <3>4. TasksInQueue' = TasksInQueue - 1
      BY <2>11, TakenTask DEF WorkerTake, MustWait
    <3> QED
      BY <2>2, <2>3, <2>11, <3>2, <3>3, <3>4, PoolAssumption DEF WorkerTake
  <2>12. ASSUME NEW w \in Workers, SpuriousWakeup(w)
        PROVE  Cardinality(Contending') >= TasksInQueue'
    BY <2>4, <2>12 DEF SpuriousWakeup, TypeOK, Waiting, Contending
  <2>13. ASSUME NEW w \in Workers, TaskReturns(w)
        PROVE  Cardinality(Contending') >= TasksInQueue'
    BY <2>4, <2>13 DEF TaskReturns, TypeOK, Waiting, Contending
  <2>14. CASE SetShutdown
    BY <2>14 DEF SetShutdown
  <2> QED
    BY <2>5, <2>6, <2>7, <2>8, <2>9, <2>10, <2>11, <2>12, <2>13, <2>14 DEF Next, Worker
<1> QED
  BY <1>1, <1>2, TypeCorrect, PTL DEF Spec

\* The slots from queue_front on, up to queue_rear, around the end of the array.
InRing(s) ==
    IF queue_front <= queue_rear
    THEN queue_front <= s /\ s < queue_rear
    ELSE queue_front <= s \/ s < queue_rear

\* A slot in the ring holds a task that is marked queued.
RingHoldsQueued ==
    \A s \in Slots : InRing(s) => /\ task_queue[s] \in Tasks
                                  /\ fate[task_queue[s]] = "queued"

\* No task is in two slots of the ring.
RingHoldsOnce ==
    \A r, s \in Slots : InRing(r) /\ InRing(s) /\ task_queue[r] = task_queue[s] => r = s

\* A worker has a task, marked running, exactly while it executes one.
WorkersHold ==
    \A w \in Workers : IF pc[w] = "run"
                       THEN task[w] \in Tasks /\ fate[task[w]] = "running"
                       ELSE task[w] = NoTask

\* No two workers execute the same task.
RunnersDiffer == \A v, w \in InTask : task[v] = task[w] => v = w

\* A task marked running is executed by some worker.
RunningIsHeld == \A t \in Tasks : fate[t] = "running" => \E w \in InTask : task[w] = t

\* The strengthening that makes ExactlyOneRunner inductive.
HandOver ==
    RingHoldsQueued /\ RingHoldsOnce /\ WorkersHold /\ RunnersDiffer /\ RunningIsHeld

\* Taking a task removes the slot at queue_front from the ring, and no other.
LEMMA SlotLeavesRing ==
    ASSUME TypeOK, ~QueueEmpty, queue_rear' = queue_rear, queue_front' = Follow(queue_front)
    PROVE  /\ InRing(queue_front)
           /\ \A s \in Slots : InRing(s)' <=> InRing(s) /\ s # queue_front
<1>1. queue_front \in Slots /\ queue_rear \in Slots
  BY DEF TypeOK
<1>2. queue_front' = IF queue_front + 1 = TASK_QUEUE_SIZE THEN 0 ELSE queue_front + 1
  BY <1>1, FollowWraps
<1> QED
  BY <1>1, <1>2, PoolAssumption DEF InRing, QueueEmpty, Slots

\* Adding a task brings the slot at queue_rear into the ring, where it was not
\* before: a waiting task is never overwritten.
LEMMA SlotEntersRing ==
    ASSUME TypeOK, ~QueueFull, queue_front' = queue_front, queue_rear' = Follow(queue_rear)
    PROVE  /\ ~InRing(queue_rear)
           /\ \A s \in Slots : InRing(s)' <=> InRing(s) \/ s = queue_rear
<1>1. queue_front \in Slots /\ queue_rear \in Slots
  BY DEF TypeOK
<1>2. queue_rear' = IF queue_rear + 1 = TASK_QUEUE_SIZE THEN 0 ELSE queue_rear + 1
  BY <1>1, FollowWraps
<1>3. queue_rear' # queue_front
  BY DEF QueueFull
<1> QED
  BY <1>1, <1>2, <1>3, PoolAssumption DEF InRing, Slots

\* HandOver holds in every reachable state.
LEMMA HandOverInvariant == Spec => []HandOver
<1>1. Init => HandOver
  BY PoolAssumption
  DEF Init, HandOver, RingHoldsQueued, RingHoldsOnce, WorkersHold, RunnersDiffer,
      RunningIsHeld, InRing, InTask, Slots, Workers
<1>2. TypeInv /\ HandOver /\ [Next]_vars => HandOver'
  <2> SUFFICES ASSUME TypeOK, TypeInv, HandOver, [Next]_vars
               PROVE  HandOver'
    BY DEF TypeInv
  \* A step that touches neither the ring, nor the tasks, nor who is in one.
  <2>1. ASSUME UNCHANGED <<ring, task, fate>>, InTask' = InTask,
               \A w \in Workers : pc'[w] = "run" <=> pc[w] = "run"
        PROVE  HandOver'
    <3>1. RingHoldsQueued' /\ RingHoldsOnce'
      BY <2>1 DEF HandOver, RingHoldsQueued, RingHoldsOnce, InRing, ring
    <3>2. WorkersHold' /\ RunnersDiffer' /\ RunningIsHeld'
      BY <2>1 DEF HandOver, WorkersHold, RunnersDiffer, RunningIsHeld
    <3> QED
      BY <3>1, <3>2 DEF HandOver
  <2>2. CASE CreateThread
    <3>1. pc[count + 1] = "none"
      BY <2>2, PoolAssumption DEF CreateThread, TypeInv, JoinInv, TypeOK, Workers
    <3> QED
      BY <2>1, <2>2, <3>1 DEF CreateThread, TypeOK, InTask
  <2>3. CASE CreateFails \/ JoinThread \/ FreePool \/ UNCHANGED vars
    BY <2>1, <2>3 DEF CreateFails, JoinThread, FreePool, vars, ring, InTask
  <2>4. ASSUME NEW t \in Tasks, AddTask(t)
        PROVE  HandOver'
    <3>1. /\ ~InRing(queue_rear)
          /\ \A s \in Slots : InRing(s)' <=> InRing(s) \/ s = queue_rear
      BY <2>4, SlotEntersRing DEF AddTask
    <3>2. fate' = [fate EXCEPT ![t] = "queued"] /\ fate[t] = "new" /\ fate \in [Tasks -> Fates]
      BY <2>4 DEF AddTask, TypeOK
    <3>3. /\ task_queue' = [task_queue EXCEPT ![queue_rear] = t]
          /\ task_queue \in [Slots -> Tasks \cup {NoTask}] /\ queue_rear \in Slots
      BY <2>4 DEF AddTask, TypeOK
    <3>4. \A w \in Workers : pc'[w] = "run" <=> pc[w] = "run"
      BY <2>4 DEF AddTask, Signal, Waiting, TypeOK
    <3>5. task' = task /\ InTask' = InTask
      BY <2>4, <3>4 DEF AddTask, InTask
    <3>6. RingHoldsQueued'
      BY <3>1, <3>2, <3>3 DEF HandOver, RingHoldsQueued
    <3>7. RingHoldsOnce'
      BY <3>1, <3>2, <3>3 DEF HandOver, RingHoldsQueued, RingHoldsOnce
    <3>8. WorkersHold'
      BY <3>2, <3>4, <3>5 DEF HandOver, WorkersHold
    <3>9. RunnersDiffer' /\ RunningIsHeld'
      BY <3>2, <3>5 DEF HandOver, RunnersDiffer, RunningIsHeld
    <3> QED
      BY <3>6, <3>7, <3>8, <3>9 DEF HandOver
  <2>5. ASSUME NEW t \in Tasks, RejectTask(t)
        PROVE  HandOver'
    <3>1. fate' = [fate EXCEPT ![t] = "rejected"] /\ fate[t] = "new" /\ fate \in [Tasks -> Fates]
      BY <2>5 DEF RejectTask, TypeOK
    <3>2. UNCHANGED <<ring, pc, task>> /\ InTask' = InTask
      BY <2>5 DEF RejectTask, InTask
    <3>3. RingHoldsQueued' /\ RingHoldsOnce'
      BY <3>1, <3>2 DEF HandOver, RingHoldsQueued, RingHoldsOnce, InRing, ring
    <3>4. WorkersHold' /\ RunnersDiffer' /\ RunningIsHeld'
      BY <3>1, <3>2 DEF HandOver, WorkersHold, RunnersDiffer, RunningIsHeld
    <3> QED
      BY <3>3, <3>4 DEF HandOver
  <2>6. ASSUME NEW w \in Workers, WorkerWait(w) \/ SpuriousWakeup(w) \/ WorkerExit(w)
        PROVE  HandOver'
    BY <2>1, <2>6 DEF WorkerWait, SpuriousWakeup, WorkerExit, TypeOK, InTask
  <2>7. ASSUME NEW w \in Workers, WorkerTake(w)
        PROVE  HandOver'
    <3> DEFINE t == task_queue[queue_front]
    <3>1. /\ InRing(queue_front)
          /\ \A s \in Slots : InRing(s)' <=> InRing(s) /\ s # queue_front
      BY <2>7, SlotLeavesRing DEF WorkerTake, MustWait
    <3>2. queue_front \in Slots /\ t \in Tasks /\ fate[t] = "queued"
      BY <3>1 DEF TypeOK, HandOver, RingHoldsQueued
    <3>3. /\ task' = [task EXCEPT ![w] = t] /\ task \in [Workers -> Tasks \cup {NoTask}]
          /\ pc' = [pc EXCEPT ![w] = "run"] /\ pc \in [Workers -> Locations]
          /\ task_queue' = task_queue /\ pc[w] # "run"
      BY <2>7 DEF WorkerTake, TypeOK
    <3>4. fate' = [u \in Tasks |-> IF u = t THEN "running" ELSE fate[u]]
      BY <2>7 DEF WorkerTake
    <3>5. InTask' = InTask \cup {w} /\ w \notin InTask
      BY <3>3 DEF InTask
    <3>6. \A v \in InTask : task[v] \in Tasks /\ fate[task[v]] = "running"
      BY DEF HandOver, WorkersHold, InTask
    <3> HIDE DEF t
    <3>7. RingHoldsQueued'
      BY <3>1, <3>2, <3>3, <3>4 DEF HandOver, RingHoldsQueued, RingHoldsOnce, t
    <3>8. RingHoldsOnce'
      BY <3>1, <3>3 DEF HandOver, RingHoldsOnce
    <3>9. WorkersHold'
      BY <3>2, <3>3, <3>4 DEF HandOver, WorkersHold
    <3>10. RunnersDiffer'
      BY <3>2, <3>3, <3>5, <3>6 DEF HandOver, RunnersDiffer, InTask
    <3>11. RunningIsHeld'
      BY <3>2, <3>3, <3>4, <3>5 DEF HandOver, RunningIsHeld, InTask
    <3> QED
      BY <3>7, <3>8, <3>9, <3>10, <3>11 DEF HandOver
  <2>8. ASSUME NEW w \in Workers, TaskReturns(w)
        PROVE  HandOver'
    <3> DEFINE t == task[w]
    <3>1. /\ pc[w] = "run" /\ UNCHANGED ring
          /\ pc' = [pc EXCEPT ![w] = "lock"] /\ pc \in [Workers -> Locations]
          /\ task' = [task EXCEPT ![w] = NoTask] /\ task \in [Workers -> Tasks \cup {NoTask}]
          /\ fate' = [fate EXCEPT ![t] = "done"] /\ fate \in [Tasks -> Fates]
      BY <2>8 DEF TaskReturns, TypeOK
    <3>2. t \in Tasks /\ fate[t] = "running"
      BY <3>1 DEF HandOver, WorkersHold
    <3>3. InTask' = InTask \ {w} /\ w \in InTask
      BY <3>1 DEF InTask
    <3>4. \A v \in InTask : v # w => task[v] # t
      BY <3>3 DEF HandOver, RunnersDiffer
    <3>5. RingHoldsQueued'
      BY <3>1, <3>2 DEF HandOver, RingHoldsQueued, InRing, ring
    <3>6. RingHoldsOnce'
      BY <3>1 DEF HandOver, RingHoldsOnce, InRing, ring
    <3> HIDE DEF t
    <3>7. WorkersHold'
      BY <3>1, <3>2, <3>4 DEF HandOver, WorkersHold, InTask
    <3>8. RunnersDiffer'
      BY <3>1, <3>3 DEF HandOver, RunnersDiffer, InTask
    <3>9. RunningIsHeld'
      <4> SUFFICES ASSUME NEW u \in Tasks, fate'[u] = "running"
                   PROVE  \E v \in InTask' : task'[v] = u
        BY DEF RunningIsHeld
      <4>1. u # t /\ fate[u] = "running"
        BY <3>1, <3>2
      <4>2. PICK v \in InTask : task[v] = u
        BY <4>1 DEF HandOver, RunningIsHeld
      <4> QED
        BY <3>1, <3>3, <4>1, <4>2 DEF t, InTask
    <3> QED
      BY <3>5, <3>6, <3>7, <3>8, <3>9 DEF HandOver
  <2>9. CASE SetShutdown
    BY <2>1, <2>9 DEF SetShutdown, Broadcast, Waiting, TypeOK, InTask
  <2> QED
    BY <2>2, <2>3, <2>4, <2>5, <2>6, <2>7, <2>8, <2>9 DEF Next, Worker
<1> QED
  BY <1>1, <1>2, TypeInvariant, PTL DEF Spec

\* Whatever the interleaving of the workers, each task taken out of the ring
\* (threadPool.c:31-41) is executed by exactly one of them.
THEOREM ExactlyOneRunnerHolds == Spec => []ExactlyOneRunner
<1>1. HandOver => ExactlyOneRunner
  BY DEF HandOver, WorkersHold, RunnersDiffer, RunningIsHeld, InTask, ExactlyOneRunner
<1> QED
  BY <1>1, HandOverInvariant, PTL
-----------------------------------------------------------------------------
(* The refinement                                                          *)

\* The slot of the k-th oldest waiting task.
Place(k) == (queue_front + k - 1) % TASK_QUEUE_SIZE

\* The slot k - 1 places after s, as TLA+ computes it and case by case.
LEMMA SlotWraps ==
    ASSUME NEW s \in Slots, NEW k \in 1 .. TASK_QUEUE_SIZE
    PROVE  (s + k - 1) % TASK_QUEUE_SIZE = IF s + k - 1 < TASK_QUEUE_SIZE
                                           THEN s + k - 1 ELSE s + k - 1 - TASK_QUEUE_SIZE
  BY PoolAssumption DEF Slots

\* SlotWraps for the slots of the waiting tasks.
LEMMA PlaceWraps ==
    ASSUME TypeOK, NEW k \in 1 .. TASK_QUEUE_SIZE
    PROVE  Place(k) = IF queue_front + k - 1 < TASK_QUEUE_SIZE
                      THEN queue_front + k - 1
                      ELSE queue_front + k - 1 - TASK_QUEUE_SIZE
<1>1. queue_front \in Slots
  BY DEF TypeOK
<1> QED
  BY <1>1, SlotWraps DEF Place

\* The waiting tasks are in the ring, and the slot after the last is queue_rear.
LEMMA PlacesAreTheRing ==
    ASSUME TypeOK
    PROVE  /\ \A k \in 1 .. TasksInQueue : Place(k) \in Slots /\ InRing(Place(k))
           /\ Place(TasksInQueue + 1) = queue_rear
<1>1. /\ queue_front \in Slots /\ queue_rear \in Slots
      /\ TasksInQueue \in 0 .. TASK_QUEUE_SIZE - 1
  BY TasksCounted DEF TypeOK
<1>2. \A k \in 1 .. TASK_QUEUE_SIZE :
         Place(k) = IF queue_front + k - 1 < TASK_QUEUE_SIZE
                    THEN queue_front + k - 1
                    ELSE queue_front + k - 1 - TASK_QUEUE_SIZE
  BY PlaceWraps
<1>3. ASSUME NEW k \in 1 .. TasksInQueue
      PROVE  Place(k) \in Slots /\ InRing(Place(k))
  <2>1. k \in 1 .. TASK_QUEUE_SIZE
    BY <1>1, PoolAssumption
  <2> QED
    BY <1>1, <1>2, <2>1, PoolAssumption DEF Slots, InRing, TasksInQueue
<1>4. Place(TasksInQueue + 1) = queue_rear
  <2>1. TasksInQueue + 1 \in 1 .. TASK_QUEUE_SIZE
    BY <1>1, PoolAssumption
  <2> QED
    BY <1>1, <1>2, <2>1, PoolAssumption DEF Slots, TasksInQueue
<1> QED
  BY <1>3, <1>4

\* Contents is a sequence of tasks: the ring, read from queue_front.
ContentsFollowRing ==
    /\ Contents \in Seq(Tasks)
    /\ Len(Contents) = TasksInQueue
    /\ \A k \in 1 .. TasksInQueue : Contents[k] = task_queue[Place(k)]

\* It is, in every well-typed state whose ring holds tasks.
LEMMA ContentsIsSequence == TypeOK /\ RingHoldsQueued => ContentsFollowRing
<1> SUFFICES ASSUME TypeOK, RingHoldsQueued
             PROVE  ContentsFollowRing
  OBVIOUS
<1>1. TasksInQueue \in Nat
  BY TasksCounted, PoolAssumption
<1>2. \A k \in 1 .. TasksInQueue : Contents[k] = task_queue[Place(k)]
  BY DEF Contents, Place
<1>3. \A k \in 1 .. TasksInQueue :
         task_queue[Place(k)] \in Tasks
  BY PlacesAreTheRing DEF RingHoldsQueued
<1>4. Contents \in [1 .. TasksInQueue -> Tasks]
  BY <1>2, <1>3 DEF Contents
<1>5. Contents \in Seq(Tasks)
  BY <1>1, <1>4, SeqDef
<1>6. Len(Contents) = TasksInQueue
  BY <1>1, <1>4, <1>5, LenProperties
<1> QED
  BY <1>2, <1>5, <1>6 DEF ContentsFollowRing

\* addTaskToPool (threadPool.c:98-100) appends to the queue the ring stands for.
LEMMA AddedContents ==
    ASSUME TypeOK, TypeOK', RingHoldsQueued, RingHoldsQueued', NEW t \in Tasks, AddTask(t)
    PROVE  Contents' = Append(Contents, t)
<1>1. /\ Contents \in Seq(Tasks) /\ Len(Contents) = TasksInQueue
      /\ \A k \in 1 .. TasksInQueue : Contents[k] = task_queue[Place(k)]
  BY ContentsIsSequence DEF ContentsFollowRing
<1>2. /\ Contents' \in Seq(Tasks) /\ Len(Contents') = TasksInQueue'
      /\ \A k \in 1 .. TasksInQueue' : Contents'[k] = task_queue'[Place(k)']
  <2>1. (TypeOK /\ RingHoldsQueued => ContentsFollowRing)'
    BY ContentsIsSequence, PTL
  <2> QED
    BY <2>1 DEF ContentsFollowRing
<1>3. TasksInQueue' = TasksInQueue + 1 /\ TasksInQueue \in Nat
  BY AddedTask, TasksCounted, PoolAssumption DEF AddTask
<1>4. \A k : Place(k)' = Place(k)
  BY DEF AddTask, Place
<1>5. /\ task_queue' = [task_queue EXCEPT ![queue_rear] = t]
      /\ task_queue \in [Slots -> Tasks \cup {NoTask}] /\ queue_rear \in Slots
  BY DEF AddTask, TypeOK
<1>6. ~InRing(queue_rear)
  BY SlotEntersRing DEF AddTask
<1>7. /\ \A k \in 1 .. TasksInQueue : Place(k) \in Slots /\ Place(k) # queue_rear
      /\ Place(TasksInQueue + 1) = queue_rear
  BY <1>6, PlacesAreTheRing
<1>8. \A k \in 1 .. TasksInQueue : Contents'[k] = Contents[k]
  BY <1>1, <1>2, <1>3, <1>4, <1>5, <1>7
<1>9. Contents'[TasksInQueue + 1] = t
  BY <1>2, <1>3, <1>4, <1>5, <1>7
<1>10. /\ Append(Contents, t) \in Seq(Tasks) /\ Len(Append(Contents, t)) = TasksInQueue + 1
       /\ \A k \in 1 .. TasksInQueue : Append(Contents, t)[k] = Contents[k]
       /\ Append(Contents, t)[TasksInQueue + 1] = t
  BY <1>1, AppendProperties
<1>11. \A k \in 1 .. Len(Contents') : Contents'[k] = Append(Contents, t)[k]
  BY <1>2, <1>3, <1>8, <1>9, <1>10
<1> QED
  BY <1>2, <1>3, <1>10, <1>11, SeqEqual

\* threadWorker (threadPool.c:31-37) takes the head of that queue.
LEMMA TakenContents ==
    ASSUME TypeOK, TypeOK', RingHoldsQueued, RingHoldsQueued', NEW w \in Workers, WorkerTake(w)
    PROVE  /\ Contents # <<>>
           /\ Head(Contents) = task_queue[queue_front]
           /\ Contents' = Tail(Contents)
<1>1. /\ Contents \in Seq(Tasks) /\ Len(Contents) = TasksInQueue
      /\ \A k \in 1 .. TasksInQueue : Contents[k] = task_queue[Place(k)]
  BY ContentsIsSequence DEF ContentsFollowRing
<1>2. /\ Contents' \in Seq(Tasks) /\ Len(Contents') = TasksInQueue'
      /\ \A k \in 1 .. TasksInQueue' : Contents'[k] = task_queue'[Place(k)']
  <2>1. (TypeOK /\ RingHoldsQueued => ContentsFollowRing)'
    BY ContentsIsSequence, PTL
  <2> QED
    BY <2>1 DEF ContentsFollowRing
<1>3. /\ TasksInQueue' = TasksInQueue - 1
      /\ TasksInQueue \in 1 .. TASK_QUEUE_SIZE - 1
  BY TakenTask, TasksCounted, PoolAssumption DEF WorkerTake, MustWait
<1>4. queue_front \in Slots /\ queue_front' \in Slots /\ task_queue' = task_queue
  BY DEF WorkerTake, TypeOK
<1>5. queue_front' = IF queue_front + 1 = TASK_QUEUE_SIZE THEN 0 ELSE queue_front + 1
  BY <1>4, FollowWraps DEF WorkerTake
<1>6. ASSUME NEW k \in 1 .. TASK_QUEUE_SIZE - 1
      PROVE  Place(k)' = Place(k + 1)
  <2>1. k \in 1 .. TASK_QUEUE_SIZE /\ k + 1 \in 1 .. TASK_QUEUE_SIZE
    BY PoolAssumption
  <2>2. Place(k + 1) = IF queue_front + k < TASK_QUEUE_SIZE
                       THEN queue_front + k ELSE queue_front + k - TASK_QUEUE_SIZE
    BY <2>1, <1>4, PlaceWraps, PoolAssumption DEF Slots
  <2>3. Place(k)' = (queue_front' + k - 1) % TASK_QUEUE_SIZE
    BY DEF Place
  <2>4. Place(k)' = IF queue_front' + k - 1 < TASK_QUEUE_SIZE
                    THEN queue_front' + k - 1 ELSE queue_front' + k - 1 - TASK_QUEUE_SIZE
    BY <2>1, <2>3, <1>4, SlotWraps
  <2> QED
    BY <2>2, <2>4, <1>4, <1>5, PoolAssumption DEF Slots
<1>7. Place(1) = queue_front
  BY <1>4, PoolAssumption DEF Place, Slots
<1>8. Contents # <<>> /\ Head(Contents) = task_queue[queue_front]
  BY <1>1, <1>3, <1>7, EmptySeq
<1>9. /\ Tail(Contents) \in Seq(Tasks) /\ Len(Tail(Contents)) = TasksInQueue - 1
      /\ \A k \in 1 .. TasksInQueue - 1 : Tail(Contents)[k] = Contents[k + 1]
  BY <1>1, <1>8, HeadTailProperties
<1>10. \A k \in 1 .. Len(Contents') : Contents'[k] = Tail(Contents)[k]
  BY <1>1, <1>2, <1>3, <1>4, <1>6, <1>9, PoolAssumption
<1> QED
  BY <1>2, <1>3, <1>8, <1>9, <1>10, SeqEqual

\* What the refinement needs besides.
ShutdownPhase == shutdown <=> phase \in {"joining", "freed"}

\* shutdown is set from destroyThreadPool on, and never before.
LEMMA ShutdownPhaseInvariant == Spec => []ShutdownPhase
<1>1. Init => ShutdownPhase
  BY DEF Init, ShutdownPhase
<1>2. ShutdownPhase /\ [Next]_vars => ShutdownPhase'
  BY DEF ShutdownPhase, Next, vars, CreateThread, CreateFails, AddTask, RejectTask, Worker,
         WorkerWait, WorkerExit, WorkerTake, SpuriousWakeup, TaskReturns, SetShutdown,
         JoinThread, FreePool, user
<1> QED
  BY <1>1, <1>2, PTL DEF Spec

\* Every step of the pool is one of TaskQueue, or changes nothing it shows.
LEMMA StepRefines ==
    ASSUME TypeOK, TypeOK', HandOver, HandOver', ShutdownPhase, [Next]_vars
    PROVE  [Abstract!Next]_(Abstract!vars)
<1> USE DEF Abstract!vars, Abstract!Next
<1>1. /\ Contents \in Seq(Tasks) /\ Len(Contents) = TasksInQueue
      /\ TasksInQueue \in 0 .. TASK_QUEUE_SIZE - 1
  BY ContentsIsSequence, TasksCounted DEF HandOver, ContentsFollowRing
\* A step of the threads alone.
<1>2. ASSUME UNCHANGED <<ring, shutdown, task, fate>>
      PROVE  UNCHANGED Abstract!vars
  BY <1>2 DEF ring, Contents, TasksInQueue
<1>3. CASE CreateThread \/ CreateFails \/ JoinThread \/ FreePool \/ UNCHANGED vars
  BY <1>2, <1>3 DEF CreateThread, CreateFails, JoinThread, FreePool, vars, ring
<1>4. ASSUME NEW t \in Tasks, AddTask(t)
      PROVE  Abstract!Accept(t)
  <2>1. Contents' = Append(Contents, t)
    BY <1>4, AddedContents DEF HandOver
  <2>2. Len(Contents) < TASK_QUEUE_SIZE - 1
    <3>1. TasksInQueue' = TasksInQueue + 1
      BY <1>4, AddedTask DEF AddTask
    <3>2. TasksInQueue' \in 0 .. TASK_QUEUE_SIZE - 1
      <4>1. (TypeOK => TasksInQueue \in 0 .. TASK_QUEUE_SIZE - 1
                       /\ (QueueEmpty <=> TasksInQueue = 0))'
        BY TasksCounted, PTL
      <4> QED
        BY <4>1
    <3> QED
      BY <1>1, <3>1, <3>2, PoolAssumption
  <2> QED
    BY <1>4, <2>1, <2>2 DEF AddTask, Abstract!Accept, ShutdownPhase
<1>5. ASSUME NEW t \in Tasks, RejectTask(t)
      PROVE  Abstract!Reject(t)
  <2>1. Len(Contents) = TASK_QUEUE_SIZE - 1
    <3>1. /\ queue_front \in Slots /\ queue_rear \in Slots
          /\ queue_front = IF queue_rear + 1 = TASK_QUEUE_SIZE THEN 0 ELSE queue_rear + 1
      BY <1>5, FollowWraps DEF TypeOK, RejectTask, QueueFull
    <3> QED
      BY <1>1, <3>1, PoolAssumption DEF TasksInQueue, Slots
  <2>2. Contents' = Contents
    BY <1>5 DEF RejectTask, ring, Contents, TasksInQueue
  <2> QED
    BY <1>5, <2>1, <2>2 DEF RejectTask, Abstract!Reject, ShutdownPhase
<1>6. ASSUME NEW w \in Workers, WorkerWait(w) \/ WorkerExit(w) \/ SpuriousWakeup(w)
      PROVE  UNCHANGED Abstract!vars
  BY <1>2, <1>6 DEF WorkerWait, WorkerExit, SpuriousWakeup
<1>7. ASSUME NEW w \in Workers, WorkerTake(w)
      PROVE  Abstract!Take(w)
  <2>1. /\ Contents # <<>>
        /\ Head(Contents) = task_queue[queue_front]
        /\ Contents' = Tail(Contents)
    BY <1>7, TakenContents DEF HandOver
  <2>2. task[w] = NoTask /\ ~shutdown
    BY <1>7 DEF WorkerTake, HandOver, WorkersHold
  <2>3. fate' = [fate EXCEPT ![task_queue[queue_front]] = "running"]
    BY <1>7 DEF WorkerTake, TypeOK
  <2>4. task' = [task EXCEPT ![w] = task_queue[queue_front]] /\ shutdown' = shutdown
    BY <1>7 DEF WorkerTake
  <2> QED
    BY <2>1, <2>2, <2>3, <2>4 DEF Abstract!Take
<1>8. ASSUME NEW w \in Workers, TaskReturns(w)
      PROVE  Abstract!Finish(w)
  <2>1. task[w] # NoTask
    BY <1>8, PoolAssumption DEF TaskReturns, HandOver, WorkersHold
  <2>2. Contents' = Contents
    BY <1>8 DEF TaskReturns, ring, Contents, TasksInQueue
  <2> QED
    BY <1>8, <2>1, <2>2 DEF TaskReturns, Abstract!Finish
<1>9. CASE SetShutdown
  <2>1. Contents' = Contents
    BY <1>9 DEF SetShutdown, ring, Contents, TasksInQueue
  <2>2. Abstract!Close
    BY <1>9, <2>1 DEF SetShutdown, Abstract!Close, ShutdownPhase
  <2> QED
    BY <2>2
<1> QED
  BY <1>3, <1>4, <1>5, <1>6, <1>7, <1>8, <1>9 DEF Next, Worker

\* The ring, its mutex and its condition variable implement the bounded queue of
\* TASK_QUEUE_SIZE - 1 places: tasks are handed over in the order they came, none
\* lost, none twice, and addTaskToPool refuses one only when all places are taken.
THEOREM PoolRefines == Spec => ImplementsTaskQueue
<1>1. Init => Abstract!Init
  <2> SUFFICES ASSUME Init PROVE Abstract!Init
    OBVIOUS
  <2>1. Contents = <<>>
    BY DEF Init, Contents, TasksInQueue
  <2> QED
    BY <2>1 DEF Init, Abstract!Init
<1>2. /\ TypeOK /\ TypeOK' /\ HandOver /\ HandOver' /\ ShutdownPhase /\ [Next]_vars
      => [Abstract!Next]_(Abstract!vars)
  BY StepRefines
<1> QED
  BY <1>1, <1>2, TypeCorrect, HandOverInvariant, ShutdownPhaseInvariant, PTL
  DEF Spec, ImplementsTaskQueue, Abstract!Spec
=============================================================================
