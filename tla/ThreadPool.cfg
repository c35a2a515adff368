\* Two workers, a ring of three slots (two places), five tasks.
SPECIFICATION FairSpec
CONSTANTS
    THREAD_COUNT = 2
    TASK_QUEUE_SIZE = 3
    t1 = t1  t2 = t2  t3 = t3  t4 = t4  t5 = t5
    Tasks <- MCTasks
    NoTask = NoTask
INVARIANTS
    TypeOK
    NoLostWakeup
    ExactlyOneRunner
    FreedWhenUnused
    NobodySleepsThroughShutdown
PROPERTIES
    TasksTakenWhileWorkersFree
    DestroyReturns
    ImplementsTaskQueue
CHECK_DEADLOCK FALSE
