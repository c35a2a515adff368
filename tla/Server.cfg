\* Every command; any four of them, in any order, on two workers.
SPECIFICATION Spec
CONSTANTS
    c1 = c1  c2 = c2  w1 = w1  w2 = w2
    Clients <- MCClients
    Leavers <- MCClients
    Workers <- MCWorkers
    NoClient = NoClient
    NoWorker = NoWorker
    NULL = NULL
    QueuePlaces = 1
    Commands <- AllCommands
    MaxCommands = 4
    Queries <- MCQueries
    CACHE_CAPACITY = 2
SYMMETRY ServerSymmetry
INVARIANTS
    TypeOK
    LockAccounting
    IdleOwnsOnlyAfterUpdate
    SelectShowsCurrentTable
    NoLostUpdate
    WritersParseAlone
    OnlyTheseDeathsTear
    MutexNeverContended
CHECK_DEADLOCK FALSE
