\* A client that UPDATEs, and another.
SPECIFICATION FairSpec
CONSTANTS
    c1 = c1  c2 = c2  w1 = w1  w2 = w2
    Clients <- MCClients
    Leavers = {}
    Workers <- MCWorkers
    NoClient = NoClient
    NoWorker = NoWorker
    NULL = NULL
    QueuePlaces = 1
    Commands <- UpdateAndInsert
    MaxCommands = 2
    Queries <- MCQueries
    CACHE_CAPACITY = 2
PROPERTY
    EveryCommandCompletes
CHECK_DEADLOCK FALSE
