\* A client that asks once and closes the connection, as Client.c does.
SPECIFICATION FairSpec
CONSTANTS
    c1 = c1  c2 = c2  w1 = w1  w2 = w2
    Clients <- OneClient
    Leavers <- OneClient
    Workers <- OneWorker
    NoClient = NoClient
    NoWorker = NoWorker
    NULL = NULL
    QueuePlaces = 1
    Commands <- OrderlyCommands
    MaxCommands = 1
    Queries <- MCQueries
    CACHE_CAPACITY = 2
PROPERTY
    LeaverFreesItsWorker
CHECK_DEADLOCK FALSE
