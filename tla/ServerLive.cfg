\* Clients that send neither UPDATE nor a bare SELECT.
SPECIFICATION FairSpec
CONSTANTS
    c1 = c1  c2 = c2  w1 = w1  w2 = w2
    Clients <- MCClients
    Leavers <- MCClients
    Workers <- MCWorkers
    NoClient = NoClient
    NoWorker = NoWorker
    NULL = NULL
    QueuePlaces = 1
    Commands <- OrderlyCommands
    MaxCommands = 3
    Queries <- MCQueries
    CACHE_CAPACITY = 2
INVARIANT
    OneAtDisplay
PROPERTY
    CommandsComplete
CHECK_DEADLOCK FALSE
