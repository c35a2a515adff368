\* One SELECT repeated, as script_clienti.py repeats it.
SPECIFICATION FairSpec
CONSTANTS
    c1 = c1  c2 = c2  w1 = w1  w2 = w2
    Clients <- OneClient
    Leavers = {}
    Workers <- OneWorker
    NoClient = NoClient
    NoWorker = NoWorker
    NULL = NULL
    QueuePlaces = 1
    Commands <- ScriptedCommands
    MaxCommands = 3
    Queries <- MCQueries
    CACHE_CAPACITY = 2
PROPERTY
    EveryCommandCompletes
CHECK_DEADLOCK FALSE
