\* One UPDATE or DELETE of a shipped table, one crash.
SPECIFICATION Spec
CONSTANTS
    Ten = 3
    Words <- MCWords
    Schemas = {}
    Rows = {}
    NewValues <- MCNewValues
    Garbage <- MCGarbage
    Shipped <- MCShipped
    Block = 12
    MaxCommands = 1
    MaxCrashes = 1
INVARIANTS
    WholeCopySomewhere
CHECK_DEADLOCK FALSE
