\* Two commands, two crashes; files of up to some thirty tokens, blocks of twelve.
SPECIFICATION Spec
CONSTANTS
    Ten = 3
    Words <- MCWords
    Schemas <- MCSchemas
    Rows <- MCRows
    NewValues <- MCNewValues
    Garbage <- MCGarbage
    Shipped <- MCShipped
    Block = 12
    MaxCommands = 2
    MaxCrashes = 2
INVARIANTS
    TypeOK
    
    TypesSurvive
    AppendKeepsRows
    BackupIsPrefix
PROPERTIES
    EventuallyBackedUp
CHECK_DEADLOCK FALSE
