\* DELETE of any number of rows.
SPECIFICATION Spec
CONSTANTS
    Values = {1, 2}
    MaxRows = 4
    Statements = {"delete"}
INVARIANT
    DeleteIsExact
CHECK_DEADLOCK FALSE
