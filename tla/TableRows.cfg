\* Up to five rows of three values: trees of every shape, runs of equal values.
SPECIFICATION Spec
CONSTANTS
    Values = {1, 2, 3}
    MaxRows = 5
    Statements = {"select", "update", "delete"}
INVARIANTS
    TypeOK
    SearchIsExact
    UpdateIsExact
    DeleteKeepsOrder
    DeleteOfTwoIsExact
CHECK_DEADLOCK FALSE
