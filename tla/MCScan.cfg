SPECIFICATION Spec
CONSTANTS
    Last = 5
    Limit = 2
    MaxEdits = 2
    Located <- MCLocated
INVARIANTS
    TypeOK
    CursorRowsOnce
    OffsetDriftBounded
    TableAfterScan
PROPERTIES
    ScanEnds
