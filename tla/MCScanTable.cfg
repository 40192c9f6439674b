SPECIFICATION Spec
CONSTANTS
    Last = 5
    Limit = 2
    MaxEdits = 2
    Located <- MCLocated
INVARIANT
    TableReplacedWhole
