SPECIFICATION Spec
CONSTANTS
    MinPart = 2
    MaxPart = 6
    MaxBuffered = 4
    BufferMemory = 9
    MaxParts = 5
    MaxObject = 21
    WorkerLimit = 4
    Totals <- MCTotals
    PartSizes <- MCPartSizes
    WorkerCounts <- MCWorkerCounts
    RetryCounts <- MCRetryCounts
INVARIANTS
    TypeOK
    PartsTileTheFile
    WithinStorageLimits
    WorkersFitMemory
    RefusedOnlyWhenTooLarge
\* the call returns or goes on to the transfer: the machine stops
CHECK_DEADLOCK FALSE
