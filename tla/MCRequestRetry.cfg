SPECIFICATION Spec
CONSTANTS
    MaxRetries = 2
    MaxPause = 240
    Statuses <- MCStatuses
    Headers <- MCHeaders
INVARIANTS
    TypeOK
    MutationAtMostOnce
    AttemptsSpent
    PauseLongEnough
