SPECIFICATION FairSpec
CONSTANTS
    MinPart = 2
    MaxPart = 6
    MaxBuffered = 3
    BufferMemory = 4
    MaxParts = 4
    MaxObject = 21
    WorkerLimit = 4
    TotalSize = 5
    AskedPart = 2
    AskedWorkers = 3
    Attempts = 2
    MaxEdits = 1
    MaxInterrupts = 1
    None = None
INVARIANTS
    TypeOK
    CompletionFaithful
    DecidedAfterQuiescence
    RunningBuffersFit
    ProgressExact
    FailureAborts
PROPERTIES
    FreshUrlPerPut
    StoredPartsStable
    CallEnds
    KeepsPromise
