SPECIFICATION ExportSpec
CONSTANTS
    Call = {c1, c2}
    c1 = c1
    c2 = c2
    Waiter = c1
    Size = 2
    MaxCrashes = 1
    NoFile = NoFile
    NoLength = NoLength
    Timeout = 4
    Interval = 2
    MaxRequest = 2
INVARIANTS
    ExportTypeOK
    WholeOrPrevious
    CrashSafe
    NoLeftovers
    OwnFileKept
    OverrunBounded
    OverIsNoticed
    OnlyFinishedDownloaded
PROPERTIES
    KeepsDestination
