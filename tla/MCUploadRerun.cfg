SPECIFICATION Spec
CONSTANTS
    Call = {c1, c2}
    c1 = c1
    c2 = c2
    Part = {1, 2}
    Versions = 2
    MaxJobs = 3
    NoVideo = NoVideo
INVARIANTS
    TypeOK
    OneVideoJob
    VideoOfOneCall
    ReturnedIsQueued
