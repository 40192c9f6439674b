SPECIFICATION Spec
CONSTANTS
    Call = {c1, c2}
    c1 = c1
    c2 = c2
    Size = 2
    MaxCrashes = 0
    NoFile = NoFile
    NoLength = NoLength
INVARIANT
    WholeAnswersPass
