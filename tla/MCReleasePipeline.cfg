SPECIFICATION Spec
CONSTANTS
    Versions = {1, 2}
    Dists <- MCDists
    MaxCommits = 3
    MaxManual = 2
    NotPublished = NotPublished
INVARIANTS
    TypeOK
    PublishedMatchesTag
    GreenMeansTagged
