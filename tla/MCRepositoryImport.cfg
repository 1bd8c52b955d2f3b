SPECIFICATION FairSpec
CONSTANTS
    c1 = c1
    c2 = c2
    Contents = {c1, c2}
    MaxFiles = 2
    Repos = {r1}
    Urls = {x}
    Imports = {i1, i2}
    Checkouts <- MCCheckouts
    NoRepo = NoRepo
    NoCollection = NoCollection
    Faults = {"clone", "storage", "database", "crash"}
INVARIANTS ContentIsUnique FilesHaveDocuments UnsettledHasReason OneCollection
PROPERTIES ReadyIsComplete ImportEnds
CHECK_DEADLOCK FALSE
