SPECIFICATION SerialSpec
CONSTANTS
    Documents = {d1, d2}
    Jobs = {j1, j2, j3}
    Requests = {r1, r2}
    Owners = {o1}
    Hashes = {h1, h2}
    Texts <- MCSearchableTexts
    Faults = {"parse"}
    NoText = NoText
    NoDocument = NoDocument
    NoTarget = NoTarget
    EmptyText = "none"
    ChunkCount <- MCChunkCount
    BatchSize = 2
SYMMETRY JobSymmetry
INVARIANTS NoOrphanVectors IndexedIsSearchable MarkedIsLive TextDiesWithDocument ErrorExplainsFailure
PROPERTY ImplementsLifecycle
CHECK_DEADLOCK FALSE
