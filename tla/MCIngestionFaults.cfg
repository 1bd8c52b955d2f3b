SPECIFICATION Spec
CONSTANTS
    Documents = {d1}
    Jobs = {j1, j2}
    Requests = {r1}
    Owners = {o1}
    Hashes = {h1}
    Texts <- MCTexts
    Faults = {"parse", "chunking", "storage", "vectors", "database", "crash"}
    NoText = NoText
    NoDocument = NoDocument
    NoTarget = NoTarget
    EmptyText = "none"
    ChunkCount <- MCChunkCount
    BatchSize = 2
SYMMETRY JobSymmetry
INVARIANTS TypeOK WriteOrder
CHECK_DEADLOCK FALSE
