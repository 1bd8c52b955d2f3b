SPECIFICATION FairSpec
CONSTANTS
    Documents = {d1}
    Jobs = {j1, j2}
    Requests = {r1}
    Owners = {o1}
    Hashes = {h1}
    Texts <- MCTexts
    Faults = {"parse"}
    NoText = NoText
    NoDocument = NoDocument
    NoTarget = NoTarget
    EmptyText = "none"
    ChunkCount <- MCChunkCount
    BatchSize = 2
INVARIANTS VectorsHaveRows OutcomeRecorded
PROPERTY EventuallySettled
CHECK_DEADLOCK FALSE
