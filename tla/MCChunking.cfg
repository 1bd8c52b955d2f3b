SPECIFICATION Spec
CONSTANTS
    Uploaded <- MCUploaded
    MaxBlock = 9
    MaxRows = 1
    ChunkSize = 6
    Overlap = 2
    MinChars = 2
    RecursionLimit = 6
INVARIANTS TextSurvives CitationsAreTrue ChunksFitInOrder
CHECK_DEADLOCK FALSE
