SPECIFICATION RequestsSpec
CONSTANTS
    Documents = {d1, d2, d3}
    Requests = {r1, r2}
    Owners = {o1, o2}
    Hashes = {h1, h2}
    Faults = {"storage", "vectors", "database"}
    Jobs = {}
    Texts = {}
    NoText = NoText
    NoDocument = NoDocument
SYMMETRY Symmetry
INVARIANTS UniqueContent BytesAreReferenced RowsHaveBytes
CHECK_DEADLOCK FALSE
