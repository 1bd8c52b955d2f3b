SPECIFICATION OrderlySpec
CONSTANTS
    Requests = {q1, q2, q3, q4, q5}
    NoToken = NoToken
    DatabaseMayFail = TRUE
SYMMETRY Symmetry
INVARIANTS OneActivePerFamily ReplayEndsFamily ChainIsKept
PROPERTY EndedFamilyStaysEnded
CHECK_DEADLOCK FALSE
