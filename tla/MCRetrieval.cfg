SPECIFICATION AllSpec
CONSTANTS
    Library <- MCLibrary
    Searches = {s1}
    Queries <- MCQueries
    MaxEditions <- MCEditions
    DepthFloor = 1
    Reader = "u1"
    MaxGroups = 1
    Faults = {"vectors", "database"}
INVARIANTS HitsAreReal AgreementWins FiguresAgree
PROPERTY PresentIsFound
CONSTRAINT ReadsTakeTurns
CHECK_DEADLOCK FALSE
