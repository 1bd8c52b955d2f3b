SPECIFICATION FairSpec
CONSTANTS
    a1 = a1
    a2 = a2
    u1 = u1
    u2 = u2
    Asks = {a1, a2}
    Users = {u1, u2}
    Askers <- MCAskers
    Configured = {"gemini", "anthropic"}
    MaxSources = 4
    MaxHistory = 2
    PoolSizes = {2, 3}
    NoConversation = NoConversation
INVARIANTS PlacesAreDistinct HistoryComesFirst CountMatches LastEventIsTrue MessagesBelong AnswersAreGrounded
PROPERTY QuestionsEnd
CHECK_DEADLOCK FALSE
