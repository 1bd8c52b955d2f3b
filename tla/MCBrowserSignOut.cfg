SPECIFICATION Spec
CONSTANTS
    Tabs = {t1}
    Calls = {c1}
    Sessions = {s1}
    MaxRequests = 2
    NoSession = NoSession
    NoTab = NoTab
INVARIANT SignedOutOfTab
CHECK_DEADLOCK FALSE
