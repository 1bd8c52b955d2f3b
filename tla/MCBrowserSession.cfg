SPECIFICATION Spec
CONSTANTS
    Tabs = {t1, t2}
    Calls = {c1, c2}
    Sessions = {s1, s2}
    MaxRequests = 3
    NoSession = NoSession
    NoTab = NoTab
SYMMETRY Symmetry
INVARIANT SessionIsKept
 
CHECK_DEADLOCK FALSE
