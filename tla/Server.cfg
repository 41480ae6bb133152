SPECIFICATION Spec
CONSTANTS
    c1 = c1
    c2 = c2
    Bad = Bad
    NoConn = NoConn
    Conns = {c1, c2}
    Requests <- SomeRequests
    Probes <- SomeProbes
    MaxPending = 2
    MaxSessions = 1
    MaxMessages = 1
SYMMETRY Symmetry
CHECK_DEADLOCK FALSE
INVARIANT AnswersMatch
INVARIANT ToldInOrder
INVARIANT LastWordKept
