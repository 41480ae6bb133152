SPECIFICATION Spec
CONSTANTS
    s1 = s1
    Ids = {s1, s2, s3}
    Conns = {w1, w2}
    NoConn = NoConn
    NoId = NoId
    NoPort = NoPort
    PortStart = 1
    PortEnd = 2
CHECK_DEADLOCK FALSE
INVARIANT TypeOK
INVARIANT NoPortLeak
INVARIANT SocketTracked
PROPERTY KeepsLifecycle
