SPECIFICATION Spec
CONSTANTS
    s1 = s1
    Ids = {s1, s2}
    Conns = {w1}
    NoConn = NoConn
    NoId = NoId
    NoPort = NoPort
    PortStart = 1
    PortEnd = 2
CHECK_DEADLOCK FALSE
INVARIANT AvailablePortsAreFree
