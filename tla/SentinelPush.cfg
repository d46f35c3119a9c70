SPECIFICATION TableSpec
CONSTANTS
    Hosts = {"push"}
    WsComets = {"w1"}
    UdpComets = {"d1"}
    MaxChanges = 4
    MaxFaults = 0
INVARIANT
    EachPathIsWatched
CHECK_DEADLOCK FALSE
