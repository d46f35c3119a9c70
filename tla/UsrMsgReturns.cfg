SPECIFICATION Spec
CONSTANTS
    c1 = c1  c2 = c2  c3 = c3  h1 = h1  h2 = h2  p1 = p1  p2 = p2  m1 = m1  m2 = m2
    NoConn = NoConn  NoHost = NoHost  NoMobile = NoMobile  NoMsg = NoMsg
    Conns = {c1, c2}
    Hosts = {h1}
    Users = {2}
    Mobiles = {p1}
    Msgs = {m1}
    MaxCrash = 0
INVARIANTS OfflineMsgReturns
CHECK_DEADLOCK FALSE
