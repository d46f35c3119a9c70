SPECIFICATION Spec
CONSTANTS
    Contents = {"a", "b", "c"}
    Texts <- MCTexts
    Times = {0, 5}
    Seqs = {3}
    Receivers <- MCReceivers
    Starts = {0, 65529}
    MaxRequests = 8
    MaxDeliveries = 4
    Pushers = {"push1"}
    MaxFrames = 2
    FlagLen = 4
    MaxMsgs = 3
    MaxStray = 3
    Sides = {"usr", "dev"}
    Ids = {"i1", "i2"}
    MaxBindings = 3
    MaxSends = 1
    Hosts = {"comet", "push"}
    WsComets = {"w1"}
    UdpComets = {"d1"}
    MaxChanges = 4
    MaxFaults = 1
    Senders = {"comet", "push"}
    Sinks = {"c1"}
    Handlers = {h1, h2}
    Attempts = 2
    MaxMoves = 3
    MaxDowns = 2
INVARIANTS
    DeliveryTypeOK
    
    
    
    InOrderAccepted
    AcceptedOnce
    FramesWhole
    ReceivedInOrder
    PongBeforeNextMessage
    
    NothingLost
    BindingsAgree
    BoundIsReached
    TableFollowsZk
    RegisteredAndReporting
    
    
SYMMETRY Symmetry
CHECK_DEADLOCK FALSE
