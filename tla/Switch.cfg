CONSTANTS
    m1 = m1
    m2 = m2
    Macs = {m1, m2}
    Bcast = Bcast
    Absent = Absent
    Chatty <- MCChatty
    NumPorts = 3
    MaxSent <- MCMaxSent
SPECIFICATION FairSpec
INVARIANTS
    BroadcastComplete
    HeardIsReachable
    FifoPerSender
PROPERTIES
    ProcessReturns
    ConnectReturns
CHECK_DEADLOCK FALSE
