CONSTANTS
    h1 = h1
    h2 = h2
    r1 = r1
    Hosts = {h1, h2}
    WanIp = WanIp
    Flows <- MCFlows
    Cuts <- MCCuts
    Links = {"wireguard", "tap", "udp"}
    MaxAsk = 2
    MaxSock = 2
    MaxMishaps = 1
SPECIFICATION FairSpec
INVARIANTS
    LeaveInOrder
    ReassembledExactly
PROPERTIES
    AnswersReachAsker
    QuestionsLeave
    SocketDrains
CHECK_DEADLOCK FALSE
