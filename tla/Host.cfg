CONSTANTS
    Cmds = {c1, c2}
    Pids = {1, 2}
    MaxProcs = 2
    MaxStrangers = 1
    MaxCommands = 3
    BridgeNames = {"b"}
    MaxBridges = 1
    ShardNames = {"s"}
    MaxShards = 1
    Cids = {3}
SPECIFICATION FairSpec
INVARIANTS ShardExclusive StopIsTruthful DaemonsListed ServingReachable
PROPERTIES StopReturns TermHonoured
CHECK_DEADLOCK FALSE
