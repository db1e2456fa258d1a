CONSTANTS
    Kinds <- ChainKinds
    Vrings = {1}
    RxBufs = {"ok"}
    TxBufs = {"frame", "short"}
    MaxLan = 0
    MaxRx = 0
    MaxTx = 3
    QueueSize = 2
    MaxStarts = 2
    MaxStream = 1
    MaxExtra = 2
    Flags = {1}
    MayClose = FALSE
SPECIFICATION FairSpec
INVARIANT ChainsAccounted
PROPERTY ChainsTaken
CHECK_DEADLOCK FALSE
