CONSTANTS
    Kinds <- StartKinds
    Vrings = {0}
    RxBufs = {"ok", "small"}
    TxBufs = {"frame"}
    MaxLan = 2
    MaxRx = 2
    MaxTx = 0
    QueueSize = 2
    MaxStarts = 1
    MaxStream = 2
    MaxExtra = 2
    Flags = {1}
    MayClose = FALSE
SPECIFICATION FairSpec
INVARIANT RxInOrder
PROPERTIES PacketsDrain MessagesRead
CHECK_DEADLOCK FALSE
