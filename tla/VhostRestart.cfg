CONSTANTS
    Kinds <- ControlKinds
    Vrings = {0, 1}
    RxBufs = {"ok"}
    TxBufs = {"frame", "alien"}
    MaxLan = 0
    MaxRx = 1
    MaxTx = 1
    QueueSize = 1
    MaxStarts = 2
    MaxStream = 1
    MaxExtra = 2
    Flags = {0, 1}
    MayClose = TRUE
SPECIFICATION Spec
CONSTRAINT Alive
INVARIANTS RegisteredIffReady KickReadable
CHECK_DEADLOCK FALSE
