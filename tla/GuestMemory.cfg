CONSTANTS
    Tables <- MCTables
    HostAddrs <- MCHostAddrs
    Rings = {"desc", "avail", "used"}
    MaxTables = 2
SPECIFICATION MemSpec
INVARIANT RingTranslated
INVARIANT RefusedOnlyOutside
CHECK_DEADLOCK FALSE
