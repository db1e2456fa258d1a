CONSTANTS
    Clients = {"attach", "runner"}
    Keys <- MCKeys
    Sizes <- MCSizes
    MaxMsgs = 2
    MaxOut = 2
    MaxBack = 1
SPECIFICATION FairSpec
INVARIANTS
    InputIntact
    SizeFollows
PROPERTIES
    InputDrains
    ShellReaped
CHECK_DEADLOCK FALSE
