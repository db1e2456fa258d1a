CONSTANTS
    Cmds = {c1, c2}
    Parts = {"g", "h", "x", "y"}
    Contents <- MCContents
    Names = {"n"}
    MaxInstalls = 2
    MaxOther = 2
SYMMETRY Symmetry
SPECIFICATION Spec
INVARIANTS DefaultIsLastChosen 
CHECK_DEADLOCK FALSE
