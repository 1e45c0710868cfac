\* The rows are used up in the end, so the system may stop.
SPECIFICATION Spec
CHECK_DEADLOCK FALSE
CONSTANTS
    r1 = r1
    r2 = r2
    r3 = r3
    w1 = w1
    w2 = w2
    Rows = {r1, r2, r3}
    Writers = {w1, w2}
    Signing = {TRUE, FALSE}
SYMMETRY Symmetry
INVARIANTS
    TypeOK
    ChainIsLinked
PROPERTIES
    ToolsHeal
    PassedMissesOnlyWhatCameMeanwhile
