\* One simulation is killed and its row is repaired; the record had been signed.
SPECIFICATION Spec
CHECK_DEADLOCK FALSE
CONSTANTS
    r1 = r1
    r2 = r2
    r3 = r3
    w1 = w1
    w2 = w2
    Rows = {r1, r2, r3}
    Writers = {w1, w2}
    Signing = {TRUE, FALSE}
PROPERTIES
    RepairedChainVerifies
