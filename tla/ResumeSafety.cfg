SPECIFICATION Spec
CONSTANTS
    c1 = c1
    c2 = c2
    q1 = q1
    q2 = q2
    q3 = q3
    a1 = a1
    a2 = a2
    None = None
    Resources = {c1, c2}
    ProductionStates <- Reclassified
    Requests = {q1, q2}
    Approvals = {a1}
    Lifetime = 1
    MaxVersion = 1
SYMMETRY Symmetry
INVARIANTS
    TypeOK
    SlotsAgree
    CommandsArePaidFor
    AtMostOneResume
PROPERTIES
    NoStaleDispatch
