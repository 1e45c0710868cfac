SPECIFICATION Spec
CONSTANTS
    e1 = e1
    e2 = e2
    q1 = q1
    q2 = q2
    q3 = q3
    a1 = a1
    a2 = a2
    None = None
    Events = {e1, e2}
    Requests = {q1, q2, q3}
    Actors = {a1, a2}
    ActorCap = 2
    EventCap = 1
    MaxEpisodes = 2
SYMMETRY Symmetry
INVARIANTS
    TypeOK
    LimitsHold
    ReplaysArePaidFor
PROPERTIES
    NoStaleReplay
CHECK_DEADLOCK FALSE
