\* Two connections, a fan-in of two steps into a third, one fault.  The goal may be finished,
\* cancelled or superseded, so the system may stop.
CHECK_DEADLOCK FALSE
SPECIFICATION FairSpec
CONSTANTS
    w1 = w1
    w2 = w2
    Workers = {w1, w2}
    Steps = {1, 2, 3}
    Deps <- FanIn
    MaxFaults = 1
INVARIANTS
    TypeOK
    BlockedMeansWaiting
PROPERTIES
    NewWorkIsAuthorized
    OwedIsSent
