SPECIFICATION FairSpec
CONSTANTS
    e1 = e1
    echo = echo
    Events = {e1, echo}
    Echoes = {echo}
    MAX_FAILURES_BEFORE_DEADLETTER = 1
    BatchSize = 2
    MaxCopies = 3
    MaxFaults = 2
INVARIANTS
    TypeOK
    NothingIsAcknowledgedUnstored
PROPERTIES
    ArrivalsArePersisted
CHECK_DEADLOCK FALSE
