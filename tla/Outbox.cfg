SPECIFICATION FairSpec
CONSTANTS
    e1 = e1
    e2 = e2
    r1 = r1
    r2 = r2
    Rows = {e1, e2}
    CommandRows = {}
    Relays = {r1, r2}
    RETRY_BACKOFF <- MCBackoff
    TotalWait <- MCTotalWait
    NoRow = NoRow
    AgeCap = 3
    MaxCrashes = 1
    MaxReplays = 1
INVARIANTS
    TypeOK
    DuplicatesAccounted
    NoPrematureDeath
PROPERTY
    ImplementsContract
