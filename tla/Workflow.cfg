\* One task, decided at most once, one fault; operators call one at a time.
\* The system may stop only by the bounds; a restart is always possible.
SPECIFICATION FairSpec
CONSTANTS
    MaxDecisions = 1
    MaxFaults = 1
INVARIANTS
    TypeOK
    GateHolds
    SentAgainOnlyIfAsked
PROPERTIES
    ApprovalsAreHonoured
