SPECIFICATION FairPipelineSpec
CONSTANTS
    j1 = j1
    Jobs = {j1}
    MaxRetries = 2
    ReadCount = 2
    Deployments <- AnyDeployment
    MaxMishaps = 2
    MaxReplays = 2
INVARIANTS
    PipelineTypeOK
    OneCopyInFlight
PROPERTIES
    EveryJobEnds
CHECK_DEADLOCK FALSE
