\* One correlation id, two callers, three attempts; two calls may pass the cap together,
\* and a body may report more than was reserved for it.
SPECIFICATION FairSpec
CONSTANTS
    c1 = c1
    w1 = w1
    w2 = w2
    Correlations = {c1}
    Workers = {w1, w2}
    MaxAttempts = 3
    Estimate = 2
    Actuals = {0, 1, 3}
    Dearest = 3
    Cap = 3
    MaxCrashes = 1
INVARIANTS
    TypeOK
    OneArtifactEver
    CallsAreCharged
    OvershootIsBounded
PROPERTIES
    ImplementsCanonicalResult
    EveryInvocationEnds
