\* Three job goroutines, every limit, two calls of Run.
CONSTANTS
    Concurrency = 3
    MaxJobs = 2
    HasMaxTime = TRUE
    StopOnEmpty = FALSE
    Supply = 7
    MaxRuns = 2
SPECIFICATION FairSpec
INVARIANTS
    StopIsSeen
    AtMostOneLateJob
    MaxJobsBound
    Drained
    ClaimsBounded
PROPERTIES
    StopEnds
    CancelEnds
