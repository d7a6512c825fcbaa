\* Four jobs, standard SQL, one failed statement.
CONSTANTS
    Job = {j1, j2, j3, j4}
    LeftToRight = FALSE
    MaxFaults = 1
SPECIFICATION Spec
INVARIANTS
    TypeOK
    FinishedWhenZero
    FinishIsSeen
    FailuresCounted
    ProgressHonest
