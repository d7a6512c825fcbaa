\* Two jobs on a database that evaluates SET from left to right.
CONSTANTS
    Job = {j1, j2}
    LeftToRight = TRUE
    MaxFaults = 0
SPECIFICATION Spec
INVARIANT FinishedWhenZero
