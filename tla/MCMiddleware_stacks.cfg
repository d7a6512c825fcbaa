\* Two workers, five stacks; the limit of a job is shorter than the TTL.
CONSTANTS
    Runner = {r1, r2}
    Stacks <- StacksUsed
    Limit = 1
    Ttl = 2
    Decay = 2
    MaxAttempts = 1
    MaxExceptions = 2
    MaxNow = 3
    MaxFaults = 1
SPECIFICATION Spec
SYMMETRY Workers
INVARIANTS
    TypeOK
    KeyIsHeld
    ExclusiveUnlessDisowned
    NeverStuck
    WindowBound
PROPERTY BacksOffOnRecentFailures
