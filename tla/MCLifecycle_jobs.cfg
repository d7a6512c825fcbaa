\* Two goroutines of one worker process compete for one job, of any of the four kinds.
CONSTANTS
    c1 = c1
    c2 = c2
    d1 = d1
    d2 = d2
    tries = tries
    deadline = deadline
    broken = broken
    orphan = orphan
    Consumer = {c1, c2}
    Driver = {d1}
    DriverOf <- TwoGoroutines
    Job = {tries, deadline, broken, orphan}
    MaxSent = 1
    MaxErrors = 2
    MaxTries <- Limits
    RetryUntil <- Deadlines
    Backoff <- Backoffs
    Malformed = {broken}
    Unhandled = {orphan}
    DispatchDelay = {0, 1}
    YieldDelay = {1}
    Unset = Unset
    NoBody = NoBody
    RetryAfter = 1
    Blocking = {}
    BatchSize = 2
    MaxNow = 2
    MaxFaults = 1
SPECIFICATION Spec
SYMMETRY Goroutines
INVARIANTS
    TypeOK
    NoJobLost
    NoSilentDrop
    ExhaustedBeforeFailed
    AttemptsAreErrors
    FirstSuccessIsFinal
