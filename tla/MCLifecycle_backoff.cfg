\* One worker, no faults: the delays of successive retries.
CONSTANTS
    c1 = c1
    c2 = c2
    d1 = d1
    d2 = d2
    tries = tries
    deadline = deadline
    broken = broken
    orphan = orphan
    Consumer = {c1}
    Driver = {d1}
    DriverOf <- OneWorker
    Job = {tries}
    MaxSent = 1
    MaxErrors = 2
    MaxTries <- MoreTries
    RetryUntil <- Deadlines
    Backoff <- Backoffs
    Malformed = {}
    Unhandled = {}
    DispatchDelay = {0, 1}
    YieldDelay = {}
    Unset = Unset
    NoBody = NoBody
    RetryAfter = 2
    Blocking = {}
    BatchSize = 2
    MaxNow = 2
    MaxFaults = 0
SPECIFICATION Spec
INVARIANT ProgressiveBackoff
