\* Two processes that block in BLPop; a lost wake-up token.
CONSTANTS
    c1 = c1
    c2 = c2
    d1 = d1
    d2 = d2
    Consumer = {c1, c2}
    Driver = {d1, d2}
    DriverOf <- OwnDriver
    Body = {b1, b2}
    Delay = {1}
    NoBody = NoBody
    RetryAfter = 1
    Blocking = {d1, d2}
    BatchSize = 1
    MaxNow = 1
    MaxFaults = 1
SPECIFICATION FairSpec
PROPERTY ReadyIsServed
