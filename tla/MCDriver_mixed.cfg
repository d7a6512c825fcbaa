\* Two processes, one that blocks in BLPop and one that polls; one fault.
CONSTANTS
    c1 = c1
    c2 = c2
    d1 = d1
    d2 = d2
    Consumer = {c1, c2}
    Driver = {d1, d2}
    DriverOf <- OwnDriver
    Body = {b1, b2}
    Delay = {1}
    NoBody = NoBody
    RetryAfter = 1
    Blocking = {d1}
    BatchSize = 1
    MaxNow = 2
    MaxFaults = 1
SPECIFICATION Spec
SYMMETRY Bodies
INVARIANTS
    TypeOK
    NoBodyLost
    OneCopy
    Exclusive
    NoLostWakeup
PROPERTIES
    NoEarlyDelivery
    IsLeaseQueue
