\* A manager, two workers, one of whose goroutines fires events.
CONSTANTS
    EventType = {processed, failed}
    Goroutine = {g1}
    MaxOn = 2
    Worker = {w1, w2}
    JobName = {j1}
    MaxUse = 4
    MaxRegister = 2
SPECIFICATION Spec
SYMMETRY Symmetry
INVARIANTS
    FireCallsSnapshot
    HandlersAreOwn
    ManagerOnly
