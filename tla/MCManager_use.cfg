\* A manager and two workers that are given middleware.
CONSTANTS
    EventType = {processed}
    Goroutine = {}
    MaxOn = 0
    Worker = {w1, w2}
    JobName = {j1}
    MaxUse = 5
    MaxRegister = 0
SPECIFICATION Spec
INVARIANT PipelineIsOwn
