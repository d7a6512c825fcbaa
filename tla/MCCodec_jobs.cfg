\* Dispatched and Laravel-made jobs with arguments of every kind, to depth two.
CONSTANTS
    MaxInt = 3
    MaxExact = 2
    KeyOrder <- Keys
    Mangled <- PhpNames
    GoOrder <- GoOrders
    LaravelOrder <- LaravelOrders
SPECIFICATION Spec
INVARIANTS
    ArgumentsArrive
    AccessorsReadBack
    ChainInOrder
    LaravelJobsArrive
    ModelsReadBack
