SPECIFICATION Spec
CONSTANTS
    MaxUrbs = {8, 24, 40, 256}
    MinUrbs = {8, 24, 32}
    Counts = {2, 3, 8}
    MaxPeriod = 300
    IntHalf = 268435456
INVARIANTS
    WholeUrbs
    QueueFitsPeriod
    DelayBounded
    ClickKeepsDirection
    StoreRestores
    OwnRegisters
CHECK_DEADLOCK FALSE
