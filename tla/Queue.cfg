\* One URB in each direction and every event, under the fairness of the kernel.
SPECIFICATION FairSpec
CONSTANTS
    InUrbs = {i1}
    OutUrbs = {o1}
    UrbErrStop = 2
    Events = {"error", "resubmit", "submit", "close"}
INVARIANTS
    InflightIsExact
    NoUseAfterClose
    NoReplay
PROPERTIES
    RetiresWhenStopped
    KeepsUrbContract
    LostUrbStops
