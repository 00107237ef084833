\* One application with both directions, under the fairness of the kernel,
\* unplugged and suspended at any step.
SPECIFICATION FairSpec
CONSTANTS
    FramesPerUrb = 256
    UrbFramesMin = 32
    NUrbs = 8
    UrbSplit = 0
    Apps = {a}
    NoApp = NoApp
    Rates = {48000}
    Periods = {128}
    Events = {"urb", "unplug", "suspend"}
INVARIANTS
    RunningIsServed
PROPERTIES
    FailureStops
    BlockedWakes
    WaitsEnd
