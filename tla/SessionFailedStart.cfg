\* A session start may fail once it is live: at a URB or at the arm write.
SPECIFICATION Spec
CONSTANTS
    FramesPerUrb = 256
    UrbFramesMin = 32
    NUrbs = 8
    UrbSplit = 0
    Apps = {a}
    NoApp = NoApp
    Rates = {48000}
    Periods = {128}
    Events = {"arm", "urb"}
INVARIANTS
    RunningHasSession
