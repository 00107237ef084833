\* Every fault and outside event: what no failure of a step may break.
SPECIFICATION Spec
CONSTANTS
    FramesPerUrb = 256
    UrbFramesMin = 32
    NUrbs = 8
    UrbSplit = 0
    Apps = {a, b}
    NoApp = NoApp
    Rates = {48000, 176400}
    Periods = {128}
    Events = {"interface", "trigger", "submit", "arm", "urb", "unplug", "suspend"}
SYMMETRY AppSymmetry
INVARIANTS
    SessionHasUser
    QuietWhenAway
PROPERTIES
    KeepsContract
