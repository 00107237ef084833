\* Two applications that negotiate, on a device that stays where it is.
SPECIFICATION Spec
CONSTANTS
    FramesPerUrb = 256
    UrbFramesMin = 32
    NUrbs = 8
    UrbSplit = 0
    Apps = {a, b}
    NoApp = NoApp
    Rates = {48000, 176400}
    Periods = {40, 128}
    Events = {"interface", "trigger", "urb"}
SYMMETRY AppSymmetry
INVARIANTS
    RunningFits
    WholePackets
PROPERTIES
    NoForeignStop
    RateHeld
