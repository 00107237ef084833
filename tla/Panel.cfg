SPECIFICATION Spec
CONSTANTS
    Pairs = {1, 2}
    OutPairs = {1, 2}
    GainMax <- MCGainMax
    MixInf <- MCMixInf
    MixFirst = 0
    MixTop <- MCMixTop
    WheelSize = 4
    Clicks <- MCClicks
    AppFaders <- MCAppFaders
    Uses <- MCUses
    Hasty = {}
VIEW MCView
INVARIANTS
    SelectionAgrees
    PhantomAsMeant
    GainAsMeant
    MixAgrees
PROPERTIES
    MixClickIsOneStep
CHECK_DEADLOCK FALSE
