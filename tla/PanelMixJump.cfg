\* A fader's sides and the channels of a pair are at different levels.
SPECIFICATION Spec
CONSTANTS
    Pairs = {1, 2}
    OutPairs = {1, 2}
    GainMax <- MCGainMax
    MixInf <- MCMixInf
    MixFirst = 0
    MixTop <- MCMixTop
    WheelSize = 4
    Clicks <- MCClicks
    AppFaders <- MCAppFaders
    Uses <- MCUses
    Hasty = {}
PROPERTIES
    ClickMovesEachSide
CHECK_DEADLOCK FALSE
