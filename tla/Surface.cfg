SPECIFICATION MCSpec
CONSTANTS
    Outs = {0, 1}
    Mics = {0, 1}
    Pbs = {0}
    Faders <- MCFaders
    Levels <- MCLevels
    Trims <- MCTrims
    Widths <- MCWidths
    Channels = {0, 2}
    Gains <- MCGains
    Pitches <- MCPitches
    Strips = {0, 1}
    Bands = {1, 2}
    BandTypes = {0, 1}
    BandQs = {100}
    BandGains <- MCBandGains
    Cuts = {0, 80}
    EqRates = {44100, 48000}
    Uses <- MCUses
    Events = {"fail", "power", "rate"}
INVARIANTS
    NothingStale
    SharedWords
    EqFollows
PROPERTIES
    FailureKeepsControls
CHECK_DEADLOCK FALSE
