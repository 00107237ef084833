\* Both directions, and an application that may sleep and never ask for the
\* position.
SPECIFICATION FairSpec
CONSTANTS
    Rings <- MCRings
    Chunks = {1, 4}
    LongMod = 72
INVARIANTS
    CoreKeepsUp
    LateIsCaught
    AvailIsReal
    PointerMovesOn
PROPERTIES
    SleeperWakes
