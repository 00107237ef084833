\* A buffer that does not divide 2^BITS_PER_LONG.
SPECIFICATION Spec
CONSTANTS
    Rings <- MCOddRing
    Chunks = {4}
    LongMod = 32
INVARIANTS
    PointerMovesOn
