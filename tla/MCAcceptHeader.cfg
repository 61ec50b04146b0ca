\* All headers of up to three of nine ranges.
CONSTANTS
    Runes <- AllRunes
    WellFormed <- Closed
    Offers <- UpToThree
    Known <- Meanings
SPECIFICATION Spec
INVARIANTS
    NothingIsLost
    RangesAreRecovered
    FirstKnownWins
CHECK_DEADLOCK FALSE
