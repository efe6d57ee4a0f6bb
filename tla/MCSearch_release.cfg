\* Leaps in a build without assertions.
CONSTANTS
    Bit <- Bits
    Steps <- Trap
    Start <- StartDifferences
    Linked <- Bits
    Phases <- Jumping
    TwobitMasks <- SomeOrNoBits
    Frequency <- NoSnapshots
    NDEBUG = TRUE
    Credits = 3
    CriticalLimit = 2
    CompleteLimit = 1
    BackFraction = 3
    MayReject = TRUE
    EndFound = FALSE
    MayStop = FALSE
SPECIFICATION Spec
INVARIANTS
    StateIsRebuilt
CHECK_DEADLOCK TRUE
