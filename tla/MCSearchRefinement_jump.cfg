\* The search leaps back, a callback refuses, and the program may end.
CONSTANTS
    Bit <- Bits
    Steps <- Trap
    Start <- StartDifferences
    Linked <- Bits
    Phases <- ChoiceThenJump
    TwobitMasks <- SomeOrNoBits
    Frequency <- NoSnapshots
    NDEBUG = FALSE
    Credits = 2
    CriticalLimit = 2
    CompleteLimit = 1
    BackFraction = 3
    MayReject = TRUE
    EndFound = TRUE
    MayStop = TRUE
SPECIFICATION FairSpec
INVARIANTS
    TraceInv
    StateIsRebuilt
    CriticalInRange
PROPERTIES
    ImplementsDecisionStack
    StartsOver
CHECK_DEADLOCK FALSE
