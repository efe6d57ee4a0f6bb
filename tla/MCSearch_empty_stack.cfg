\* The assertion of BackTrack, on a start without solutions.
CONSTANTS
    Bit <- Bits
    Steps <- DeadEnd
    Start <- StartDifferences
    Linked <- NoBits
    Phases <- AllAtOnce
    TwobitMasks <- SomeOrNoBits
    Frequency = 2
    NDEBUG = FALSE
    Credits = 6
    CriticalLimit = 2
    CompleteLimit = 1
    BackFraction = 2
    MayReject = FALSE
    EndFound = FALSE
    MayStop = FALSE
SPECIFICATION Spec
INVARIANTS
    BackTrackHasGuess
CHECK_DEADLOCK FALSE
