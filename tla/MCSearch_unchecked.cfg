\* The completeness check of a phase that was entered again.
CONSTANTS
    Bit <- Bits
    Steps <- Trap
    Start <- StartDifferences
    Linked <- Bits
    Phases <- DifferencesFirst
    TwobitMasks <- SomeOrNoBits
    Frequency = 2
    NDEBUG = TRUE
    Credits = 3
    CriticalLimit = 2
    CompleteLimit = 1
    BackFraction = 2
    MayReject = FALSE
    EndFound = FALSE
    MayStop = FALSE
SPECIFICATION Spec
INVARIANTS
    EndedPhaseIsComplete
CHECK_DEADLOCK TRUE
