\* Every choice is remembered and the search goes back choice by choice.
CONSTANTS
    Bit <- Bits
    Steps <- Trap
    Start <- StartDifferences
    Linked <- Bits
    Phases <- DifferencesFirst
    TwobitMasks <- SomeOrNoBits
    Frequency = 2
    NDEBUG = TRUE
    Credits = 5
    CriticalLimit = 1
    CompleteLimit = 1
    BackFraction = 2
    MayReject = FALSE
    EndFound = FALSE
    MayStop = FALSE
SPECIFICATION FairSpec
INVARIANTS
    TypeOK
    NoSolutionLost
    NothingTwice
    StackDoable
    SnapshotsNested
    StackShape
    FoundIsDone
    SearchInv
CHECK_DEADLOCK TRUE
