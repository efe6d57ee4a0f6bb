\* Levels 1 and 3 of the check, on adders, rotations and horizontal words.
CONSTANTS
    CryptoOf <- Some
    GivenTo <- SomeGiven
    Messages <- SomeMessages
    LayoutOf <- SomeRows
    OnlyMain = {"horizontal"}
    Level = {1, 3}
SPECIFICATION Spec
INVARIANTS
    TypeOK
    NoMessageLost
    NothingMoreToUpdate
    RelationsHold
    RelatedBitsHaveChoice
    GivenHolds
    CompleteEnds
    WrittenIsRead
CHECK_DEADLOCK TRUE
