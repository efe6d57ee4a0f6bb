\* What level 3 says of bits without a relation.
CONSTANTS
    CryptoOf <- OnlySelections
    GivenTo <- GivenToSelections
    Messages <- MessagesOfSelections
    LayoutOf <- LayoutOfSelections
    OnlyMain = {}
    Level = {3}
SPECIFICATION Spec
INVARIANTS
    AllBitsHaveChoice
CHECK_DEADLOCK TRUE
