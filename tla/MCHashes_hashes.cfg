CONSTANTS
    GivenTo <- AllGiven
    StateOf <- AllStates
    DigestOf <- AllSums
    DigestIs <- AllDigests
SPECIFICATION Spec
VIEW WithoutCrypto
INVARIANTS
    TypeOK
    StepsAgree
    DigestsAreRight
    MessageFollows
CHECK_DEADLOCK TRUE
