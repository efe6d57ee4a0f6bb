\* Two functions of one template write and read the same file.
CONSTANTS
    Functions <- TwoXors
    Asked <- AskedOfXors
    Digits <- Conditions
    Capacity = 2
    CutShort <- None
SPECIFICATION Spec
INVARIANTS
    ResultsAreRight
CHECK_DEADLOCK TRUE
