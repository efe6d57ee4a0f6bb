CONSTANTS
    Bit <- Four
    StepList <- SumAndCopy
    Steps <- SumAndCopyRelations
    Start <- SumAndCopyStart
    Linked <- NoBits
    Keeping = FALSE
SPECIFICATION Spec
INVARIANTS
    UndoRestores
    MatrixIsReduced
    
    
CHECK_DEADLOCK TRUE
