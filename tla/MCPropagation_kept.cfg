CONSTANTS
    Bit <- Three
    StepList <- SumAndAnd
    Steps <- SumAndAndRelations
    Start <- SumAndAndStart
    Linked <- NoBits
    Keeping = TRUE
SPECIFICATION FairSpec
INVARIANTS
    TypeOK
    MatricesFaithful
    
    
    
PROPERTIES
    UpdateEnds
CHECK_DEADLOCK TRUE
