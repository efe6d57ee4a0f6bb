\* Results of both kinds of caches over several runs of the program.
CONSTANTS
    Functions <- XorAndAdd
    Asked <- AskedOfBoth
    Digits <- Conditions
    Capacity = 2
    CutShort <- Dynamic
SPECIFICATION Spec
INVARIANTS
    TypeOK
    ResultsAreRight
    OrderKnowsTable
    CacheInv
PROPERTIES
    LastResultStays
CHECK_DEADLOCK TRUE
