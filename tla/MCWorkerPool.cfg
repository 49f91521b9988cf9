SPECIFICATION FairSpec
CONSTANTS
    Count = 4
    Workers = 2
    Nobody = Nobody
INVARIANTS TypeOK AtMostWorkers ResultIsComplete AllDone AtMostOneLate
PROPERTY Termination
