SPECIFICATION FairSpec
CONSTANTS
    w1 = w1
    w2 = w2
    None = None
    NumFiles = 2
    Watches = {w1}
    MayVanish = {2}
    MaxWrites = 1
CHECK_DEADLOCK FALSE
INVARIANTS NoticedIsLoaded ObserverIsCurrent
PROPERTIES OperationsEnd
