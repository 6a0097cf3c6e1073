SPECIFICATION FairSpec
CONSTANTS
    f1 = f1
    f2 = f2
    a1 = a1
    a2 = a2
    s1 = s1
    s2 = s2
    None = None
    Files = {f1}
    Runs = {a1}
    Stops = {s1}
    Capacity = 1
    Room = 2
    MaxWrites = 2
    MayVanish = {f1}
    MayCancel = {a1}
CHECK_DEADLOCK FALSE
INVARIANTS PanicOnlyFromRace InOrderOnce
PROPERTIES LeakOnlyFromRace StopReturns
