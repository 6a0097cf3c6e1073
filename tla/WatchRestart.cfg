SPECIFICATION Spec
CONSTANTS
    f1 = f1
    a1 = a1
    a2 = a2
    s1 = s1
    s2 = s2
    None = None
    Files = {f1}
    Runs = {a1,a2}
    Stops = {s1}
    Capacity = 1
    MaxWrites = 1
    MayFail = {f1}
    Hanging = {f1}
    MayVanish = {f1}
    MayCancel = {a1}
    MayRestart = TRUE
CHECK_DEADLOCK FALSE
INVARIANTS PanicOnlyFromRestart
PROPERTIES LeakOnlyFromRace
