SPECIFICATION FairSpec
CONSTANTS
    s1 = s1
    s2 = s2
    n1 = n1
    n2 = n2
    c1 = c1
    c2 = c2
    None = None
    Subs = {s1, s2}
    Notifiers = {n1}
    Closers = {c1, c2}
    ParentCtxSubs = {s1}
    Hanging = {s2}
    DeadlineClosers = {c2}
    Reentrant <- C2InS1
    QueueSize = 1
    MaxEvents = 1
CHECK_DEADLOCK FALSE
INVARIANTS LeakOnlyFromRace PanicOnlyFromRace
PROPERTIES CloseEnds
