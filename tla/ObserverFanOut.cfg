SPECIFICATION FairSpec
CONSTANTS
    s1 = s1
    s2 = s2
    n1 = n1
    n2 = n2
    c1 = c1
    c2 = c2
    None = None
    Subs = {s1, s2}
    Notifiers = {n1}
    Closers = {}
    ParentCtxSubs = {}
    Hanging = {s2}
    DeadlineClosers = {}
    Reentrant <- NoPairs
    QueueSize = 1
    MaxEvents = 3
CHECK_DEADLOCK FALSE
INVARIANTS NobodyMissed InOrderOnce
PROPERTIES QueuedIsDelivered
