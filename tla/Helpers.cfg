SPECIFICATION FairSpec
CONSTANTS
    c1 = c1
    c2 = c2
    c3 = c3
    p1 = p1
    p2 = p2
    p3 = p3
    r1 = r1
    r2 = r2
    Room = 2
    OutRoom = 1
    Calls = {c1, c2, c3}
    Free = Free
    Parties = {p1, p2, p3}
    MaxRounds = 2
    Dos = {c1, c2, c3}
    MaxResets = 1
    Loads = {c1, c2, c3}
    MaxVersion = 3
    Empty <- NoDataIn2
    LazyLoads = {c1, c2}
    Reloads = {r1, r2}
    MaxSource = 3
CHECK_DEADLOCK FALSE
INVARIANTS NewestIsKept MutualExclusion PassesTogether OnceBetweenResets InvalidateHolds LazyIsCurrent
PROPERTIES PendingWaits StopHangsOnlyUnread AbandonedIsGivenBack StuckOnlyFromLateRead
