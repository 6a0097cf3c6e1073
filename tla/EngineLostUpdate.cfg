SPECIFICATION Spec
CONSTANTS
    k1 = k1
    k2 = k2
    r1 = r1
    r2 = r2
    w1 = w1
    w2 = w2
    c1 = c1
    c2 = c2
    Absent = Absent
    NoOp = NoOp
    Keys = {k1, k2}
    Raws = {r1, r2}
    Pris <- Prios
    SetPri <- MemoryPri
    Writers = {w1, w2}
    Closers = {}
    Kinds = {"set"}
    NumSources = 0
    Contents <- NoContents
    Others <- NoConfig
    MaxOps = 1
CHECK_DEADLOCK FALSE
PROPERTY NothingIsLost
