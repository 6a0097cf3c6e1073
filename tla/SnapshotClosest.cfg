SPECIFICATION SnapSpec
CONSTANTS
    t1 = t1
    r1 = r1
    Takers = {t1}
    Readers = {r1}
    MaxSize = 2
    MaxID = 2
    MaxChange = 0
    MaxTime = 3
CHECK_DEADLOCK FALSE
INVARIANT AtIsClosest
