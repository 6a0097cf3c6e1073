SPECIFICATION Spec
CONSTANTS
    a = a
    b = b
    c = c
    k1 = k1
    t1 = t1
    t2 = t2
    r1 = r1
    LineKeys <- TheLineKeys
    MaxIndent = 2
    MaxLines = 3
    Keys = {k1}
    Priorities <- ThePriorities
    MaxSources = 3
    Paths <- ThePaths
    MapNames = {b, c}
    MapPaths <- TheMapPaths
    Types <- TheTypes
    Roots <- TheRoots
    Maps <- TheMaps
    Inputs <- TheInputs
    Takers = {t1, t2}
    Readers = {r1}
    MaxSize = 3
    MaxID = 4
    MaxChange = 1
    MaxTime = 1
CHECK_DEADLOCK FALSE
INVARIANTS LoadIsPriority WorkersFinish ParsedAsNested NestedAsDotted BindExact ValidatorsAgree
           SearchesAreExact SnapshotsFollow
PROPERTIES OldestFirst
