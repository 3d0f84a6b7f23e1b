SPECIFICATION HeapSpec
CONSTANTS
    Values = {o1, o2}
    Inner = {v1, v2}
    Roots = {r1, r2}
    Null = null
    Objects = {w1, w2, w3}
    Maps = {m1, m2}
    Timers = {t, u}
    Fds = {0}
    Delays = {0, 1}
    MaxNow = 1
    MaxJobs = 1
    MaxSets = 2
SYMMETRY Symmetry
INVARIANTS
    NoDangling
    CollectsAll
    SharingInvisible
    RecordsAgree
    EventLoopSafe
PROPERTIES
    IsAMap
