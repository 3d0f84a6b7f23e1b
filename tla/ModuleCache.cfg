SPECIFICATION FairSpec
CONSTANTS
    Requests = {r1, r2}
    Wasms = {w1, w2}
    Valid = {w1}
    NumBlocks = 3
    Hole = Hole
INVARIANTS
    RunsOwnBinary
    CompilesOnlyIfDisturbed
PROPERTY EveryCallEnds
