CONSTANTS
    c1 = c1
    c2 = c2
    NoOne = NoOne
    Conns <- TwoConns
    Capacity = 3
    MaxFrames = 1
    Cancels = FALSE
SPECIFICATION FairSpec
CHECK_DEADLOCK FALSE
INVARIANTS
    TypeOK
    CommitsConsecutive
    LeavesAreLive
    FramesOpen
PROPERTY TeardownCompletes
