CONSTANTS
    c1 = c1
    c2 = c2
    NoOne = NoOne
    Conns <- TwoConns
    Capacity = 3
    MaxFrames = 1
    Cancels = TRUE
SPECIFICATION Spec
SYMMETRY TwoSymmetry
CHECK_DEADLOCK FALSE
INVARIANT CommitsConsecutive
