SPECIFICATION Spec
CONSTANTS
    N = 4
    MaxBlocks = 2
    MaxBranches = 2
    IncrSize = 8
    MaxOpen = 0
INVARIANT ParentIsBranching
CHECK_DEADLOCK FALSE
