SPECIFICATION FairSpec
CONSTANTS
    N = 4
    MaxBlocks = 2
    MaxBranches = 2
    IncrSize = 4
    MaxOpen = 1
INVARIANTS
    StackFits
    BlocksOwned
    FirstBranchHasParent
PROPERTIES
    ScanIsPreorder
    ScanEnds
CHECK_DEADLOCK FALSE
