CONSTANTS
    CreationBlock = 1
    Step = 2
    Interval = 2
    MaxHead = 5
SPECIFICATION FairSpec
INVARIANTS
    IInv
    FileComplete
    IndexCovers
PROPERTIES
    PoolAdded
