SPECIFICATION FairSpec
CONSTANTS
    Config <- MCConfig
    Usage <- MCUsage
    Second = 2
    MaxHandling = 2
INVARIANTS
    NoOrphans
    WaitsForTold
    CheckedRight
    CriticalWarns
PROPERTIES
    StuckForever
    StopReturnsOrSticks
    ViolationsHandled
\* A stopped manager, and one that is stuck, may take no further step.
CHECK_DEADLOCK FALSE
