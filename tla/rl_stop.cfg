SPECIFICATION FairSpec
CONSTANTS
    Config <- MCConfig
    Usage <- MCUsage
    Second = 2
    MaxHandling = 1
PROPERTY
    StopReturns
CHECK_DEADLOCK FALSE
