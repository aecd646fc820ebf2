SPECIFICATION FairSpec
CONSTANTS
    s1 = s1
    s2 = s2
    Caller = {c1, c2}
    Owner = {c1}
    Client = {c1, c2}
    Worker = {w1}
    Stream = {s1, s2}
    Kind <- MCKind
    Capture <- MCCapture
    MaxLine = 1
    MaxCollector = 2
    MaxWriter = 2
    NoCaller = NoCaller
INVARIANTS
    NoSilentLoss
    PanicsExplained
    ActiveTellsTruth
PROPERTIES
    ImplementsRegistry
    StopReturnsOrSilent
\* Streams end, and the bounds are reached.
CHECK_DEADLOCK FALSE
