\* No policy terminations: starts, stops and restarts from callers and health checks, under fairness.
SPECIFICATION FairSpec
CONSTANTS
    Thread = {t1, t2}
    Handle = {h1, h2}
    Proc = {p1, p2}
    External = {p1}
    Feature = {"log", "health"}
    Callbacks = {"health", "restart"}
    CanAttach = TRUE
    NilContext = FALSE
    NoThread = NoThread
    NoHandle = NoHandle
    NoProc = NoProc
INVARIANTS NoOrphan OneInstance CleanBeforeStart WaitsForDoomed
PROPERTIES OneAfterAnother CallsReturn
