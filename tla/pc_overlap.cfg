\* A caller that stops and starts while a policy shutdown is in progress.
SPECIFICATION Spec
CONSTANTS
    Thread = {t1, t2}
    Handle = {h1, h2}
    Proc = {p1, p2}
    External = {}
    Feature = {"limits"}
    Callbacks = {"graceful_shutdown"}
    CanAttach = TRUE
    NilContext = FALSE
    NoThread = NoThread
    NoHandle = NoHandle
    NoProc = NoProc
SYMMETRY Symmetry
INVARIANT OneInstance
