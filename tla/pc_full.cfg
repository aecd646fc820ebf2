\* Every operation, every policy, attaching and nil contexts.
SPECIFICATION Spec
CONSTANTS
    Thread = {t1, t2, t3}
    Handle = {h1, h2}
    Proc = {p1, p2}
    External = {}
    Feature = {"limits"}
    Callbacks = {"restart", "graceful_shutdown", "immediate_kill"}
    CanAttach = TRUE
    NilContext = TRUE
    NoThread = NoThread
    NoHandle = NoHandle
    NoProc = NoProc
SYMMETRY Symmetry
INVARIANTS TypeOK SoleTerminator RunningHasProcess SuccessMeansGone
