\* A client that stops a worker whose restart is delayed by the circuit breaker.
SPECIFICATION Spec
CONSTANTS
    Client = {c1, c2}
    Runner = Runner
    Id = {w1}
    Entry = {e1}
    NoEntry = NoEntry
INVARIANT StoppedNotRunning
CHECK_DEADLOCK FALSE
