\* Clients that add, remove, start and stop a worker, with and without restarts by policy, while the
\* master stops.
SPECIFICATION FairSpec
CONSTANTS
    Client = {c1, c2}
    Runner = Runner
    Id = {w1}
    Entry = {e1}
    NoEntry = NoEntry
INVARIANTS OneOperation RemovableNotRunning ShutdownStops
PROPERTIES ControlsHaveLifecycle NeverStuck MasterStops
CHECK_DEADLOCK FALSE
