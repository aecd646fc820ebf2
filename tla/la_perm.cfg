\* An unmanaged worker whose configuration denies the master to terminate the service.
SPECIFICATION Spec
CONSTANTS
    Worker = {m, i, u}
    m = m
    i = i
    u = u
    Config <- MCUntouchable
    Env <- MCEnv
    Pid = {p1, p2}
    Port = {q1, default}
    DefaultPort = default
    Empty = Empty
    Other = Other
    Nobody = Nobody

PROPERTIES SignalsAllowed
