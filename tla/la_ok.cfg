\* Accepted and refused configurations; two PIDs, which are reused; two environments.
SPECIFICATION Spec
CONSTANTS
    Worker = {m, i, u}
    m = m
    i = i
    u = u
    Config <- MCConfig
    Env <- MCEnv
    Pid = {p1, p2}
    Port = {q1, default}
    DefaultPort = default
    Empty = Empty
    Other = Other
    Nobody = Nobody
SYMMETRY Symmetry
INVARIANTS TypeOK OneProcess OwnProcess ChecksOwnPort AcceptedRuns
