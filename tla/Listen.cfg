SPECIFICATION Spec
CONSTANTS
    N = 3
    Conns = {c1, c2, c3}
    MaxFd = 6
    MaxAddrs = 3
    FPX_MAX_BIND_ATTEMPTS = 3
INVARIANTS TypeOK HandlesTrue NoneLost
PROPERTIES AllListening BindEnds
CHECK_DEADLOCK FALSE
