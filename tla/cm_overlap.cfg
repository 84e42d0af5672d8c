SPECIFICATION Spec
CONSTANTS
    Conn = {c1}
    NoTransport = {}
    Pac = Pac
    Upgrader = {u1}
    MaxAttempts = 2
    MaxVerify = 2
CONSTRAINT Slice
INVARIANTS FlagGuards PacNeverStale
CHECK_DEADLOCK FALSE
