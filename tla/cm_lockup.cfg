SPECIFICATION Spec
CONSTANTS
    Conn = {c1}
    NoTransport = {}
    Pac = Pac
    Upgrader = {u1}
    MaxAttempts = 2
    MaxVerify = 1
INVARIANT NoWaitCycle
CHECK_DEADLOCK FALSE
