SPECIFICATION Spec
CONSTANTS
    Conn = {c1, c2}
    NoTransport = {}
    Pac = Pac
    Upgrader = {}
    MaxAttempts = 2
    MaxVerify = 1
SYMMETRY ConnSymmetry
INVARIANTS TypeOK OneChain
CHECK_DEADLOCK FALSE
