SPECIFICATION FairSpec
CONSTANTS
    Conn = {c1}
    NoTransport = {}
    Pac = Pac
    Upgrader = {}
    MaxAttempts = 2
    MaxVerify = 1
PROPERTIES Reconnects VerdictAndInstall VerifiesAgain
CHECK_DEADLOCK FALSE
