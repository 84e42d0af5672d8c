SPECIFICATION FairSpec
CONSTANTS
    Sugg = {s1}
    MaxSubmits = 2
    MaxFaults = 1
    MaxRestarts = 1
INVARIANTS NoSampleLost SessionRooted
PROPERTY SenderDelivers
CHECK_DEADLOCK FALSE
