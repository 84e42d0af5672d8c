SPECIFICATION Spec
CONSTANTS
    Sugg = {s1}
    MaxSubmits = 1
    MaxFaults = 0
    MaxRestarts = 1
INVARIANT SessionsSurvive
CHECK_DEADLOCK FALSE
