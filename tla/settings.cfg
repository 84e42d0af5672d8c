SPECIFICATION Spec
CONSTANTS
    Shipped1 = {z0, ip}
    Withdrawn = {ip}
    Shipped5 = {u2}
    Retired = {ul}
    UserConn = {own}
    Week = {53}
    Host = {h1}
    Api = {a1, a2}
    MaxCalls = 2
    MaxStarts = 2
INVARIANTS SettingsReady ManagerInSync PacInSync FileCurrent SetupSurvives
CONSTRAINT Slice
SYMMETRY Sym
CHECK_DEADLOCK FALSE
