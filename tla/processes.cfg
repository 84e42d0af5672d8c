SPECIFICATION Spec
CONSTANTS
    TConn = {c1, c2}
    Addr = {h1, h2}
    MaxPosts = 2
    PConn = {c1, c2}
    Method = {obfs4}
    NumServers = 2
    SReq = {c1, c2}
    MaxFailCnt = 2
    MaxChanges = 2
    Port = {h1, h2}
    Password = {pw1, pw2}
    NoFile = NoFile
    MaxReloads = 2
INVARIANTS HandshakeSound DrainsFirst ReachableServes PortsSettle
PROPERTIES ProcessesEnd TrafficSettles
CHECK_DEADLOCK FALSE
