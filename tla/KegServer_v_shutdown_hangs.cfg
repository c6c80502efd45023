\* See README.md, "Runs".
SPECIFICATION FairSpec
CONSTANTS
    k1 = k1
    k2 = k2
    c1 = c1
    c2 = c2
    NoKeg = NoKeg
    BadToken = BadToken
    NoConn = NoConn
    NoRow = NoRow
    Kegs = {k1}
    Conns = {c1}
    Handlers = {}
    StoreFails = FALSE
    Networks <- HeartbeatNetworks
PROPERTY ShutdownEnds
