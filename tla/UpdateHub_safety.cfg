\* See README.md, "Runs".
SPECIFICATION Spec
CONSTANTS
    NoKeg = NoKeg
    NoReply = NoReply
    Loads = {l1}
    w1 = w1
    w2 = w2
    k1 = k1
    k2 = k2
    Kegs = {k1}
    Writers = {w1, w2}
    Pages = {p1}
    BusBuffer = 1
    ClientBuffer = 1
    MaxWrites = 3
    MaxJoins = 2
    ReadFails = TRUE
SYMMETRY Symmetry
INVARIANT TypeOK
INVARIANT NoLostWakeup
INVARIANT NoMissedUpdate
CHECK_DEADLOCK FALSE
