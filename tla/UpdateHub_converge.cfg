\* See README.md, "Runs".
SPECIFICATION FairSpec
CONSTANTS
    NoKeg = NoKeg
    NoReply = NoReply
    Loads = {l1}
    w1 = w1
    w2 = w2
    k1 = k1
    k2 = k2
    Kegs = {k1, k2}
    Writers = {w1, w2}
    Pages = {p1}
    BusBuffer = 1
    ClientBuffer = 1
    MaxWrites = 2
    MaxJoins = 1
    ReadFails = TRUE
PROPERTY PagesConverge
PROPERTY PagesHeal
CHECK_DEADLOCK FALSE
