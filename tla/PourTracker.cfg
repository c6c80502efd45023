\* See README.md, "Runs".
SPECIFICATION Spec
CONSTANTS
    k1 = k1
    None = None
    NoRow = NoRow
    Kegs = {k1}
    Amounts = {0, 1, 2}
    Units = {"litre", "gal"}
    DefaultUnit = "litre"
    BaseOf <- Bases
    Packets <- ScalePackets
    Minimums <- TwoMinimums
    MaxPour = 2
    MaxTime = 2
    MaxFall = 3
    MaxPours = 2
INVARIANT TypeOK
INVARIANT WindowsDisjoint
INVARIANT NothingCountedTwice
INVARIANT HistoryIsNew
