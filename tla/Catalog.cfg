\* See README.md, "Runs".
SPECIFICATION Spec
CONSTANTS
    t1 = t1
    t2 = t2
    k1 = k1
    k2 = k2
    b1 = b1
    b2 = b2
    None = None
    Taps = {t1, t2}
    Kegs = {k1, k2}
    Browsers = {b1, b2}
    KgPerUnit <- Scale
    pourSubUnits <- SubUnits
    Devices <- SomeDevices
    Tables <- SomeTables
    Layouts <- SomeLayouts
    Patches <- SomePatches
    TapForms <- SomeForms
    Links <- SomeLinks
    TapOrders <- TwoTaps
    Orders <- TwoKegs
    Corrections <- Scalars
    Amount = 16
    PourUnit = "litre"
    DefaultMinPour <- OneOunce
    StoreFails = TRUE
    MaxRequests = 3
    MaxPackets = 1
SYMMETRY Symmetry
INVARIANT SettingsKept
INVARIANT EditMeansWhatWasShown
PROPERTY KegStaysOnOneTap
PROPERTY OrderWholeOrReported
CHECK_DEADLOCK FALSE
