\* See README.md, "Runs".
SPECIFICATION Spec
CONSTANTS
    k1 = k1
    k2 = k2
    None = None
    Kegs = {k1, k2}
    MonitorOf <- TwoMonitors
    Amounts = {10, 20}
    MinSendInterval = 2
    GlobalSendLimit = 2
    GlobalSendWindow = 5
    RequestTimeout = 2
    Faults = {"refuse", "lose", "late", "unconfirmed"}
    MaxTime = 10
    MaxReports = 2
    MaxCrashes = 1
INVARIANT TypeOK
INVARIANT SharedBudget
INVARIANT MonitorSpacing
INVARIANT NoMonitorStarves
INVARIANT MarkedIsShown
CHECK_DEADLOCK FALSE
