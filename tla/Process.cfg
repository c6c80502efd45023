\* See README.md, "Runs".
SPECIFICATION Spec
CONSTANTS
    None = None
    Capacity = 2
    Texts = {"x"}
    MaxPolls = 2
    MaxRecords = 4
    MaxRuns = 3
    Tables = {"kegs", "pours"}
    Schema <- SomeSchema
    Index <- SomeIndex
INVARIANT PageKnowsItsGaps
INVARIANT ServesWholeOrRefuses
PROPERTY KeepsLatest
CHECK_DEADLOCK FALSE
