\* See README.md, "Runs".
SPECIFICATION Spec
CONSTANTS
    k1 = k1
    None = None
    Keep = Keep
    Kegs = {k1}
    Edits <- OneEdit
    Interval = 1
    CompactStep = 3
    compactChunk = 6
    CompactAfter = 1
    Retention = 8
    sampleSteps <- ChartSteps
    Day = 6
    maxChartPoints = 2
    Limit = 1
    From = 4
    To = 6
    ChartEnds <- SomeEnds
    Times <- SomeTimes
    Reads <- SomeReads
    MaxReadings = 3
    MaxEdits = 1
INVARIANT FoldedEditRefused
CHECK_DEADLOCK FALSE
