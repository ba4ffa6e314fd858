SPECIFICATION Spec
CONSTANTS
    BufferSize = 2
    Sizes <- MCSizes
    MaxIterations = 2
    PerfSize = 3
    MaxRuns = 3
INVARIANTS
    Verdict
    WrittenIsWhole
CHECK_DEADLOCK FALSE
