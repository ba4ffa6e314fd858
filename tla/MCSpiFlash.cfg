SPECIFICATION Spec
CONSTANTS
    Word = 8
    ChipSize = 4
    EraseSizes <- MCEraseSizes
    Step = 2
    FileSize = 5
    Offsets <- MCNumbers
    Lengths <- MCNumbers
    MaxRuns = 2
INVARIANTS
    RangeOnly
    Done
    BeyondChipUntouched
    FoolproofJoined
PROPERTIES
    Returns
CHECK_DEADLOCK FALSE
