CONSTANTS
    FirstYear = 2023
    LastYear = 2025
    Slots = 2
    Moments <- MonthEnds
    LateWrites = TRUE
SPECIFICATION Spec
INVARIANTS YearIsRight OnlyLeapDaysAreDropped StampIsNear
