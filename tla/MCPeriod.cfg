SPECIFICATION Spec
CONSTANTS
    Flows <- MCFlows
    Dates <- MCDates
    Offsets <- MCOffsets
    Typed <- MCTyped
    MaxMoves = 2
    MaxDays = 2
INVARIANTS BarsAddUp Walks PeriodsPartition RelativeAgrees
CHECK_DEADLOCK FALSE
