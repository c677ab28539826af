SPECIFICATION Spec
CONSTANTS
    Plain <- MCPlain
    Trim <- MCTrim
    LongNumbers <- MCLongNumbers
    BadWords <- MCBadWords
    KeyOrder <- MCKeyOrder
    Texts <- MCTexts
    Streams <- Twice
    Capacity = 2
    MaxEdits = 0
    MaxFaults = 0
PROPERTY OwnLinesKept
CHECK_DEADLOCK FALSE
