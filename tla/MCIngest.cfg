SPECIFICATION Spec
CONSTANTS
    Plain <- MCPlain
    Trim <- MCTrim
    LongNumbers <- MCLongNumbers
    BadWords <- MCBadWords
    KeyOrder <- MCKeyOrder
    Texts <- MCTexts
    Streams <- MCStreams
    Capacity = 2
    MaxEdits = 1
    MaxFaults = 1
INVARIANTS TypeOK ReadsBack IdsUnique NoTempLeft
PROPERTIES Implements Ends
CHECK_DEADLOCK FALSE
