SPECIFICATION Spec
CONSTANTS
    Paths     = {"main", "accounts", "journal", "link", "index", "draft", "gone"}
    Rank     <- MCRank
    Projects <- MCNested
CHECK_DEADLOCK FALSE
INVARIANT JournalNotDoubled
