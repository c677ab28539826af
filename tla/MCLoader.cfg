SPECIFICATION FairSpec
CONSTANTS
    Paths     = {"main", "accounts", "journal", "link", "index", "draft", "gone"}
    Rank     <- MCRank
    Projects <- MCProjects
CHECK_DEADLOCK FALSE
INVARIANTS
    TypeOK
    ReadOnce
    MainComplete
    JournalsWhole
    IncludedBefore
    FlatJournalsOnce
PROPERTIES
    LoadEnds
