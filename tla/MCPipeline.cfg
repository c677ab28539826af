SPECIFICATION Spec
CONSTANTS
    Accounts          = {"Bank", "Savings", "Interest", "Equity"}
    Commodities       = {"BRL", "USD", "STK"}
    AssetAccounts     = {"Bank", "Savings"}
    OpCurrency        = "BRL"
    FlowAccounts      = {"Interest", "Equity"}
    Path             <- MCPath
    Rate             <- MCRate
    Index            <- MCIndex
    Income           <- MCIncome
    Rank             <- MCRank
    DefaultTolerance <- MCDefault
    Policy           <- MCDefault
    Journals         <- MCJournals
CHECK_DEADLOCK FALSE
INVARIANTS
    AsOfIsJournal
    SeriesIsNetWorth
    AutoInterestIdempotent
    ClosingSettles
    PadsKeepVerdicts
    InterestSettlesApart
    TreesAddUp
    ProjectionAgrees
