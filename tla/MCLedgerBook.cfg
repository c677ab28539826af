SPECIFICATION Spec
CONSTANTS
    Accounts    = {"Cash", "Lot", "Gains"}
    Commodities = {"BRL", "USD", "STK"}
    Tolerance   <- MCTolerance
    Scenarios   <- MCScenarios
INVARIANTS
    LotsNonNegative
    EmptyLotHasNoCost
    BalanceIsJournal
    OutOfLifeReported
PROPERTIES
    BalancedAtCost
    FxSpendBalancedAtFace
    LotTracksBalance
    RejectedTxnInert
    AssertionSettles
CHECK_DEADLOCK FALSE
