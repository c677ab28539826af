---------------------------- MODULE MCLedgerBook ----------------------------
(***************************************************************************)
(* Small journals for LedgerBook: an equity lot, a foreign-currency lot,   *)
(* and account lifecycles with pads and assertions.                        *)
(***************************************************************************)
EXTENDS LedgerBook

MCTolerance == [c \in Commodities |-> <<1, 2>>]

Amount(n, c) == [kind |-> "amount", n |-> RInt(n), comm |-> c]
Elided       == [kind |-> "elided"]
None         == [kind |-> "none"]
Braces       == [kind |-> "empty"]
Unit(n, c)   == [kind |-> "unit", n |-> RInt(n), comm |-> c, date |-> NoDate]
At(n, c)     == [kind |-> "unit", n |-> RInt(n), comm |-> c]
Total(n, c)  == [kind |-> "total", n |-> RInt(n), comm |-> c]

Post(a, units, cost, price) ==
    [acct |-> a, units |-> units, cost |-> cost, price |-> price, closing |-> FALSE]
Bare(a, n, c) == Post(a, Amount(n, c), None, None)
Rest(a)       == Post(a, Elided, None, None)

Buy(n, cost)  == Post("Lot", Amount(n, "STK"), cost, None)
Sell(n)       == Bare("Lot", -n, "STK")

Equity ==
    [dates |-> {1}, lines |-> 4, kinds |-> {"txn"}, accounts |-> {}, froms |-> {}, assertions |-> {},
     bodies |-> {
        <<Buy(2, Unit(1, "BRL")), Rest("Cash")>>,
        <<Post("Lot", Amount(2, "STK"), None, Total(5, "BRL")), Bare("Cash", -5, "BRL")>>,
        <<Sell(1), Bare("Cash", 3, "BRL"), Rest("Gains")>>,
        <<Post("Lot", Amount(-2, "STK"), Braces, At(2, "BRL")), Bare("Cash", 4, "BRL"), Rest("Gains")>>,
        <<Post("Lot", Amount(-1, "STK"), Unit(1, "BRL"), None), Bare("Cash", 1, "BRL")>>,
        <<Buy(1, Unit(4, "BRL")), Sell(3), Rest("Cash")>>,
        <<Buy(1, Unit(1, "BRL")), Buy(1, Unit(1, "USD")), Rest("Cash")>>,
        <<Bare("Lot", 1, "STK"), Rest("Lot")>>,
        <<Sell(1), Sell(2), Rest("Cash")>>,
        <<Buy(1, Braces), Rest("Cash")>>,
        <<Bare("Cash", 1, "BRL"), Bare("Gains", -2, "BRL")>>,
        <<Rest("Cash"), Rest("Gains")>>}]

Forex ==
    [dates |-> {1}, lines |-> 4, kinds |-> {"txn"}, accounts |-> {}, froms |-> {}, assertions |-> {},
     bodies |-> {
        <<Post("Lot", Amount(2, "USD"), Unit(5, "BRL"), None), Bare("Cash", -10, "BRL")>>,
        <<Post("Lot", Amount(1, "USD"), None, At(7, "BRL")), Rest("Cash")>>,
        <<Bare("Gains", 1, "USD"), Rest("Lot")>>,
        <<Bare("Gains", 1, "USD"), Bare("Lot", -1, "USD")>>,
        <<Post("Cash", Amount(1, "STK"), Unit(1, "USD"), None), Rest("Lot")>>,
        <<Bare("Lot", -1, "USD"), Bare("Cash", 6, "BRL"), Rest("Gains")>>,
        <<Bare("Lot", 1, "USD"), Rest("Gains")>>,
        <<Bare("Lot", -1, "USD"), Bare("Cash", 1, "STK"), Rest("Gains")>>,
        <<Post("Cash", Amount(1, "USD"), None, At(6, "BRL")), Bare("Lot", -1, "USD"), Rest("Gains")>>}]

RoundTrips ==
    [dates |-> {1}, lines |-> 3, kinds |-> {"txn"}, accounts |-> {}, froms |-> {}, assertions |-> {},
     bodies |-> {
        <<Buy(2, Unit(1, "BRL")), Post("Lot", Amount(-1, "STK"), Unit(9, "BRL"), None), Rest("Cash")>>,
        <<Buy(1, Unit(3, "BRL")), Sell(1), Rest("Cash")>>,
        <<Sell(1), Rest("Cash")>>}]

Lifecycle ==
    [dates |-> {1, 2}, lines |-> 5, kinds |-> {"open", "close", "pad", "balance", "txn", "note"},
     accounts |-> {"Cash"}, froms |-> {"Gains", "Cash"},
     assertions |-> {[acct |-> "Cash", n |-> RInt(2), comm |-> "BRL"],
                     [acct |-> "Cash", n |-> <<1, 2>>, comm |-> "BRL"]},
     bodies |-> {<<Bare("Cash", 1, "BRL"), Bare("Gains", -1, "BRL")>>}]

MCScenarios == {Equity, Forex, RoundTrips, Lifecycle}
=============================================================================
