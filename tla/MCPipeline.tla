----------------------------- MODULE MCPipeline -----------------------------
(***************************************************************************)
(* Small files for Pipeline: pads and assertions, an interest account, an  *)
(* account that a posting closes, and lots with dated costs and prices.    *)
(***************************************************************************)
EXTENDS Pipeline

MCDefault == [c \in Commodities |-> <<1, 2>>]
MCRank    == [c \in Commodities |-> CASE c = "BRL" -> 1 [] c = "STK" -> 2 [] OTHER -> 3]
MCPath == [a \in Accounts |->
             CASE a = "Bank" -> <<"Assets", "Bank">>
               [] a = "Savings" -> <<"Assets", "Bank", "Savings">>
               [] a = "Interest" -> <<"Income", "Passivo", "Interest">>
               [] a = "Equity" -> <<"Income">>]
MCRate  == [alpha |-> <<2, 1>>, plus |-> <<1, 10>>]
MCIndex == [day \in {2, 4} |-> <<1, 2>>]
MCIncome  == [a \in Accounts |-> "Interest"]

None       == [kind |-> "none"]
Post(a, n, c) == Bare(a, RInt(n), c)
Rest(a)    == [Post(a, 0, "BRL") EXCEPT !.units = [kind |-> "elided"]]
NoCommodity(a) == [Post(a, 0, "BRL") EXCEPT !.units = [kind |-> "noComm"]]
Closing(p) == [p EXCEPT !.closing = TRUE]
Buy(a, n, c, cost, quote, date) ==
    [Post(a, n, c) EXCEPT !.cost = [kind |-> "unit", n |-> RInt(cost), comm |-> quote, date |-> date]]

Txn(date, postings) == [kind |-> "txn", date |-> date, line |-> 0, flag |-> "*", postings |-> postings]
OpenOf(date, a, ccys, rate) ==
    [kind |-> "open", date |-> date, line |-> 0, acct |-> a, ccys |-> ccys, rate |-> rate]
CloseOf(date, a) == [kind |-> "close", date |-> date, line |-> 0, acct |-> a]
PadOf(date, a, from) == [kind |-> "pad", date |-> date, line |-> 0, acct |-> a, from |-> from]
Balance(date, a, n, c) ==
    [kind |-> "balance", date |-> date, line |-> 0, acct |-> a, n |-> RInt(n), comm |-> c]
Price(date, base, n, quote) ==
    [kind |-> "price", date |-> date, line |-> 0, base |-> base, n |-> RInt(n), quote |-> quote]
Commodity(c, tolerance) ==
    [kind |-> "commodity", date |-> 1, line |-> 0, comm |-> c, tol |-> tolerance]

Lines(ds) == [i \in DOMAIN ds |-> [ds[i] EXCEPT !.line = i]]

Pads ==
    [prelude |-> << >>, lines |-> 3, prices |-> << >>,
     directives |->
        {Txn(d, <<Post("Bank", 1, "BRL"), Rest("Equity")>>) : d \in {1, 2}}
        \cup {PadOf(d, "Bank", "Equity") : d \in {1, 2}}
        \cup {Balance(d, "Bank", n, "BRL") : d \in {2, 3}, n \in {2, 3}}
        \cup {PadOf(1, "Equity", "Savings"), Balance(2, "Equity", 0, "BRL"),
              Commodity("BRL", [kind |-> "set", n |-> RInt(2)])}]

Interest ==
    [prelude |-> Lines(<<OpenOf(1, "Savings", <<"BRL", "USD">>, "valid")>>),
     lines |-> 4, prices |-> << >>,
     directives |->
        {Txn(d, <<Post("Savings", 1, c), Rest("Bank")>>) : d \in {1, 3}, c \in {"BRL", "USD"}}
        \cup {Balance(d, "Savings", 2, "BRL") : d \in 2..4}
        \cup {Balance(3, "Savings", 1, "USD"), Balance(4, "Savings", 0, "BRL"),
              PadOf(1, "Savings", "Bank"), CloseOf(4, "Savings"),
              OpenOf(2, "Interest", <<"BRL">>, "none"), OpenOf(2, "Savings", << >>, "valid"),
              OpenOf(1, "Bank", << >>, "invalid")}]

Closings ==
    [prelude |-> Lines(<<OpenOf(1, "Savings", <<"BRL">>, "valid"),
                         Txn(1, <<Post("Savings", 2, "BRL"), Rest("Bank")>>),
                         Txn(1, <<Post("Bank", 2, "BRL"), Rest("Equity")>>)>>),
     lines |-> 6, prices |-> << >>,
     directives |->
        UNION {{Txn(d, <<Closing(Post("Savings", -1, "BRL")), Rest("Bank")>>),
                Txn(d, <<Post("Equity", 2, "BRL"), Closing(Rest("Bank"))>>),
                Txn(d, <<Post("Bank", 1, "BRL"), Rest("Savings")>>)} : d \in {2, 3}}
        \cup {Txn(2, <<Post("Savings", 1, "USD"), Post("Bank", 1, "BRL"), Closing(Rest("Equity"))>>),
              Txn(2, <<Closing(Rest("Savings"))>>),
              Txn(2, <<Closing(NoCommodity("Savings"))>>),
              CloseOf(4, "Bank"), PadOf(2, "Bank", "Equity")}]

Market ==
    [prelude |-> << >>, lines |-> 3,
     prices |-> <<Price(1, "USD", 2, "BRL"), Price(3, "BRL", 4, "USD"), Price(2, "STK", 3, "USD")>>,
     directives |->
        {Txn(d, <<Buy("Savings", 2, "STK", 5, "USD", d), Rest("Bank")>>) : d \in {1, 2}}
        \cup {Txn(2, <<Buy("Savings", 1, "STK", 4, "USD", 1), Rest("Bank")>>),
              Txn(2, <<Post("Savings", -1, "STK"), Post("Bank", 7, "USD"), Rest("Interest")>>),
              Txn(3, <<Post("Savings", -2, "STK"), Rest("Equity")>>),
              Txn(3, <<Post("Bank", 1, "USD"), Rest("Equity")>>),
              PadOf(1, "Savings", "Equity"), Balance(3, "Savings", 1, "STK"),
              Price(2, "STK", 6, "BRL")}]

(* Pads from an account that another pad takes from. *)
Sources ==
    [prelude |-> Lines(<<PadOf(1, "Equity", "Savings"), PadOf(1, "Bank", "Equity")>>),
     lines |-> 5, prices |-> << >>,
     directives |->
        {Balance(d, "Equity", -5, "BRL") : d \in {2, 3}}
        \cup {Balance(3, "Bank", 2, "BRL"), Balance(2, "Savings", -3, "BRL"),
              PadOf(2, "Equity", "Interest"), Txn(2, <<Post("Bank", 1, "BRL"), Rest("Equity")>>)}]

(* A lot that pads and sales take from. *)
Lots ==
    [prelude |-> Lines(<<Txn(1, <<Buy("Savings", 2, "STK", 5, "USD", NoDate), Rest("Bank")>>),
                         PadOf(1, "Savings", "Equity")>>),
     lines |-> 5, prices |-> << >>,
     directives |->
        {Balance(d, "Savings", 1, "STK") : d \in {3, 5}}
        \cup {Txn(d, <<Post("Savings", -2, "STK"), Rest("Equity")>>) : d \in {3, 4}}]

(* What pads, transactions and skipped sales take out of an account with   *)
(* interest; another one has the same Income account.                      *)
Withdrawals ==
    [prelude |-> Lines(<<OpenOf(1, "Savings", <<"BRL">>, "valid")>>),
     lines |-> 4, prices |-> << >>,
     directives |->
        {PadOf(d, "Bank", "Savings") : d \in {2, 3}}
        \cup {Balance(3, "Bank", 5, "BRL"), Balance(3, "Savings", 0, "BRL"),
              Txn(3, <<Post("Savings", -1, "BRL"), Post("Bank", 1, "BRL")>>),
              Txn(1, <<Post("Savings", 2, "BRL"), Rest("Equity")>>),
              OpenOf(2, "Bank", <<"BRL">>, "valid"), Balance(3, "Savings", 0, "STK"),
              Txn(3, <<Buy("Savings", -1, "STK", 5, "USD", NoDate), Rest("Bank")>>)}]

MCJournals == {Pads, Interest, Closings, Market, Sources, Lots, Withdrawals}
=============================================================================
