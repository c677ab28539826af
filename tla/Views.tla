-------------------------------- MODULE Views --------------------------------
(***************************************************************************)
(* What the pages make of the reports: the account trees of balances, net  *)
(* worth and income (account_tree.go, balances_tree.go, networth_tree.go,  *)
(* pnl.go of internal/engine), the projected units of an interest account  *)
(* (internal/booking/autointerest.go), the chart of net worth (series.go). *)
(***************************************************************************)
EXTENDS Reports

CONSTANTS Path,         \* [Accounts -> names], Assets:Bank being <<"Assets", "Bank">>
          FlowAccounts,   \* Income: and Expenses: accounts
          Rate,            \* [alpha, plus], the rate of the interest accounts
          Index             \* the daily returns of its index, by day

(* An account is its name, and the parts of a name are words. *)
ASSUME PathAssumption ==
    /\ Path \in [Accounts -> Seq(STRING) \ {<< >>}]
    /\ \A a \in Accounts, b \in Accounts : Path[a] = Path[b] => a = b
ASSUME FlowAssumption == FlowAccounts \subseteq Accounts

AsOfLatest == 9999

----------------------------------------------------------------------------
(* A tree has a name for every prefix of the leaves' names. *)

AccountUnder(leaf, name) == IsPrefix(name, leaf)

NewAccountTree(leaves) == UNION {{SubSeq(leaf, 1, n) : n \in DOMAIN leaf} : leaf \in leaves}

HasChild(names, name) == \E other \in names : other # name /\ AccountUnder(other, name)

(* Mutant: an account with accounts below it counts only them. *)
MutTotal(flat, name) ==
    SumOver({a \in DOMAIN flat : /\ AccountUnder(Path[a], name)
                                 /\ Path[a] = name => ~HasChild({Path[b] : b \in DOMAIN flat}, name)},
            LAMBDA a : flat[a])

Total(flat, name) == SumOver({a \in DOMAIN flat : AccountUnder(Path[a], name)}, LAMBDA a : flat[a])

(* The rows of a tree: what is under each name; nothing leaves no row.     *)
Rollup(flat) ==
    LET names == NewAccountTree({Path[a] : a \in DOMAIN flat})
    IN  [name \in {n \in names : Total(flat, n) # Zero} |-> Total(flat, name)]

Held(bal, a) == {c \in Commodities : bal[a][c] # Zero}

(* Balances are shown in their commodities, on the rows without children.  *)
BalancesTree(bal) ==
    LET names == NewAccountTree({Path[a] : a \in {b \in Accounts : Held(bal, b) # {}}})
        own(name) == {a \in Accounts : Path[a] = name}
    IN  [name \in names |->
            IF HasChild(names, name) THEN {}
            ELSE UNION {{<<c, bal[a][c]>> : c \in Held(bal, a)} : a \in own(name)}]

(* The lines of the net worth table, summed by account.                    *)
Worth(prices, bal, asOf) ==
    [a \in {b \in AssetAccounts : Held(bal, b) # {}} |->
        SumOver(Held(bal, a), LAMBDA c : MarketConvert(prices, c, bal[a][c], asOf))]

(* A leaf of several commodities has a row below it for each.              *)
SubRows(prices, bal, asOf, rows) ==
    LET names == NewAccountTree({Path[a] : a \in {b \in AssetAccounts : Held(bal, b) # {}}})
        split(a) == /\ Path[a] \in DOMAIN rows /\ ~HasChild(names, Path[a])
                    /\ Cardinality(Held(bal, a)) > 1
    IN  [x \in {y \in AssetAccounts \X Commodities : split(y[1]) /\ y[2] \in Held(bal, y[1])} |->
            MarketConvert(prices, x[2], bal[x[1]][x[2]], asOf)]

(* Income and expenses in native units, and as a tree at today's prices.   *)
PnL(l, a, from, to) == [c \in Commodities |-> AccountActivity(l, a, c, from, to)]

MarketValue(prices, units, day) ==
    SumOver({c \in Commodities : units[c] # Zero}, LAMBDA c : MarketConvert(prices, c, units[c], day))

Flat(l, from, to) == [a \in FlowAccounts |-> MarketValue(l.prices, PnL(l, a, from, to), AsOfLatest)]

PnLTree(l, from, to) == Rollup(Flat(l, from, to))

----------------------------------------------------------------------------
(* ProjectedUnits *)

IndexRate(day) == IF day \in DOMAIN Index THEN Index[day] ELSE Zero

EffectiveInterestRate(day) == RAdd(RMul(Rate.alpha, IndexRate(day)), Rate.plus)

(* The day an interest account closes, if it does after it opened. *)
CloseDays(s, a) ==
    LET opened == Max({i \in InterestOpens(s) : s[i].acct = a})
        closes == {i \in OfKind(s, "close") : s[i].acct = a /\ i > opened}
    IN  {s[i].date : i \in {j \in closes : j = Max(closes)}}

(* The last day of growth: a close ends it. *)
Horizon(s, a, asOf) == Min({asOf} \cup {day - 1 : day \in CloseDays(s, a)})

(* What has a number counts, a number without a commodity as well. *)
Entries(s, a) ==
    {i \in OfKind(s, "txn") : \E p \in ToSet(s[i].postings) :
            p.acct = a /\ p.units.kind \in {"amount", "noComm"}}
        \cup {i \in OfKind(s, "balance") : s[i].acct = a}

(* Mutant: assertions after the transactions of their day, as a comment    *)
(* has it.                                                                 *)
MutEvents(s, day) ==
    LET of(kind) == SelectSeq(s, LAMBDA d : d.kind = kind /\ d.date = day)
    IN  of("txn") \o of("balance")

(* The entries of a day, assertions first. *)
Events(s, day) ==
    LET of(kind) == SelectSeq(s, LAMBDA d : d.kind = kind /\ d.date = day)
    IN  of("balance") \o of("txn")

(* An assertion is the truth, and of a transaction what is written counts. *)
Posted(bal, a, d) ==
    IF d.kind = "balance" THEN IF d.acct = a THEN [bal EXCEPT ![d.comm] = d.n] ELSE bal
    ELSE LET add(b, p) == IF p.acct = a /\ p.units.kind = "amount"
                          THEN [b EXCEPT ![p.units.comm] = RAdd(@, p.units.n)] ELSE b
         IN  FoldLeft(add, bal, d.postings)

Grown(bal, day) ==
    [c \in Commodities |-> RAdd(bal[c], RMul(bal[c], EffectiveInterestRate(day)))]

(* Day by day from the opening; an entry from before it stops the list of  *)
(* entries from being read on.                                             *)
ProjectedUnits(s, a, asOf) ==
    LET opened == InterestOpen(s, a).date
        stuck == \E i \in Entries(s, a) : s[i].date < opened
        grown(bal, day) == IF day > opened THEN Grown(bal, day) ELSE bal
        post(bal, d) == Posted(bal, a, d)
        live(bal, day) == FoldOnce(post, grown(bal, day), IF stuck THEN << >> ELSE Events(s, day))
    IN  FoldOnce(live, [c \in Commodities |-> Zero],
                 [n \in 1..Max({0, Horizon(s, a, asOf) - opened + 1}) |-> opened + n - 1])

----------------------------------------------------------------------------
(* The chart of net worth *)

(* The days of an index's returns revalue an open interest account: all of *)
(* them up to the day before a past close, else up to today, which is to.  *)
Revalued(l, to) ==
    LET opened(a) == InterestOpen(l.stream, a).date
        until(a) == Min({to} \cup {day - 1 : day \in {d \in CloseDays(l.stream, a) : d < to}})
    IN  PriceDays(l) \cup UNION {DOMAIN Index \cap opened(a)..until(a) :
                                    a \in InterestAccounts(l.stream)}

NetWorthSeries(l, from, to) ==
    With(WalkSeries(l, Revalued(l, to), from, to), TrimZeroEdgeSeries)
=============================================================================
