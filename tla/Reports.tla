------------------------------ MODULE Reports ------------------------------
(***************************************************************************)
(* The reports of internal/engine over an opened ledger l:                 *)
(*   l.stream  the expanded stream (Ledger.Dirs)                           *)
(*   l.book    the engine that booked it (Ledger.Book)                     *)
(*   l.prices  the price database (Ledger.Prices)                          *)
(* Balances as of a day are booked anew from the stream; journal and       *)
(* activity read the transactions the engine booked.                       *)
(***************************************************************************)
EXTENDS Expand

CONSTANTS DefaultTolerance,    \* [Commodities -> Rat], an engine's own tolerance
          AssetAccounts,       \* Assets: and Liabilities: accounts
          OpCurrency

ASSUME OpCurrencyAssumption == OpCurrency \in Commodities
ASSUME DefaultToleranceAssumption == DefaultTolerance \in [Commodities -> Num]
ASSUME AssetsAssumption == AssetAccounts \subseteq Accounts

SumOver(S, f(_)) == MapThenFoldSet(RAdd, Zero, f, LAMBDA T : CHOOSE x \in T : TRUE, S)

(* Mutant: the day itself is left out. *)
MutUpTo(s, asOf) ==
    FlattenSeq([i \in DOMAIN s |-> IF s[i].date < asOf THEN <<s[i]>> ELSE << >>])

UpTo(s, asOf) ==
    FlattenSeq([i \in DOMAIN s |-> IF s[i].date <= asOf THEN <<s[i]>> ELSE << >>])

BalancesAsOf(l, asOf) == Book(New(DefaultTolerance), UpTo(l.stream, asOf)).bal

(* The units posted to a in c by the journal between two days. *)
AccountActivity(l, a, c, from, to) ==
    LET posted(entry) ==
            RSum([j \in DOMAIN entry.legs |->
                    IF entry.legs[j].acct = a THEN entry.legs[j].amts[c] ELSE Zero])
    IN  RSum([i \in DOMAIN l.book.txns |->
                IF l.book.txns[i].date \in from..to THEN posted(l.book.txns[i]) ELSE Zero])

(* Market value in the operating currency, zero without a price. *)
MarketConvert(prices, c, units, asOf) ==
    LET found == RateOn(prices, c, OpCurrency, asOf)
    IN  IF c = OpCurrency THEN units
        ELSE IF found.ok THEN RMul(units, found.rate) ELSE Zero

ValueOf(prices, bal, asOf) ==
    SumOver(AssetAccounts, LAMBDA a :
        SumOver(Commodities, LAMBDA c : MarketConvert(prices, c, bal[a][c], asOf)))

NetWorth(l, asOf) == With(BalancesAsOf(l, asOf), LAMBDA bal : ValueOf(l.prices, bal, asOf))

----------------------------------------------------------------------------
(* The chart of net worth: one booking pass, day by day.  The days of      *)
(* prices and of returns of an index revalue what is held.                 *)

PriceDays(l) == UNION {DOMAIN l.prices[pair] : pair \in DOMAIN l.prices}

SeriesDays(l, revalued, to) == {l.stream[i].date : i \in DOMAIN l.stream} \cup revalued \cup {to}

HoldsSome(bal) == \E a \in AssetAccounts, c \in Commodities : bal[a][c] # Zero

(* Mutant: a change of prices is not a reason for a point. *)
MutSampled(l, revalued, bal, day, to) ==
    day = to \/ \E i \in DOMAIN l.stream :
        l.stream[i].date = day /\ l.stream[i].kind \in {"txn", "balance"}

(* The days that get a point: the last one, those with a directive that    *)
(* touches an asset, and days that revalue while something is held. *)
Sampled(l, revalued, bal, day, to) ==
    LET touches(d) ==
            CASE d.kind = "txn" -> \E j \in DOMAIN d.postings : d.postings[j].acct \in AssetAccounts
              [] d.kind = "pad" -> {d.acct, d.from} \cap AssetAccounts # {}
              [] d.kind = "balance" -> d.acct \in AssetAccounts
              [] d.kind = "price" -> HoldsSome(bal)
              [] OTHER -> FALSE
    IN  \/ day = to
        \/ \E i \in DOMAIN l.stream : l.stream[i].date = day /\ touches(l.stream[i])
        \/ day \in revalued /\ HoldsSome(bal)

(* The engine after each day's directives are booked on top of the last. *)
DailyBooks(l, days) ==
    LET before(acc) == IF acc = << >> THEN New(DefaultTolerance) ELSE Last(acc).book
        step(acc, day) == Append(acc, [date |-> day,
            book |-> Book(before(acc), SelectSeq(l.stream, LAMBDA d : d.date = day))])
    IN  FoldOnce(step, << >>, SelectSeq([d \in 1..Max(days) |-> d], LAMBDA d : d \in days))

WalkSeries(l, revalued, from, to) ==
    LET shown(b, R) == b.date \in from..to /\ Sampled(l, R, b.book.bal, b.date, to)
        point(b) == [date |-> b.date, value |-> ValueOf(l.prices, b.book.bal, b.date)]
        points(books) == [i \in DOMAIN books |-> point(books[i])]
        days == SeriesDays(l, revalued, to)
    IN  With(SelectSeq(DailyBooks(l, days), LAMBDA b : shown(b, revalued)), points)

(* A chart drops the zeros at its ends. *)
TrimZeroEdgeSeries(points) ==
    LET full == {i \in DOMAIN points : points[i].value # Zero}
    IN  IF full = {} THEN << >> ELSE SubSeq(points, Min(full), Max(full))
=============================================================================
