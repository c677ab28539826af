------------------------------ MODULE Pipeline ------------------------------
(***************************************************************************)
(* engine.OpenLedgerFS: how the file a user writes becomes an opened       *)
(* ledger.  A behaviour writes a small file, directive by directive in any *)
(* order of dates, and then runs the expanders one after the other, as the *)
(* engine does, up to the booked ledger that the reports read.             *)
(***************************************************************************)
EXTENDS Views

CONSTANTS Policy,     \* [Commodities -> Rat], the tolerances of contapila.cue
          Journals    \* vocabularies: prelude, directives, lines, prices

ASSUME PolicyAssumption == Policy \in [Commodities -> Num]

(* A directive as the parser makes it: what the engine reads, and what the *)
(* expanders do.                                                           *)
IsParsed(d) ==
    /\ IsDirective(d)
    /\ d.kind = "open" => {"ccys", "rate"} \subseteq DOMAIN d /\ d.ccys \in Seq(Commodities)
    /\ d.kind = "commodity" =>
        {"comm", "tol"} \subseteq DOMAIN d /\ (d.tol.kind = "set" => d.tol.n \in Num)
    /\ d.kind = "price" =>
        /\ {"base", "n", "quote"} \subseteq DOMAIN d
        /\ d.base \in Commodities /\ d.quote \in Commodities /\ d.n \in Num

ASSUME JournalsAssumption ==
    \A j \in Journals :
        /\ j.prelude \in Seq(ToSet(j.prelude)) /\ j.prices \in Seq(ToSet(j.prices))
        /\ \A d \in ToSet(j.prelude) \cup j.directives \cup ToSet(j.prices) : IsParsed(d)
        /\ \A p \in ToSet(j.prices) : p.kind = "price"

VARIABLES journal,    \* the vocabulary of this behaviour
          phase,      \* how far the ledger is
          file,       \* the directives as written, includes expanded
          stream,     \* the directives as expanded so far
          prices,     \* the project's price database
          tol,        \* the commodity tolerances booking uses
          book,       \* the engine, once the stream is booked
          diags       \* the ledger's diagnostics

vars == <<journal, phase, file, stream, prices, tol, book, diags>>

Ledger == [stream |-> stream, book |-> book, prices |-> prices]

(* The prices journal of the project, loaded before any ledger. *)
LoadPrices(points) ==
    FoldOnce(LAMBDA db, p : AddPoint(db, p.base, p.quote, p.date, p.n), NewDB, points)

Init ==
    /\ journal \in Journals
    /\ phase = "writing"
    /\ file = journal.prelude
    /\ stream = << >>
    /\ prices = LoadPrices(journal.prices)
    /\ tol = DefaultTolerance
    /\ book = New(DefaultTolerance)
    /\ diags = {}

Write ==
    /\ phase = "writing"
    /\ Len(file) < journal.lines
    /\ \E d \in journal.directives : file' = Append(file, [d EXCEPT !.line = Len(file) + 1])
    /\ UNCHANGED <<journal, phase, stream, prices, tol, book, diags>>

DatedCostStep ==
    /\ phase = "writing"
    /\ phase' = "costed"
    /\ stream' = ExpandDatedCosts(file)
    /\ prices' = AddDatedCosts(prices, file)
    /\ UNCHANGED <<journal, file, tol, book, diags>>

(* The tolerance of a commodity: its last commodity directive's own, else  *)
(* the project's.                                                          *)
CommodityTolerances(s) ==
    [c \in Commodities |->
        LET declared == {i \in OfKind(s, "commodity") : s[i].comm = c}
        IN  IF declared # {} /\ s[Max(declared)].tol.kind = "set"
            THEN s[Max(declared)].tol.n ELSE Policy[c]]

AutoInterestStep ==
    /\ phase = "costed"
    /\ phase' = "padded"
    /\ stream' = ExpandAutoInterest(stream)
    /\ tol' = CommodityTolerances(stream)
    /\ diags' = diags \cup InvalidRates(stream) \cup AutoInterestDiags(stream)
    /\ UNCHANGED <<journal, file, prices, book>>

PadStep ==
    /\ phase = "padded"
    /\ phase' = "materialized"
    /\ stream' = ExpandPads(stream, tol)
    /\ UNCHANGED <<journal, file, prices, tol, book, diags>>

(* BookWithClosing: a stream without closing: TRUE is booked once. *)
BookStep ==
    /\ phase = "materialized" /\ ClosingPostings(stream) = {}
    /\ phase' = "open"
    /\ book' = Book(New(tol), stream)
    /\ diags' = diags \cup book'.diags
    /\ UNCHANGED <<journal, file, stream, prices, tol>>

(* With closing: TRUE, the journal of a first booking says what to close,  *)
(* interest accounts are padded once more, and all of it is booked anew.   *)
ProbeStep ==
    /\ phase = "materialized" /\ ClosingPostings(stream) # {}
    /\ phase' = "probed"
    /\ book' = Book(New(tol), stream)
    /\ UNCHANGED <<journal, file, stream, prices, tol, diags>>

CloseStep ==
    /\ phase = "probed"
    /\ phase' = "closed"
    /\ \E closed \in {ExpandClosing(stream, book.txns)} :
            /\ stream' = ExpandAutoInterest(closed)
            /\ diags' = diags \cup ClosingDiags(stream, book.txns) \cup AutoInterestDiags(closed)
    /\ UNCHANGED <<journal, file, prices, tol, book>>

RebookStep ==
    /\ phase = "closed"
    /\ phase' = "open"
    /\ book' = Book(New(tol), stream)
    /\ diags' = diags \cup book'.diags
    /\ UNCHANGED <<journal, file, stream, prices, tol>>

Next == \/ Write \/ DatedCostStep \/ AutoInterestStep \/ PadStep
        \/ BookStep \/ ProbeStep \/ CloseStep \/ RebookStep

Spec == Init /\ [][Next]_vars

----------------------------------------------------------------------------
Open == phase = "open"

Days == {stream[i].date : i \in DOMAIN stream}

FailedBalance(line) ==
    \E d \in diags : d.line = line /\ d.what = "balance failed"

HasError(line) == \E d \in diags : d.line = line /\ d.sev = "error"

(* Two reports of one ledger agree: the balances as of a day, booked anew  *)
(* from the stream, are what the journal posted up to that day.  (Where    *)
(* booking anew, at the engine's own tolerances, leaves no pad for an      *)
(* assertion of a later day, and posts what the ledger's tolerances did.)  *)
AsOfIsJournal ==
    /\ Open
    /\ PadTxns(stream, DefaultTolerance) = << >>
    /\ Book(New(DefaultTolerance), stream).txns = book.txns
    => \A D \in Days :
            BalancesAsOf(Ledger, D) =
                [a \in Accounts |-> [c \in Commodities |-> AccountActivity(Ledger, a, c, 0, D)]]

(* A chart of values over days: what holds on a day is the last point, and *)
(* nothing outside of the points.                                          *)
Charts(points, D, value) ==
    LET upto == {i \in DOMAIN points : points[i].date <= D}
    IN  IF upto = {} THEN value = Zero
        ELSE \/ value = points[Max(upto)].value
             \/ value = Zero /\ Max(upto) = Len(points) /\ points[Len(points)].date < D

(* On every day the net worth table's total is that of the last point of   *)
(* the chart.                                                              *)
ChartIsTable ==
    \A points \in {NetWorthSeries(Ledger, 0, Max(Days))} :
        \A D \in Days \cup {d \in PriceDays(Ledger) : d <= Max(Days)} :
            \A worth \in {NetWorth(Ledger, D)} : Charts(points, D, worth)

(* A pad left for an assertion of a later day takes from an asset account  *)
(* for one that is none.                                                   *)
PadsOutOfSight ==
    \E t \in ToSet(PadTxns(stream, DefaultTolerance)) :
        t.postings[1].acct \notin AssetAccounts /\ t.postings[2].acct \in AssetAccounts

(* The net worth chart and the net worth table agree, whatever moves net   *)
(* worth: postings, materialized pads, prices, the sale of all there was.  *)
(* (Except where the engine pads an account outside of net worth from one  *)
(* inside on a later assertion's day: series.go:187 gives that day no      *)
(* point, although the comment at series.go:23 promises one.)              *)
SeriesIsNetWorth == Open /\ stream # << >> /\ ~PadsOutOfSight => ChartIsTable

(* ExpandAutoInterest may run any number of times: an expanded stream has  *)
(* every pad it needs.                                                     *)
AutoInterestIdempotent ==
    phase \in {"padded", "open"} => ExpandAutoInterest(stream) = stream

(* A posting marked closing: TRUE closes its books: the first mark of an   *)
(* account and commodity leaves nothing of it after its day, or the line   *)
(* of the mark has an error.                                               *)
ClosingSettles ==
    Open => LET marks == Marks(stream, book.txns)
                first(k) == ~\E j \in 1..(k - 1) : /\ marks[j].acct = marks[k].acct
                                                   /\ marks[j].comm = marks[k].comm
                left(m)  == AccountActivity(Ledger, m.acct, m.comm, 0, m.date)
            IN  \A k \in DOMAIN marks :
                    first(k) /\ marks[k].comm # NoComm =>
                        \/ RLe(RAbs(left(marks[k])), tol[marks[k].comm])
                        \/ HasError(marks[k].line)

(* The commodities that some posting holds at a cost. *)
HeldAtCost(s) ==
    {p.units.comm : p \in {q \in UNION {ToSet(s[i].postings) : i \in OfKind(s, "txn")} :
                            q.units.kind = "amount" /\ (q.cost.kind # "none" \/ q.price.kind # "none")}}

(* Materializing pads changes when an amount is posted and not whether an  *)
(* assertion holds: the user's file, booked as it stands, fails the same   *)
(* assertions.  (Assertions on an account that pads are taken from see the *)
(* pad earlier than the probe did, and a pad of something held at a cost   *)
(* moves its lot only when it is a transaction, behind the file's own.)    *)
PadsKeepVerdicts ==
    /\ Open /\ InterestOpens(file) = {} /\ ClosingPostings(file) = {}
    /\ \A i \in OfKind(stream, "txn") :
            i > Len(file) => stream[i].postings[1].units.comm \notin HeldAtCost(file)
    => LET plain == Book(New(tol), file)
           sources == {file[i].from : i \in OfKind(file, "pad")}
       IN  \A i \in OfKind(file, "balance") :
               file[i].acct \notin sources =>
                   (FailedBalance(i) <=>
                       \E d \in plain.diags : d.line = i /\ d.what = "balance failed")

(* The days on which something asserts a balance of the account. *)
Asserted(a, i) ==
    \E j \in OfKind(stream, "balance") :
        /\ stream[j].acct = a /\ stream[j].line # i
        /\ stream[j].date - file[i].date \in {-1, 0, 1}

(* The bank's balance is the truth: an assertion on an interest account    *)
(* holds, the difference being interest.  (Where no other assertion of the *)
(* account is within a day, and the user padded nothing.)                  *)
InterestSettlesApart ==
    Open => \A i \in OfKind(file, "balance") :
        LET a == file[i].acct
        IN  /\ a \in InterestAccounts(file)
            /\ file[i].date >= InterestOpen(file, a).date
            /\ ~Asserted(a, i)
            /\ ~\E j \in OfKind(file, "pad") : file[j].acct = a
            => ~FailedBalance(i)

(* Every row of a tree is its account's own amount and the rows below it,  *)
(* and the first rows hold all there is.                                   *)
AddsUp(rows, flat) ==
    LET own(name) == SumOver({a \in DOMAIN flat : Path[a] = name}, LAMBDA a : flat[a])
        below(name) == {n \in DOMAIN rows : Len(n) = Len(name) + 1 /\ IsPrefix(name, n)}
        sum(names) == SumOver(names, LAMBDA n : rows[n])
    IN  /\ sum(below(<< >>)) = SumOver(DOMAIN flat, LAMBDA a : flat[a])
        /\ \A name \in DOMAIN rows : rows[name] = RAdd(own(name), sum(below(name)))

Splits(subs, rows) ==
    \A a \in {x[1] : x \in DOMAIN subs} :
        rows[Path[a]] = SumOver({x \in DOMAIN subs : x[1] = a}, LAMBDA x : subs[x])

(* The trees of net worth and of income add up to the reports they show:   *)
(* nothing is left out or counted twice, neither where an account has      *)
(* accounts below it nor where a sum of nothing has no row.                *)
TreesAddUp ==
    Open /\ stream # << >> =>
        \E D \in {Max(Days)} :
            /\ \E flat \in {Flat(Ledger, 0, D)} : AddsUp(Rollup(flat), flat)
            /\ \E bal \in {BalancesAsOf(Ledger, D)} : \E flat \in {Worth(prices, bal, D)} :
                  \E rows \in {Rollup(flat)} :
                    /\ AddsUp(rows, flat)
                    /\ Splits(SubRows(prices, bal, D, rows), rows)
                    /\ ValueOf(prices, bal, D) = SumOver(DOMAIN flat, LAMBDA a : flat[a])

(* What the transactions of a day write for an account is what was booked: *)
(* amounts only, and none of them skipped for what it oversells.           *)
BookedAsWritten(a, D) ==
    \A i \in OfKind(stream, "txn") :
        stream[i].date = D /\ (\E p \in ToSet(stream[i].postings) : p.acct = a)
        => /\ \A p \in ToSet(stream[i].postings) : p.acct = a => p.units.kind = "amount"
           /\ ~\E d \in diags : d.line = stream[i].line /\ d.what = "oversell"

(* The projection meets the books at every assertion, whatever the curve   *)
(* made of the days before: on its day both hold what was asserted and     *)
(* what was posted that day.  (In a ledger without errors, from the        *)
(* opening to the close, on an account that no pad is taken from, where    *)
(* what was posted that day is what is written.)                           *)
ProjectionAgrees ==
    Open /\ ~(\E d \in diags : d.sev = "error") =>
        \A i \in OfKind(stream, "balance") :
            LET d == stream[i]
            IN  /\ d.acct \in InterestAccounts(stream)
                /\ \A j \in Entries(stream, d.acct) : stream[j].date >= InterestOpen(stream, d.acct).date
                /\ d.date <= Horizon(stream, d.acct, d.date)
                /\ ~\E j \in OfKind(stream, "pad") : stream[j].from = d.acct
                /\ BookedAsWritten(d.acct, d.date)
                => RWithin(ProjectedUnits(stream, d.acct, d.date)[d.comm],
                           AccountActivity(Ledger, d.acct, d.comm, 0, d.date), tol[d.comm])

(* balances_tree.go:22: the tree has all non-zero balances.  (An account   *)
(* that has accounts below it has a row without its own.)                  *)
BalancesTreeShowsAll ==
    Open /\ stream # << >> =>
        \E bal \in {BalancesAsOf(Ledger, Max(Days))} : \E tree \in {BalancesTree(bal)} :
            \A a \in Accounts : \A c \in Held(bal, a) : <<c, bal[a][c]>> \in tree[Path[a]]
=============================================================================
