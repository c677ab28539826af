------------------------------- MODULE Expand -------------------------------
(***************************************************************************)
(* The expanders of internal/booking that rewrite a ledger's stream before *)
(* it is booked: dated costs become prices, interest accounts get pads,    *)
(* pads become transactions, closing: TRUE becomes a zero assertion and a  *)
(* close.  A stream is a sequence of directives in file order; dates are   *)
(* days, and a synthetic directive keeps the line it comes from.           *)
(***************************************************************************)
EXTENDS Booking, SequencesExt

CONSTANTS Income,  \* [Accounts -> Accounts], IncomePassivoAccount
          Rank     \* [Commodities -> Nat], the alphabetical order of the names

ASSUME IncomeAssumption == Income \in [Accounts -> Accounts]
ASSUME RankAssumption ==
    Rank \in [Commodities -> Nat] /\ \A b, c \in Commodities : Rank[b] = Rank[c] => b = c

INSTANCE Prices

(* op of x; TLC evaluates x once. *)
With(x, op(_)) == CHOOSE y \in {op(z) : z \in {x}} : TRUE

(* op over s from the left; TLC evaluates s and each accumulator once. *)
FoldOnce(op(_, _), base, s) ==
    LET fold(seq) ==
            LET run[i \in 0..Len(seq)] ==
                    IF i = 0 THEN {base}
                    ELSE {op(acc, x) : acc \in run[i - 1], x \in {seq[i]}}
            IN  run[Len(seq)]
    IN  CHOOSE last \in UNION {fold(seq) : seq \in {s}} : TRUE

OfKind(s, kind) == {i \in DOMAIN s : s[i].kind = kind}

Before(s, i, j) ==
    LET rank(k) == DirectiveOrder(s[k].kind)
    IN  \/ s[i].date < s[j].date
        \/ s[i].date = s[j].date /\ rank(i) < rank(j)
        \/ s[i].date = s[j].date /\ rank(i) = rank(j) /\ s[i].line < s[j].line
        \/ s[i].date = s[j].date /\ rank(i) = rank(j) /\ s[i].line = s[j].line /\ i < j

SortedDirectives(s) ==
    [k \in DOMAIN s |->
        s[CHOOSE i \in DOMAIN s : Cardinality({j \in DOMAIN s : Before(s, j, i)}) = k - 1]]

Book(e, s) == FoldOnce(BookDirective, e, SortedDirectives(s))

----------------------------------------------------------------------------
(* ExpandDatedCosts *)

PriceOf(t, p) ==
    [kind |-> "price", date |-> p.cost.date, line |-> t.line, base |-> p.units.comm,
     n |-> p.cost.n, quote |-> p.cost.comm]

(* The prices that the postings with a dated cost name, in stream order. *)
DatedCosts(s) ==
    LET dated(p) == /\ p.cost.kind = "unit" /\ p.cost.date # NoDate
                    /\ p.units.kind \in {"amount", "noNumber"}
        named(t) == FlattenSeq([j \in DOMAIN t.postings |->
                        IF dated(t.postings[j]) THEN <<PriceOf(t, t.postings[j])>> ELSE << >>])
    IN  FlattenSeq([i \in DOMAIN s |-> IF s[i].kind = "txn" THEN named(s[i]) ELSE << >>])

SamePoint(p, q) == p.date = q.date /\ p.base = q.base /\ p.quote = q.quote

(* Those the stream has no price directive for yet, each day's first only. *)
NewPrices(s) ==
    LET found == DatedCosts(s)
        fresh(k) == /\ ~\E i \in OfKind(s, "price") : SamePoint(s[i], found[k])
                    /\ ~\E j \in 1..(k - 1) : SamePoint(found[j], found[k])
    IN  FlattenSeq([k \in DOMAIN found |-> IF fresh(k) THEN <<found[k]>> ELSE << >>])

ExpandDatedCosts(s) == s \o NewPrices(s)

(* The shared database takes the injected prices over what it had. *)
AddDatedCosts(db, s) ==
    FoldOnce(LAMBDA acc, p : AddPoint(acc, p.base, p.quote, p.date, p.n), db, NewPrices(s))

----------------------------------------------------------------------------
(* ExpandAutoInterest *)

(* The opens of interest accounts; the last one of an account counts. *)
InterestOpens(s) == {i \in OfKind(s, "open") : s[i].rate = "valid"}

InterestAccounts(s) == {s[i].acct : i \in InterestOpens(s)}

InterestOpen(s, a) == s[Max({i \in InterestOpens(s) : s[i].acct = a})]

(* In the order of their first opens, an open for every missing Income;    *)
(* accounts that share one have the first's.                               *)
IncomeOpens(s) ==
    LET opened == {s[i].acct : i \in OfKind(s, "open")}
        first(i) == /\ i \in InterestOpens(s) /\ Income[s[i].acct] \notin opened
                    /\ ~\E j \in InterestOpens(s) : j < i /\ Income[s[j].acct] = Income[s[i].acct]
        incomeOpen(o) == [o EXCEPT !.acct = Income[o.acct], !.rate = "none"]
    IN  FlattenSeq([i \in DOMAIN s |->
            IF first(i) THEN <<incomeOpen(InterestOpen(s, s[i].acct))>> ELSE << >>])

(* A pad the day before d, or on the opening day. *)
AutoInterestPad(s, d) ==
    [kind |-> "pad", date |-> Max({d.date - 1, InterestOpen(s, d.acct).date}), line |-> d.line,
     acct |-> d.acct, from |-> Income[d.acct]]

ZeroBalance(d, c) ==
    [kind |-> "balance", date |-> d.date, line |-> d.line, acct |-> d.acct,
     n |-> Zero, comm |-> c]

(* acc.pending: accounts with a pad since their last balance, in file      *)
(* order; acc.zeroed: account and commodity asserted to be zero somewhere. *)
Emit(acc, ds) == [acc EXCEPT !.out = @ \o ds]

PadUnlessPending(s, acc, d) ==
    IF d.acct \in acc.pending THEN << >> ELSE <<AutoInterestPad(s, d)>>

(* Mutant: a pad of the user's own is not looked for. *)
MutPadBalance(s, acc, d) == Emit(acc, <<AutoInterestPad(s, d), d>>)

(* Mutant: the pad of an earlier balance still counts. *)
MutKeepPending(s, acc, d) ==
    [Emit(acc, PadUnlessPending(s, acc, d) \o <<d>>) EXCEPT !.pending = @ \cup {d.acct}]

PadBalance(s, acc, d) ==
    [Emit(acc, PadUnlessPending(s, acc, d) \o <<d>>) EXCEPT !.pending = @ \ {d.acct}]

(* Before a close, a padded zero assertion per currency that has none. *)
PadClose(s, acc, d) ==
    LET settle(done, c) ==
            IF <<d.acct, c>> \in done.zeroed THEN done
            ELSE [Emit(done, PadUnlessPending(s, done, d) \o <<ZeroBalance(d, c)>>)
                    EXCEPT !.pending = @ \ {d.acct}, !.zeroed = @ \cup {<<d.acct, c>>}]
    IN  Emit(FoldOnce(settle, acc, InterestOpen(s, d.acct).ccys), <<d>>)

PadDirective(s, acc, d) ==
    CASE d.kind = "pad" -> [Emit(acc, <<d>>) EXCEPT !.pending = @ \cup {d.acct}]
      [] d.kind = "balance" /\ d.acct \in InterestAccounts(s) -> PadBalance(s, acc, d)
      [] d.kind = "close" /\ d.acct \in InterestAccounts(s)   -> PadClose(s, acc, d)
      [] OTHER -> Emit(acc, <<d>>)

ExpandAutoInterest(s) ==
    LET zeroed == {<<s[i].acct, s[i].comm>> : i \in {k \in OfKind(s, "balance") : s[k].n = Zero}}
        start  == [out |-> << >>, pending |-> {}, zeroed |-> zeroed]
        pad(acc, d) == PadDirective(s, acc, d)
    IN  FoldOnce(pad, start, IncomeOpens(s) \o s).out

AutoInterestDiags(s) ==
    {Warn(s[i].line, "no currencies on open", s[i].acct) :
        i \in {k \in OfKind(s, "close") : /\ s[k].acct \in InterestAccounts(s)
                                          /\ InterestOpen(s, s[k].acct).ccys = << >>}}

InvalidRates(s) ==
    {Error(s[i].line, "invalid interest_rate", s[i].acct) :
        i \in {k \in OfKind(s, "open") : s[k].rate = "invalid"}}

----------------------------------------------------------------------------
(* ExpandPads *)

Bare(a, n, c) ==
    [acct |-> a, units |-> [kind |-> "amount", n |-> n, comm |-> c],
     cost |-> [kind |-> "none"], price |-> [kind |-> "none"], closing |-> FALSE]

PadTxn(pad, b, diff) ==
    [kind |-> "txn", date |-> pad.date, line |-> pad.line, flag |-> "P",
     postings |-> <<Bare(b.acct, diff, b.comm), Bare(pad.from, RNeg(diff), b.comm)>>]

(* Mutant: a pad of the day itself is materialized as well. *)
MutMaterializes(probe, d) ==
    d.kind = "balance" /\ ~AssertionHolds(probe, d) /\ probe.pad[d.acct] # NoPad

(* An assertion that fails in the probe and has a pad of an earlier day. *)
Materializes(probe, d) ==
    /\ d.kind = "balance"
    /\ ~AssertionHolds(probe, d)
    /\ probe.pad[d.acct] # NoPad
    /\ probe.pad[d.acct].date # d.date

PadTxns(s, tolerance) ==
    LET step(acc, d) ==
            [probe |-> BookDirective(acc.probe, d),
             synth |-> IF Materializes(acc.probe, d)
                       THEN Append(acc.synth, PadTxn(acc.probe.pad[d.acct], d,
                                    RSub(d.n, acc.probe.bal[d.acct][d.comm])))
                       ELSE acc.synth]
    IN  FoldOnce(step, [probe |-> New(tolerance), synth |-> << >>], SortedDirectives(s)).synth

ExpandPads(s, tolerance) == s \o PadTxns(s, tolerance)

----------------------------------------------------------------------------
(* ExpandClosing *)

ClosingPostings(s) ==
    UNION {{<<i, j>> : j \in {p \in DOMAIN s[i].postings : s[i].postings[p].closing}}
           : i \in OfKind(s, "txn")}

(* The directive a booked entry comes from, unless the engine padded. *)
SourceOf(s, entry) ==
    {i \in OfKind(s, "txn") : /\ s[i].line = entry.line /\ s[i].flag = entry.flag
                             /\ DOMAIN s[i].postings = DOMAIN entry.legs}

(* The commodities a booked leg moves: its own, or the residual's. *)
LegCommodities(posting, leg) ==
    IF posting.units.kind = "amount" THEN {posting.units.comm}
    ELSE {c \in Commodities : leg.amts[c] # Zero}

(* Commodities in the alphabetical order of their names. *)
ByName(comms) ==
    [k \in 1..Cardinality(comms) |->
        CHOOSE c \in comms : Cardinality({b \in comms : Rank[b] < Rank[c]}) = k - 1]

(* The booked legs marked closing, in journal order; comm NoComm when the  *)
(* commodity cannot be inferred.                                           *)
Marks(s, journal) ==
    LET mark(entry, leg, c) == [acct |-> leg.acct, comm |-> c, date |-> entry.date,
                                line |-> entry.line]
        legMarks(entry, i, j) ==
            LET moved == LegCommodities(s[i].postings[j], entry.legs[j])
            IN  IF ~s[i].postings[j].closing THEN << >>
                ELSE IF moved = {} THEN <<mark(entry, entry.legs[j], NoComm)>>
                ELSE [k \in 1..Cardinality(moved) |-> mark(entry, entry.legs[j], ByName(moved)[k])]
        marks(entry) == FlattenSeq([j \in DOMAIN entry.legs |->
                            IF SourceOf(s, entry) = {} THEN << >>
                            ELSE legMarks(entry, Min(SourceOf(s, entry)), j)])
    IN  FlattenSeq([k \in DOMAIN journal |-> marks(journal[k])])

CloseNextDay(m) == [kind |-> "close", date |-> m.date + 1, line |-> m.line, acct |-> m.acct]

Closed(s) == {s[i].acct : i \in OfKind(s, "close")}

ZeroNextDay(m) == ZeroBalance([m EXCEPT !.date = @ + 1], m.comm)

(* Mutant: an account that has a close of its own is left alone. *)
MutClosingDirectives(s, marks) ==
    FlattenSeq([k \in DOMAIN marks |->
        IF marks[k].comm # NoComm /\ marks[k].acct \notin Closed(s)
        THEN <<ZeroNextDay(marks[k]), CloseNextDay(marks[k])>> ELSE << >>])

(* The first mark of an account and commodity asserts zero, the first of   *)
(* an account that has no close of its own closes it, both the day after.  *)
ClosingDirectives(s, marks) ==
    LET asserts(k) == /\ marks[k].comm # NoComm
                      /\ ~\E j \in 1..(k - 1) : /\ marks[j].acct = marks[k].acct
                                                /\ marks[j].comm = marks[k].comm
        closes(k)  == /\ marks[k].comm # NoComm /\ marks[k].acct \notin Closed(s)
                      /\ ~\E j \in 1..(k - 1) : /\ marks[j].acct = marks[k].acct
                                                /\ marks[j].comm # NoComm
    IN  FlattenSeq([k \in DOMAIN marks |->
            (IF asserts(k) THEN <<ZeroNextDay(marks[k])>> ELSE << >>)
            \o (IF closes(k) THEN <<CloseNextDay(marks[k])>> ELSE << >>)])

ExpandClosing(s, journal) == s \o ClosingDirectives(s, Marks(s, journal))

ClosingDiags(s, journal) ==
    LET marks == Marks(s, journal)
        handled(k) == \E i \in DOMAIN marks :
            marks[i].line = s[k[1]].line /\ marks[i].acct = s[k[1]].postings[k[2]].acct
    IN  {Error(marks[i].line, "could not infer commodity", marks[i].acct) :
            i \in {k \in DOMAIN marks : marks[k].comm = NoComm}}
        \cup {Warn(marks[i].line, "close already written", marks[i].acct) :
            i \in {k \in DOMAIN marks : marks[k].comm # NoComm /\ marks[k].acct \in Closed(s)}}
        \cup {Error(s[k[1]].line, "posting not booked", s[k[1]].postings[k[2]].acct) :
            k \in {l \in ClosingPostings(s) : ~handled(l)}}
=============================================================================
