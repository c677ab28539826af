------------------------------- MODULE Period -------------------------------
(***************************************************************************)
(* Time filters and the charts made of them: internal/period (period.go,   *)
(* nav.go, bins.go), PnLBars of internal/engine/series.go and the time     *)
(* query of a page of internal/web.                                        *)
(*                                                                         *)
(* A filter is a parsed token: a year, quarter, month, week or day with    *)
(* its numbers, a unit relative to today, a range of two tokens, the empty *)
(* filter or junk.  A reader types filters and moves through time with     *)
(* Shift and SetInterval, while days pass.                                 *)
(***************************************************************************)
EXTENDS Calendar, SequencesExt

CONSTANTS Flows,       \* booked transactions: [date, income, expense]
          Dates,         \* the dates on which the reading may begin
          Typed,          \* the filters a reader types
          Offsets,         \* the offsets of relative filters
          MaxMoves,        \* bounds: moves through time
          MaxDays           \* and days that pass

VARIABLES now,         \* today
          filter,        \* what the page's time field says
          page,           \* the page last shown
          moves, days

vars == <<now, filter, page, moves, days>>

Units == {"year", "quarter", "month", "week", "day"}
Empty == [form |-> "empty"]
Junk == [form |-> "junk"]
Absolute(form, y, n, d) == [form |-> form, year |-> y, n |-> n, day |-> d]
Relative(unit, offset) == [form |-> "relative", unit |-> unit, offset |-> offset]
Between(left, right) == [form |-> "range", left |-> left, right |-> right]

(* What the patterns of a token admit, and the filters made of tokens.     *)
FourDigits == 0..9999
TokenFilters ==
    [form : Units, year : FourDigits, n : Int, day : Int]
        \cup [form : {"relative"}, unit : Units, offset : Int] \cup {Junk}
Filters == TokenFilters \cup {Empty} \cup [form : {"range"}, left : TokenFilters, right : TokenFilters]

ASSUME FiltersAssumption ==
    /\ Typed \subseteq Filters
    /\ Offsets \subseteq Int

ASSUME FlowsAssumption == Flows \in Seq([date : Int, income : Int, expense : Int])

----------------------------------------------------------------------------
(* period.go *)

Length == [year |-> [years |-> 1, months |-> 0, days |-> 0],
           quarter |-> [years |-> 0, months |-> 3, days |-> 0],
           month |-> [years |-> 0, months |-> 1, days |-> 0],
           week |-> [years |-> 0, months |-> 0, days |-> 7],
           day |-> [years |-> 0, months |-> 0, days |-> 1]]

Plus(t, unit, n) ==
    AddDate(t, n * Length[unit].years, n * Length[unit].months, n * Length[unit].days)

Monday(t) == t + 1 - (IF Weekday(t) = 0 THEN 7 ELSE Weekday(t))

(* The fourth of January is in week 1. *)
IsoWeekStart(year, week) == Monday(Date(year, 1, 4)) + 7 * (week - 1)

Quarter(month) == ((month - 1) \div 3) + 1

(* The first day of the unit that a date is in: of its civil date or of   *)
(* its ISO week.                                                           *)
FirstOf(unit, c, week) ==
    CASE unit = "year" -> Date(c.year, 1, 1)
      [] unit = "quarter" -> Date(c.year, 1 + 3 * (Quarter(c.month) - 1), 1)
      [] unit = "month" -> Date(c.year, c.month, 1)
      [] unit = "week" -> IsoWeekStart(week.year, week.week)
      [] unit = "day" -> Date(c.year, c.month, c.day)

First(unit, t) == FirstOf(unit, Civil(t), ISOWeek(t))

(* The interval of one unit from a date. *)
Lasting(unit, start) == [ok |-> TRUE, start |-> start, end |-> Plus(start, unit, 1) - 1]
Invalid == [ok |-> FALSE, start |-> Zero, end |-> Zero]

(* Mutant: units are counted from today, which may be a day a month lacks. *)
MutResolve(unit, offset, today) == Lasting(unit, First(unit, Plus(today, unit, offset)))

Resolve(unit, offset, today) == Lasting(unit, Plus(First(unit, today), unit, offset))

ValidToken(f) ==
    CASE f.form = "day" -> f.n \in 1..12 /\ f.day \in 1..MonthLength(f.year, f.n)
      [] f.form = "week" -> f.n \in 1..53
      [] f.form = "month" -> f.n \in 1..12
      [] OTHER -> TRUE

ParseOne(f, today) ==
    IF f.form \in {"empty", "junk", "range"} THEN Invalid
    ELSE IF f.form = "relative" THEN Resolve(f.unit, f.offset, today)
    ELSE IF ~ValidToken(f) THEN Invalid
    ELSE Lasting(f.form,
            CASE f.form = "day" -> Date(f.year, f.n, f.day)
              [] f.form = "week" -> IsoWeekStart(f.year, f.n)
              [] f.form = "month" -> Date(f.year, f.n, 1)
              [] f.form = "quarter" -> Date(f.year, 1 + 3 * (f.n - 1), 1)
              [] f.form = "year" -> Date(f.year, 1, 1))

(* Inclusive; the zero time on a side leaves it open. *)
Joined(a, b) ==
    IF a.ok /\ b.ok /\ (a.start = Zero \/ b.end = Zero \/ a.start <= b.end)
    THEN [ok |-> TRUE, start |-> a.start, end |-> b.end] ELSE Invalid

Parse(f, today) ==
    CASE f.form = "empty" -> [ok |-> TRUE, start |-> Zero, end |-> Zero]
      [] f.form = "range" -> Joined(ParseOne(f.left, today), ParseOne(f.right, today))
      [] OTHER -> ParseOne(f, today)

----------------------------------------------------------------------------
(* nav.go *)

Kind(f) ==
    CASE f.form = "empty" -> ""
      [] f.form \in {"range", "junk"} -> "custom"
      [] f.form = "relative" -> f.unit
      [] OTHER -> f.form

(* Mutant: the number of the ISO week with the calendar year. *)
MutToken(kind, c, week) ==
    CASE kind = "year" -> Absolute("year", c.year, 0, 0)
      [] kind = "quarter" -> Absolute("quarter", c.year, Quarter(c.month), 0)
      [] kind = "week" -> Absolute("week", c.year, week.week, 0)
      [] kind = "day" -> Absolute("day", c.year, c.month, c.day)
      [] OTHER -> Absolute("month", c.year, c.month, 0)

Token(kind, c, week) ==
    CASE kind = "year" -> Absolute("year", c.year, 0, 0)
      [] kind = "quarter" -> Absolute("quarter", c.year, Quarter(c.month), 0)
      [] kind = "week" -> Absolute("week", week.year, week.week, 0)
      [] kind = "day" -> Absolute("day", c.year, c.month, c.day)
      [] OTHER -> Absolute("month", c.year, c.month, 0)

(* The filter of a kind that covers a date; years are written with four    *)
(* digits, and no other filter has more.                                   *)
Readable(f) == IF f.year \in FourDigits THEN f ELSE Junk
At(kind, t) == Readable(Token(kind, Civil(t), ISOWeek(t)))

StartOf(r, today) == IF ~r.ok \/ r.start = Zero THEN today ELSE r.start
AnchorDate(f, today) == StartOf(Parse(f, today), today)

SetInterval(f, today, kind) ==
    IF kind = "" THEN Empty ELSE At(kind, AnchorDate(f, today))

(* A period moved by steps of its kind. *)
Step(kind, r, delta) == At(kind, Plus(r.start, kind, delta))

(* The length of a range is taken from a time.Duration, of 64 bits of       *)
(* nanoseconds, which holds this many whole days.                          *)
LongestSpan == 106751
SpanOf(r) == IF r.end - r.start < LongestSpan THEN r.end - r.start ELSE LongestSpan

(* Mutant: the days between start and end are taken for the days of the    *)
(* range.                                                                  *)
MutRangeFrom(start, r) ==
    IF r.end = Zero THEN At("day", start)
    ELSE Between(At("day", start), At("day", start + SpanOf(r) - 1))

(* A range moves by months of its start and keeps its length. *)
RangeFrom(start, r) ==
    IF r.end = Zero THEN At("day", start)
    ELSE Between(At("day", start), At("day", start + SpanOf(r)))

Refused == [ok |-> FALSE, filter |-> Empty]

ShiftPeriod(f, r, delta) ==
    IF ~r.ok \/ r.start = Zero THEN Refused
    ELSE [ok |-> TRUE,
          filter |-> IF Kind(f) = "custom" THEN RangeFrom(Plus(r.start, "month", delta), r)
                     ELSE Step(Kind(f), r, delta)]

Shift(f, today, delta) ==
    IF f.form = "empty" THEN ShiftPeriod(At("month", today), Resolve("month", 0, today), delta)
    ELSE ShiftPeriod(f, Parse(f, today), delta)

----------------------------------------------------------------------------
(* bins.go *)

BinFromSpan(r) ==
    CASE r.start = Zero \/ r.end = Zero -> "month"
      [] Year(r.end) - Year(r.start) >= 2 -> "year"
      [] r.end < Plus(r.start, "month", 2) -> "day"
      [] OTHER -> "month"

ChartBin(f, r) ==
    CASE Kind(f) \in {"day", "week", "month"} -> "day"
      [] Kind(f) \in {"quarter", "year"} -> "month"
      [] OTHER -> BinFromSpan(r)

StartOfBin(t, kind) == IF kind = "week" THEN Monday(t) ELSE First(kind, t)
NextBin(start, kind) == Plus(start, kind, 1)

MaxBins == 5001
Capped(bins) == SubSeq(bins, 1, Min({Len(bins), MaxBins}))

(* Mutant: the last bin ends with its calendar unit, not with the range. *)
MutBinAt(cur, r, kind) ==
    [start |-> Max({cur, r.start}), end |-> NextBin(cur, kind) - 1]

BinAt(cur, r, kind) ==
    [start |-> Max({cur, r.start}), end |-> Min({NextBin(cur, kind) - 1, r.end})]

IterateBins(r, kind) ==
    LET from[cur \in Nat] ==
            IF cur > r.end THEN << >>
            ELSE <<BinAt(cur, r, kind)>> \o from[NextBin(cur, kind)]
    IN  IF r.start = Zero \/ r.end = Zero \/ r.start > r.end THEN << >>
        ELSE Capped(from[StartOfBin(r.start, kind)])

----------------------------------------------------------------------------
(* series.go *)

Within(bin) == {i \in DOMAIN Flows : Flows[i].date >= bin.start /\ Flows[i].date <= bin.end}

Total(amounts, places) == MapThenSumSet(LAMBDA i : amounts[i], places)

Income(flows) == [i \in DOMAIN flows |-> flows[i].income]
Expense(flows) == [i \in DOMAIN flows |-> flows[i].expense]

Bar(bin) ==
    [start |-> bin.start, end |-> bin.end,
     income |-> Total(Income(Flows), Within(bin)),
     expense |-> Total(Expense(Flows), Within(bin))]

BarEmpty(bar) == bar.income = 0 /\ bar.expense = 0

TrimEmptyEdgeBars(bars) ==
    LET full == {i \in DOMAIN bars : ~BarEmpty(bars[i])}
    IN  IF full = {} THEN << >> ELSE SubSeq(bars, Min(full), Max(full))

(* An open side reaches to the first or to the last transaction. *)
Clamped(r) ==
    LET dates == {Flows[i].date : i \in DOMAIN Flows}
    IN  [r EXCEPT !.start = IF @ = Zero THEN Min(dates) ELSE @,
                  !.end = IF @ = Zero THEN Max(dates) ELSE @]

Bars(bins) == TrimEmptyEdgeBars([i \in DOMAIN bins |-> Bar(bins[i])])

PnLBars(r, kind) ==
    IF (r.start = Zero \/ r.end = Zero) /\ Flows = << >> THEN << >>
    ELSE Bars(IterateBins(Clamped(r), kind))

----------------------------------------------------------------------------
(* What the income page shows for a filter on a day. *)
PageOf(f, r) ==
    [filter |-> f, range |-> r, bars |-> IF r.ok THEN PnLBars(r, ChartBin(f, r)) ELSE << >>]
Shown(f, today) == PageOf(f, Parse(f, today))

Init ==
    /\ now \in Dates
    /\ filter = Empty
    /\ page = Shown(Empty, now)
    /\ moves = 0 /\ days = 0

Go(f) ==
    /\ filter' = f
    /\ page' = Shown(f, now)
    /\ UNCHANGED <<now, days>>

Type == moves = 0 /\ moves' = 1 /\ \E f \in Typed : Go(f)

Move ==
    /\ moves < MaxMoves
    /\ moves' = moves + 1
    /\ \E delta \in {-1, 1} :
          \E to \in {Shift(filter, now, delta)} : to.ok /\ Go(to.filter)

Choose ==
    /\ moves < MaxMoves
    /\ moves' = moves + 1
    /\ \E kind \in Units \cup {""} : Go(SetInterval(filter, now, kind))

(* The page stays as it was made. *)
DayPasses ==
    /\ days < MaxDays
    /\ days' = days + 1
    /\ now' = now + 1
    /\ UNCHANGED <<filter, page, moves>>

Next == Type \/ Move \/ Choose \/ DayPasses

Spec == Init /\ [][Next]_vars

----------------------------------------------------------------------------
InRange(t, r) == (r.start = Zero \/ r.start <= t) /\ (r.end = Zero \/ t <= r.end)

(* The bars of a page hold every flow of its range, each once: their sums  *)
(* are those of the range, however it is binned, clamped and trimmed.      *)
BarsAddUp ==
    page.range.ok =>
        LET flows == {i \in DOMAIN Flows : InRange(Flows[i].date, page.range)}
            bars == DOMAIN page.bars
        IN  /\ Total(Income(page.bars), bars) = Total(Income(Flows), flows)
            /\ Total(Expense(page.bars), bars) = Total(Expense(Flows), flows)

(* One step forward leads to the period that begins where this one ends,   *)
(* and one step back from there to this one; a range of at most            *)
(* LongestSpan days keeps its length.                                      *)
Follows(kind, there, here, back) ==
    /\ there.ok
    /\ IF kind = "custom"
       THEN here.end - here.start \in 0..LongestSpan => there.end - there.start = here.end - here.start
       ELSE there.start = here.end + 1 /\ back = here

Walks ==
    \E f \in {IF filter = Empty THEN At("month", now) ELSE filter} :
       \E there \in {Shift(f, now, 1)} :
           there.ok => Follows(Kind(f), Parse(there.filter, now), Parse(f, now),
                               Parse(Shift(there.filter, now, -1).filter, now))

(* The periods of a kind divide the calendar: the one that covers a date   *)
(* is the one of its first and of its last day, and of no day next to it.  *)
Covers(kind, f, r, t) ==
    /\ r.ok /\ InRange(t, r)
    /\ \A day \in {r.start, r.end} : At(kind, day) = f
    /\ \A day \in {r.start - 1, r.end + 1} : At(kind, day) # f

PeriodsPartition ==
    \A kind \in Units : \E f \in {SetInterval(filter, now, kind)} :
        Covers(kind, f, Parse(f, now), AnchorDate(filter, now))

(* A relative filter is the period around today moved by as many steps.    *)
RelativeAgrees ==
    \A unit \in Units, offset \in Offsets :
        Parse(Relative(unit, offset), now) = Parse(Shift(At(unit, now), now, offset).filter, now)
=============================================================================
