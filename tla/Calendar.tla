------------------------------ MODULE Calendar ------------------------------
(***************************************************************************)
(* Go's time package as the code of internal/period and internal/engine    *)
(* uses it: a date is the number of days since 0001-01-01, the zero time,  *)
(* a Monday of the proleptic Gregorian calendar.                           *)
(***************************************************************************)
EXTENDS Integers, FiniteSetsExt

Zero == 0

Leap(y) == y % 4 = 0 /\ (y % 100 # 0 \/ y % 400 = 0)

(* The days before the first of January of a year. *)
DaysBefore(y) ==
    LET n == y - 1 IN 365 * n + n \div 4 - n \div 100 + n \div 400

MonthDays == <<31, 28, 31, 30, 31, 30, 31, 31, 30, 31, 30, 31>>
MonthLength(y, m) == IF m = 2 /\ Leap(y) THEN 29 ELSE MonthDays[m]

DaysBeforeMonth(y, m) ==
    <<0, 31, 59, 90, 120, 151, 181, 212, 243, 273, 304, 334>>[m]
        + (IF m > 2 /\ Leap(y) THEN 1 ELSE 0)

(* time.Date: months and days beyond their range run over into the next. *)
Date(y, m, d) ==
    LET year == y + (m - 1) \div 12
        month == ((m - 1) % 12) + 1
    IN  DaysBefore(year) + DaysBeforeMonth(year, month) + d - 1

Year(t) ==
    CHOOSE y \in (t \div 366) - 1..(t \div 365) + 1 :
        DaysBefore(y) <= t /\ t < DaysBefore(y + 1)

(* The year, month and day of a date: of the n-th day of a year. *)
MonthOf(y, n) ==
    CHOOSE m \in 1..12 :
        DaysBeforeMonth(y, m) <= n /\ n < DaysBeforeMonth(y, m) + MonthLength(y, m)
CivilOn(y, m, n) == [year |-> y, month |-> m, day |-> n - DaysBeforeMonth(y, m) + 1]
CivilIn(y, n) == CivilOn(y, MonthOf(y, n), n)
CivilFrom(y, t) == CivilIn(y, t - DaysBefore(y))
Civil(t) == CivilFrom(Year(t), t)

Moved(c, years, months, days) == Date(c.year + years, c.month + months, c.day + days)
AddDate(t, years, months, days) == Moved(Civil(t), years, months, days)

Weekday(t) == (t + 1) % 7     \* Sunday is 0

(* The year and the number of a date's ISO week: those of its Thursday.    *)
WeekIn(y, thursday) == [year |-> y, week |-> ((thursday - DaysBefore(y)) \div 7) + 1]
WeekOf(thursday) == WeekIn(Year(thursday), thursday)
ISOWeek(t) == WeekOf(t - (t % 7) + 3)
=============================================================================
