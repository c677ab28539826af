------------------------------ MODULE MCPeriod ------------------------------
(***************************************************************************)
(* Small instances of Period, around the ends of years with 52 and 53 ISO  *)
(* weeks, of leap years and of short months.                               *)
(***************************************************************************)
EXTENDS Period

MCDates == {Date(2020, 12, 31), Date(2024, 2, 28), Date(2024, 12, 28), Date(2023, 5, 30)}

Flow(date, income, expense) == [date |-> date, income |-> income, expense |-> expense]
MCFlows == <<Flow(Date(2020, 12, 28), 5, 0), Flow(Date(2020, 12, 31), 0, 3),
             Flow(Date(2021, 1, 1), 2, 2), Flow(Date(2021, 1, 3), 1, 0), Flow(Date(2021, 1, 4), 0, 1),
             Flow(Date(2024, 2, 29), 7, 1), Flow(Date(2024, 3, 1), 4, 0),
             Flow(Date(2024, 3, 1), -4, 0), Flow(Date(2024, 12, 31), 0, 6),
             Flow(Date(2025, 1, 5), 9, 0), Flow(Date(2025, 1, 6), 0, 8)>>

Year_(y) == Absolute("year", y, 0, 0)
Month_(y, m) == Absolute("month", y, m, 0)
Day_(y, m, d) == Absolute("day", y, m, d)

Tokens ==
    {Year_(2020), Year_(2024), Month_(2024, 2), Month_(2024, 13), Absolute("quarter", 2024, 4, 0),
     Absolute("week", 2020, 53, 0), Absolute("week", 2021, 53, 0), Absolute("week", 2025, 1, 0),
     Absolute("week", 2025, 54, 0), Day_(2024, 2, 29), Day_(2023, 2, 29), Day_(2024, 12, 31),
     Year_(1), Junk}
    \cup {Relative(unit, offset) : unit \in Units, offset \in {-1, 0, 1}}
MCOffsets == {-13, -5, -1, 0, 1, 3, 53}
Lefts == {Year_(2020), Month_(2024, 2), Day_(2024, 12, 31), Relative("month", -1)}
Rights == {Year_(2024), Month_(2024, 3), Day_(2025, 1, 5), Relative("day", 0)}
MCTyped == Tokens \cup {Between(a, b) : a \in Lefts, b \in Rights}
=============================================================================
