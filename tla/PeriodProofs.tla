---------------------------- MODULE PeriodProofs ----------------------------
(***************************************************************************)
(* Proofs about time filters, for any filters a reader types, any days and *)
(* any number of moves, as long as years keep to four digits.              *)
(***************************************************************************)
EXTENDS Period, TLAPS, WellFoundedInduction, FiniteSetTheorems

----------------------------------------------------------------------------
(* Years *)

LEMMA LeastNat ==
    ASSUME NEW S \in SUBSET Nat, S # {}
    PROVE  \E n \in S : \A m \in S : n <= m
<1>1. PICK n \in S : \A m \in S : ~(<<m, n>> \in OpToRel(<, Nat))
    BY NatLessThanWellFounded, WFMin
<1>2. ASSUME NEW m \in S
      PROVE  n <= m
    <2>1. ~(m < n)
        BY <1>1 DEF OpToRel
    <2>2. m \in Nat /\ n \in Nat
        OBVIOUS
    <2>3. QED
        BY <2>1, <2>2
<1>3. QED
    BY <1>2

LEMMA YearLength ==
    ASSUME NEW y \in Int
    PROVE  /\ DaysBefore(y) \in Int
           /\ DaysBefore(y + 1) = DaysBefore(y) + 365 + (IF Leap(y) THEN 1 ELSE 0)
<1>1. /\ y \div 4 - (y - 1) \div 4 = IF y % 4 = 0 THEN 1 ELSE 0
      /\ y \div 100 - (y - 1) \div 100 = IF y % 100 = 0 THEN 1 ELSE 0
      /\ y \div 400 - (y - 1) \div 400 = IF y % 400 = 0 THEN 1 ELSE 0
    OBVIOUS
<1>2. (y % 100 = 0 => y % 4 = 0) /\ (y % 400 = 0 => y % 100 = 0)
    OBVIOUS
<1>3. (y + 1) - 1 = y
    OBVIOUS
<1>4. QED
    BY <1>1, <1>2, <1>3 DEF DaysBefore, Leap

(* Years follow one another. *)
LEMMA YearsApart ==
    ASSUME NEW y \in Int, NEW z \in Int, y < z
    PROVE  DaysBefore(y + 1) <= DaysBefore(z)
<1>1. PICK k \in Nat : z = y + 1 + k
    <2>1. z - (y + 1) \in Nat
        OBVIOUS
    <2>2. QED
        BY <2>1
<1>2. /\ y \div 4 <= (y + k) \div 4
      /\ (y + k) \div 100 <= y \div 100 + k
      /\ y \div 400 <= (y + k) \div 400
    BY <1>1
<1>3. QED
    BY <1>1, <1>2 DEF DaysBefore

LEMMA YearBounds ==
    ASSUME NEW y \in Nat \ {0}
    PROVE  DaysBefore(y) >= 365 * (y - 1) /\ DaysBefore(y) <= 366 * (y - 1)
<1>1. PICK n \in Nat : n = y - 1
    OBVIOUS
<1>2. n \div 4 - n \div 100 + n \div 400 >= 0 /\ n \div 4 - n \div 100 + n \div 400 <= n
    OBVIOUS
<1>3. QED
    BY <1>1, <1>2 DEF DaysBefore

(* Every date of the calendar is in one year. *)
LEMMA YearIs ==
    ASSUME NEW t \in Nat
    PROVE  /\ Year(t) \in Nat \ {0}
           /\ DaysBefore(Year(t)) <= t /\ t < DaysBefore(Year(t) + 1)
           /\ \A y \in Int : DaysBefore(y) <= t /\ t < DaysBefore(y + 1) => y = Year(t)
<1> DEFINE S == {n \in Nat : n > 0 /\ t < DaysBefore(n + 1)}
<1>1. S # {}
    <2>1. (t \div 365) + 1 \in Nat \ {0} /\ t < 365 * ((t \div 365) + 1)
        OBVIOUS
    <2>2. (t \div 365) + 2 \in Nat \ {0}
        BY <2>1
    <2>3. DaysBefore((t \div 365) + 2) >= 365 * ((t \div 365) + 1)
        BY <2>2, YearBounds
    <2>4. (t \div 365) + 1 \in S
        BY <2>1, <2>2, <2>3, YearLength
    <2>5. QED
        BY <2>4
<1>2. PICK y \in S : \A m \in S : y <= m
    BY <1>1, LeastNat
<1>3. y \in Nat \ {0} /\ t < DaysBefore(y + 1)
    BY <1>2
<1>4. DaysBefore(y) <= t
    <2>1. CASE y = 1
        BY <2>1 DEF DaysBefore
    <2>2. CASE y # 1
        <3>1. y - 1 \in Nat /\ y - 1 > 0 /\ y - 1 \notin S /\ (y - 1) + 1 = y
            BY <1>2, <1>3, <2>2
        <3>2. DaysBefore(y) \in Int
            BY <1>3, YearLength
        <3>3. QED
            BY <3>1, <3>2
    <2>3. QED
        BY <2>1, <2>2
<1>5. ASSUME NEW z \in Int, DaysBefore(z) <= t, t < DaysBefore(z + 1)
      PROVE  z = y
    <2>1. /\ DaysBefore(y) \in Int /\ DaysBefore(y + 1) \in Int
          /\ DaysBefore(z) \in Int /\ DaysBefore(z + 1) \in Int
        BY <1>3, YearLength
    <2>2. ~(z < y) /\ ~(y < z)
        BY <1>3, <1>4, <1>5, <2>1, YearsApart
    <2>3. QED
        BY <1>3, <2>2
<1>6. y \in (t \div 366) - 1..(t \div 365) + 1
    <2>1. DaysBefore(y) >= 365 * (y - 1) /\ DaysBefore(y + 1) <= 366 * ((y + 1) - 1)
        BY <1>3, YearBounds
    <2>2. /\ DaysBefore(y) \in Int /\ DaysBefore(y + 1) \in Int
        BY <1>3, YearLength
    <2>3. QED
        BY <1>3, <1>4, <2>1, <2>2
<1>7. Year(t) = y
    <2>1. \A z \in (t \div 366) - 1..(t \div 365) + 1 : z \in Int
        OBVIOUS
    <2>2. QED
        BY <1>3, <1>4, <1>5, <1>6, <2>1 DEF Year
<1>8. QED
    BY <1>3, <1>4, <1>5, <1>7

----------------------------------------------------------------------------
(* Months, numbered through the years *)

MonthStart(k) == DaysBefore(k \div 12) + DaysBeforeMonth(k \div 12, (k % 12) + 1)
MonthSize(k)  == MonthLength(k \div 12, (k % 12) + 1)
MonthNo(t)    == 12 * Civil(t).year + Civil(t).month - 1

LEMMA MonthTable ==
    ASSUME NEW y, NEW m \in 1..12
    PROVE  /\ DaysBeforeMonth(y, m) \in 0..335 /\ MonthLength(y, m) \in 28..31
           /\ m = 1 => DaysBeforeMonth(y, m) = 0
           /\ m < 12 => DaysBeforeMonth(y, m + 1) = DaysBeforeMonth(y, m) + MonthLength(y, m)
           /\ m = 12 => DaysBeforeMonth(y, m) + MonthLength(y, m) = 365 + (IF Leap(y) THEN 1 ELSE 0)
<1>1. m \in {1, 2, 3, 4, 5, 6, 7, 8, 9, 10, 11, 12}
    OBVIOUS
<1>2. CASE Leap(y)
    BY <1>1, <1>2 DEF DaysBeforeMonth, MonthLength, MonthDays
<1>3. CASE ~Leap(y)
    BY <1>1, <1>3 DEF DaysBeforeMonth, MonthLength, MonthDays
<1>4. QED
    BY <1>2, <1>3

LEMMA MonthStep ==
    ASSUME NEW k \in Int
    PROVE  /\ MonthStart(k) \in Int /\ MonthSize(k) \in 28..31
           /\ MonthStart(k + 1) = MonthStart(k) + MonthSize(k)
<1> DEFINE y == k \div 12
           m == (k % 12) + 1
<1>1. y \in Int /\ m \in 1..12 /\ k = 12 * y + m - 1
    OBVIOUS
<1>2. DaysBefore(y) \in Int /\ DaysBefore(y + 1) = DaysBefore(y) + 365 + (IF Leap(y) THEN 1 ELSE 0)
    BY <1>1, YearLength
<1>3. DaysBeforeMonth(y, m) \in 0..335 /\ MonthLength(y, m) \in 28..31
    BY <1>1, MonthTable
<1>4. CASE m < 12
    <2>1. (k + 1) \div 12 = y /\ ((k + 1) % 12) + 1 = m + 1
        BY <1>1, <1>4
    <2>2. DaysBeforeMonth(y, m + 1) = DaysBeforeMonth(y, m) + MonthLength(y, m)
        BY <1>1, <1>4, MonthTable
    <2>3. MonthStart(k + 1) = DaysBefore(y) + DaysBeforeMonth(y, m + 1)
        BY <2>1 DEF MonthStart
    <2> HIDE DEF y, m
    <2>4. QED
        BY <1>2, <1>3, <2>2, <2>3 DEF MonthStart, MonthSize, y, m
<1>5. CASE m = 12
    <2>1. (k + 1) \div 12 = y + 1 /\ ((k + 1) % 12) + 1 = 1
        BY <1>1, <1>5
    <2>2. DaysBeforeMonth(y, m) + MonthLength(y, m) = 365 + (IF Leap(y) THEN 1 ELSE 0)
        BY <1>1, <1>5, MonthTable
    <2>3. DaysBeforeMonth(y + 1, 1) = 0
        BY MonthTable
    <2>4. MonthStart(k + 1) = DaysBefore(y + 1) + DaysBeforeMonth(y + 1, 1)
        BY <2>1 DEF MonthStart
    <2>5. MonthStart(k) = DaysBefore(y) + DaysBeforeMonth(y, m) /\ MonthSize(k) = MonthLength(y, m)
        BY DEF MonthStart, MonthSize
    <2> HIDE DEF y, m
    <2>6. QED
        BY <1>2, <1>3, <2>2, <2>3, <2>4, <2>5
<1>6. QED
    BY <1>1, <1>4, <1>5

LEMMA SetInduction ==
    ASSUME NEW S, 0 \in S, \A n \in Nat : n \in S => n + 1 \in S
    PROVE  Nat \subseteq S
<1>1. SUFFICES ASSUME Nat \ S # {} PROVE FALSE
    OBVIOUS
<1>2. PICK n \in Nat \ S : \A m \in Nat \ S : n <= m
    BY <1>1, LeastNat
<1>3. n - 1 \in Nat /\ n - 1 \in S
    BY <1>2
<1>4. QED
    BY <1>3

(* Months follow one another. *)
LEMMA MonthsApart ==
    ASSUME NEW j \in Int, NEW k \in Int, j < k
    PROVE  MonthStart(j + 1) <= MonthStart(k)
<1> DEFINE S == {n \in Nat : MonthStart(j + 1) <= MonthStart(j + 1 + n)}
<1>1. 0 \in S
    BY MonthStep
<1>2. ASSUME NEW n \in Nat, n \in S
      PROVE  n + 1 \in S
    <2>1. j + 1 + n \in Int /\ j + 1 + (n + 1) = (j + 1 + n) + 1
        OBVIOUS
    <2>2. MonthStart(j + 1) \in Int /\ MonthStart(j + 1 + n) \in Int
          /\ MonthSize(j + 1 + n) \in 28..31
          /\ MonthStart((j + 1 + n) + 1) = MonthStart(j + 1 + n) + MonthSize(j + 1 + n)
        BY <2>1, MonthStep
    <2>3. MonthStart(j + 1) <= MonthStart((j + 1 + n) + 1)
        BY <1>2, <2>2
    <2>4. QED
        BY <2>1, <2>3
<1> HIDE DEF S
<1>3. k - (j + 1) \in S
    <2>1. Nat \subseteq S
        BY <1>1, <1>2, SetInduction
    <2>2. k - (j + 1) \in Nat
        OBVIOUS
    <2>3. QED
        BY <2>1, <2>2
<1>4. j + 1 + (k - (j + 1)) = k
    OBVIOUS
<1>5. QED
    BY <1>3, <1>4 DEF S

LEMMA MonthsOrdered ==
    ASSUME NEW j \in Int, NEW k \in Int, j <= k
    PROVE  MonthStart(j) <= MonthStart(k)
<1>1. /\ MonthStart(j) \in Int /\ MonthStart(k) \in Int /\ MonthStart(j + 1) \in Int
      /\ MonthStart(j) < MonthStart(j + 1)
    BY MonthStep
<1>2. j = k \/ MonthStart(j + 1) <= MonthStart(k)
    BY MonthsApart
<1>3. QED
    BY <1>1, <1>2

(* time.Date runs over into the months that follow. *)
LEMMA DateIs ==
    ASSUME NEW y \in Int, NEW m \in Int, NEW d \in Int
    PROVE  Date(y, m, d) = MonthStart(12 * y + m - 1) + d - 1
<1>1. /\ (12 * y + m - 1) \div 12 = y + (m - 1) \div 12
      /\ (12 * y + m - 1) % 12 = (m - 1) % 12
    OBVIOUS
<1>2. QED
    BY <1>1 DEF Date, MonthStart

LEMMA NewYear ==
    ASSUME NEW y \in Int, NEW d \in Int
    PROVE  MonthStart(12 * y) = DaysBefore(y) /\ Date(y, 1, d) = DaysBefore(y) + d - 1
<1>1. (12 * y) \div 12 = y /\ ((12 * y) % 12) + 1 = 1 /\ 12 * y + 1 - 1 = 12 * y
    OBVIOUS
<1>2. DaysBeforeMonth(y, 1) = 0 /\ DaysBefore(y) \in Int
    BY MonthTable, YearLength
<1>3. MonthStart(12 * y) = DaysBefore(y)
    BY <1>1, <1>2 DEF MonthStart
<1>4. QED
    BY <1>1, <1>3, DateIs

(* A year has a month for each of its days. *)
LEMMA MonthExists ==
    ASSUME NEW y, NEW n \in Nat, n < 365 + (IF Leap(y) THEN 1 ELSE 0)
    PROVE  \E m \in 1..12 : DaysBeforeMonth(y, m) <= n /\ n < DaysBeforeMonth(y, m) + MonthLength(y, m)
<1> DEFINE B(m) == DaysBeforeMonth(y, m)
<1>1. B(1) = 0 /\ B(12) + MonthLength(y, 12) = 365 + (IF Leap(y) THEN 1 ELSE 0)
    BY MonthTable
<1>2. \A m \in 1..12 : B(m) \in Nat
    BY MonthTable
<1>3. \A m \in 1..11 : B(m + 1) = B(m) + MonthLength(y, m)
    BY MonthTable
<1>4. /\ B(2) = B(1) + MonthLength(y, 1) /\ B(3) = B(2) + MonthLength(y, 2)
      /\ B(4) = B(3) + MonthLength(y, 3) /\ B(5) = B(4) + MonthLength(y, 4)
      /\ B(6) = B(5) + MonthLength(y, 5) /\ B(7) = B(6) + MonthLength(y, 6)
      /\ B(8) = B(7) + MonthLength(y, 7) /\ B(9) = B(8) + MonthLength(y, 8)
      /\ B(10) = B(9) + MonthLength(y, 9) /\ B(11) = B(10) + MonthLength(y, 10)
      /\ B(12) = B(11) + MonthLength(y, 11)
    <2> HIDE DEF B
    <2>1. QED
        BY <1>3
<1>5. SUFFICES ASSUME \A m \in 1..12 : ~(B(m) <= n /\ n < B(m) + MonthLength(y, m))
               PROVE  FALSE
    OBVIOUS
<1> HIDE DEF B
<1>6. n >= B(2)
    BY <1>1, <1>2, <1>4, <1>5
<1>7. n >= B(3) /\ n >= B(4) /\ n >= B(5)
    BY <1>2, <1>4, <1>5, <1>6
<1>8. n >= B(6) /\ n >= B(7) /\ n >= B(8)
    BY <1>2, <1>4, <1>5, <1>7
<1>9. n >= B(9) /\ n >= B(10) /\ n >= B(11) /\ n >= B(12)
    BY <1>2, <1>4, <1>5, <1>8
<1>10. QED
    BY <1>1, <1>2, <1>5, <1>9

(* Every date of the calendar is in one month. *)
LEMMA CivilIs ==
    ASSUME NEW t \in Nat
    PROVE  /\ Civil(t).year = Year(t) /\ Civil(t).month \in 1..12
           /\ Civil(t).day = t - MonthStart(MonthNo(t)) + 1
           /\ Civil(t) = [year |-> Civil(t).year, month |-> Civil(t).month, day |-> Civil(t).day]
           /\ MonthNo(t) \in Nat
           /\ MonthNo(t) \div 12 = Year(t) /\ (MonthNo(t) % 12) + 1 = Civil(t).month
           /\ MonthStart(MonthNo(t)) <= t /\ t < MonthStart(MonthNo(t) + 1)
           /\ \A k \in Int : MonthStart(k) <= t /\ t < MonthStart(k + 1) => k = MonthNo(t)
<1>1. PICK y \in Nat \ {0} : y = Year(t)
    BY YearIs
<1>2. /\ DaysBefore(y) \in Int /\ DaysBefore(y + 1) = DaysBefore(y) + 365 + (IF Leap(y) THEN 1 ELSE 0)
      /\ DaysBefore(y) <= t /\ t < DaysBefore(y + 1)
    BY <1>1, YearIs, YearLength
<1>3. PICK n \in Nat : n = t - DaysBefore(y)
    BY <1>2
<1>4. n < 365 + (IF Leap(y) THEN 1 ELSE 0)
    BY <1>2, <1>3
<1>5. PICK m \in 1..12 : /\ m = MonthOf(y, n)
                         /\ DaysBeforeMonth(y, m) <= n
                         /\ n < DaysBeforeMonth(y, m) + MonthLength(y, m)
    BY <1>4, MonthExists DEF MonthOf
<1>6. Civil(t) = [year |-> y, month |-> m, day |-> n - DaysBeforeMonth(y, m) + 1]
    BY <1>1, <1>3, <1>5 DEF Civil, CivilFrom, CivilIn, CivilOn
<1>7. PICK k \in Nat : k = 12 * y + m - 1
    <2>1. 12 * y + m - 1 \in Nat
        OBVIOUS
    <2>2. QED
        BY <2>1
<1>8. MonthNo(t) = k
    BY <1>6, <1>7 DEF MonthNo
<1>9. k \div 12 = y /\ (k % 12) + 1 = m
    BY ONLY <1>7, y \in Nat, m \in 1..12
<1>10. MonthStart(k) = DaysBefore(y) + DaysBeforeMonth(y, m) /\ MonthSize(k) = MonthLength(y, m)
    BY <1>9 DEF MonthStart, MonthSize
<1>11. /\ DaysBeforeMonth(y, m) \in 0..335 /\ MonthLength(y, m) \in 28..31
       /\ MonthStart(k + 1) = MonthStart(k) + MonthSize(k)
    BY MonthTable, MonthStep, SMTT(30)
<1>12. /\ MonthStart(k) <= t /\ t < MonthStart(k + 1)
       /\ n - DaysBeforeMonth(y, m) + 1 = t - MonthStart(k) + 1
    BY <1>2, <1>3, <1>5, <1>10, <1>11
<1>13. ASSUME NEW j \in Int, MonthStart(j) <= t, t < MonthStart(j + 1)
       PROVE  j = k
    <2>1. MonthStart(j) \in Int /\ MonthStart(j + 1) \in Int /\ MonthStart(k) \in Int /\ MonthStart(k + 1) \in Int
        BY MonthStep
    <2>2. ~(j < k) /\ ~(k < j)
        BY <1>12, <1>13, <2>1, MonthsApart
    <2>3. QED
        BY <2>2
<1>14. QED
    BY <1>1, <1>6, <1>8, <1>9, <1>12, <1>13

----------------------------------------------------------------------------
(* The units of time, each numbered through the calendar *)

StartOfUnit(u, q) ==
    CASE u = "year" -> MonthStart(12 * q)
      [] u = "quarter" -> MonthStart(3 * q)
      [] u = "month" -> MonthStart(q)
      [] u = "week" -> 7 * q
      [] u = "day" -> q

Spans(u, q, t) == StartOfUnit(u, q) <= t /\ t < StartOfUnit(u, q + 1)

LEMMA StartOfEach ==
    ASSUME NEW q
    PROVE  /\ StartOfUnit("year", q) = MonthStart(12 * q)
           /\ StartOfUnit("quarter", q) = MonthStart(3 * q)
           /\ StartOfUnit("month", q) = MonthStart(q)
           /\ StartOfUnit("week", q) = 7 * q
           /\ StartOfUnit("day", q) = q
BY DEF StartOfUnit

(* Units follow one another, none longer than a leap year.                 *)
LEMMA UnitsApart ==
    ASSUME NEW u \in Units, NEW q \in Int
    PROVE  /\ StartOfUnit(u, q) \in Int
           /\ StartOfUnit(u, q) < StartOfUnit(u, q + 1)
           /\ StartOfUnit(u, q + 1) <= StartOfUnit(u, q) + 366
           /\ \A r \in Int : q < r => StartOfUnit(u, q + 1) <= StartOfUnit(u, r)
<1>1. CASE u = "year"
    <2>1. \A k \in Int : MonthStart(12 * k) = DaysBefore(k)
        BY NewYear
    <2>2. /\ StartOfUnit(u, q) = DaysBefore(q) /\ StartOfUnit(u, q + 1) = DaysBefore(q + 1)
          /\ \A r \in Int : StartOfUnit(u, r) = DaysBefore(r)
        BY <1>1, <2>1, StartOfEach
    <2>3. /\ DaysBefore(q) \in Int
          /\ DaysBefore(q + 1) = DaysBefore(q) + 365 + (IF Leap(q) THEN 1 ELSE 0)
        BY YearLength
    <2>4. \A r \in Int : q < r => DaysBefore(q + 1) <= DaysBefore(r)
        BY YearsApart
    <2>5. QED
        BY <2>2, <2>3, <2>4
<1>2. CASE u = "quarter"
    <2>1. MonthStart(3 * q) \in Int
        BY MonthStep
    <2>2. 3 * (q + 1) = 3 * q + 1 + 1 + 1
        OBVIOUS
    <2>3. /\ MonthStart(3 * q) < MonthStart(3 * (q + 1))
          /\ MonthStart(3 * (q + 1)) <= MonthStart(3 * q) + 366
        <3>1. PICK k \in Int : k = 3 * q
            OBVIOUS
        <3>2. k + 1 \in Int /\ k + 1 + 1 \in Int
            OBVIOUS
        <3>3. MonthStart(k + 1) \in MonthStart(k) + 28..MonthStart(k) + 31
            BY MonthStep
        <3>4. MonthStart(k + 1 + 1) \in MonthStart(k + 1) + 28..MonthStart(k + 1) + 31
            BY <3>2, MonthStep
        <3>5. MonthStart(k + 1 + 1 + 1) \in MonthStart(k + 1 + 1) + 28..MonthStart(k + 1 + 1) + 31
            BY <3>2, MonthStep
        <3>6. MonthStart(k) \in Int
            BY MonthStep
        <3>7. QED
            BY <2>2, <3>1, <3>3, <3>4, <3>5, <3>6
    <2>4. ASSUME NEW r \in Int, q < r
          PROVE  MonthStart(3 * (q + 1)) <= MonthStart(3 * r)
        <3>1. 3 * (q + 1) \in Int /\ 3 * r \in Int /\ 3 * (q + 1) <= 3 * r
            BY <2>4
        <3>2. QED
            BY <3>1, MonthsOrdered
    <2>5. QED
        BY <1>2, <2>1, <2>3, <2>4, StartOfEach
<1>3. CASE u = "month"
    BY <1>3, MonthStep, MonthsApart, StartOfEach, SMTT(30)
<1>4. CASE u = "week"
    BY <1>4, StartOfEach
<1>5. CASE u = "day"
    BY <1>5, StartOfEach
<1>6. QED
    BY <1>1, <1>2, <1>3, <1>4, <1>5 DEF Units

LEMMA OneUnit ==
    ASSUME NEW u \in Units, NEW q \in Int, NEW r \in Int, NEW t \in Int, Spans(u, q, t), Spans(u, r, t)
    PROVE  q = r
<1>1. /\ StartOfUnit(u, q) \in Int /\ StartOfUnit(u, q + 1) \in Int
      /\ StartOfUnit(u, r) \in Int /\ StartOfUnit(u, r + 1) \in Int
    BY UnitsApart
<1>2. /\ q < r => StartOfUnit(u, q + 1) <= StartOfUnit(u, r)
      /\ r < q => StartOfUnit(u, r + 1) <= StartOfUnit(u, q)
    BY UnitsApart
<1>3. QED
    BY <1>1, <1>2 DEF Spans

LEMMA MondayIs ==
    ASSUME NEW t \in Int
    PROVE  Monday(t) = t - (t % 7)
<1>1. ((t + 1) % 7) = IF t % 7 = 6 THEN 0 ELSE (t % 7) + 1
    OBVIOUS
<1>2. QED
    BY <1>1 DEF Monday, Weekday

(* The unit that a date is in, and its first day.                          *)
LEMMA FirstIs ==
    ASSUME NEW u \in Units, NEW t \in Nat
    PROVE  \E q \in Nat : Spans(u, q, t) /\ First(u, t) = StartOfUnit(u, q)
<1>1. PICK y \in Nat, m \in 1..12, k \in Nat :
          /\ y = Year(t) /\ m = Civil(t).month /\ k = MonthNo(t)
          /\ MonthStart(k) <= t /\ t < MonthStart(k + 1)
          /\ y = k \div 12 /\ m = (k % 12) + 1
    BY YearIs, CivilIs
<1>2. PICK d \in Int : d = t - MonthStart(k) + 1
    BY MonthStep
<1>3. Civil(t) = [year |-> y, month |-> m, day |-> d]
    BY <1>1, <1>2, CivilIs
<1>4. First(u, t) = FirstOf(u, [year |-> y, month |-> m, day |-> d], ISOWeek(t))
    BY <1>3 DEF First
<1>5. k = 12 * y + m - 1 /\ MonthStart(k) \in Int
    BY <1>1, MonthStep
<1>6. CASE u = "year"
    <2>1. First(u, t) = Date(y, 1, 1)
        BY <1>4, <1>6 DEF FirstOf
    <2>2. Date(y, 1, 1) = MonthStart(12 * y) /\ MonthStart(12 * (y + 1)) \in Int
        BY NewYear, YearLength, MonthStep
    <2>3. 12 * y <= k /\ k + 1 <= 12 * (y + 1)
        BY <1>1, <1>5
    <2>4. MonthStart(12 * y) <= MonthStart(k) /\ MonthStart(k + 1) <= MonthStart(12 * (y + 1))
        BY <2>3, MonthsOrdered
    <2>5. MonthStart(12 * y) \in Int /\ MonthStart(k + 1) \in Int
        BY MonthStep
    <2>6. MonthStart(12 * y) <= t /\ t < MonthStart(12 * (y + 1))
        BY <1>1, <1>5, <2>2, <2>4, <2>5
    <2>7. QED
        BY <1>6, <2>1, <2>2, <2>6, StartOfEach DEF Spans
<1>7. CASE u = "quarter"
    <2>1. PICK g \in 0..3, q \in Nat : g = (m - 1) \div 3 /\ q = 4 * y + g
        <3>1. (m - 1) \div 3 \in 0..3
            OBVIOUS
        <3>2. 4 * y + ((m - 1) \div 3) \in Nat
            BY <3>1
        <3>3. QED
            BY <3>1, <3>2
    <2>2. First(u, t) = Date(y, 1 + 3 * ((g + 1) - 1), 1)
        BY <1>4, <1>7, <2>1 DEF FirstOf, Quarter
    <2>3. PICK j \in Int : j = 1 + 3 * ((g + 1) - 1)
        OBVIOUS
    <2>4. 12 * y + j - 1 = 3 * q /\ Date(y, j, 1) = MonthStart(12 * y + j - 1) + 1 - 1
        BY <2>1, <2>3, DateIs
    <2>5. First(u, t) = MonthStart(3 * q) + 1 - 1
        BY <2>2, <2>3, <2>4
    <2>6. 3 * q <= k /\ k + 1 <= 3 * (q + 1)
        <3>1. 3 * g <= m - 1 /\ m - 1 <= 3 * g + 2
            BY <2>1
        <3>2. QED
            BY <1>5, <2>1, <3>1
    <2>7. MonthStart(3 * q) <= MonthStart(k) /\ MonthStart(k + 1) <= MonthStart(3 * (q + 1))
        BY <2>6, MonthsOrdered
    <2>8. MonthStart(3 * q) \in Int /\ MonthStart(k + 1) \in Int /\ MonthStart(3 * (q + 1)) \in Int
        BY MonthStep
    <2>9. /\ MonthStart(3 * q) <= t /\ t < MonthStart(3 * (q + 1))
          /\ First(u, t) = MonthStart(3 * q)
        BY <1>1, <1>5, <2>5, <2>7, <2>8
    <2>10. StartOfUnit(u, q) = MonthStart(3 * q) /\ StartOfUnit(u, q + 1) = MonthStart(3 * (q + 1))
        BY <1>7, StartOfEach
    <2>11. Spans(u, q, t) /\ First(u, t) = StartOfUnit(u, q)
        BY <2>9, <2>10 DEF Spans
    <2>12. QED
        BY <2>11
<1>8. CASE u = "month"
    <2>1. First(u, t) = Date(y, m, 1)
        BY <1>4, <1>8 DEF FirstOf
    <2>2. First(u, t) = MonthStart(k)
        BY <1>5, <2>1, DateIs
    <2>3. QED
        BY <1>1, <1>8, <2>2, StartOfEach DEF Spans
<1>9. CASE u = "week"
    <2>1. PICK q \in Nat, thursday \in Nat :
              q = t \div 7 /\ thursday = 7 * q + 3 /\ thursday = t - (t % 7) + 3
        <3>1. t \div 7 \in Nat /\ 7 * (t \div 7) + 3 \in Nat /\ 7 * (t \div 7) + 3 = t - (t % 7) + 3
            OBVIOUS
        <3>2. QED
            BY <3>1
    <2>2. PICK z \in Nat, D \in Int : z = Year(thursday) /\ D = DaysBefore(z) /\ D <= thursday
        BY YearIs, YearLength
    <2>3. ISOWeek(t) = [year |-> z, week |-> ((thursday - D) \div 7) + 1]
        BY <2>1, <2>2 DEF ISOWeek, WeekOf, WeekIn
    <2>4. First(u, t) = Monday(Date(z, 1, 4)) + 7 * ((((thursday - D) \div 7) + 1) - 1)
        BY <1>4, <1>9, <2>3 DEF FirstOf, IsoWeekStart
    <2>5. Date(z, 1, 4) = D + 3
        BY <2>2, NewYear
    <2>6. Monday(D + 3) = (D + 3) - ((D + 3) % 7)
        BY MondayIs
    <2>7. (D + 3) - ((D + 3) % 7) + 7 * ((thursday - D) \div 7) = 7 * q
        <3>1. PICK b \in Int, r \in 0..6 : D + 3 = 7 * b + r /\ r = (D + 3) % 7
            <4>1. (D + 3) \div 7 \in Int /\ (D + 3) % 7 \in 0..6
                  /\ D + 3 = 7 * ((D + 3) \div 7) + ((D + 3) % 7)
                OBVIOUS
            <4>2. QED
                BY <4>1
        <3>2. thursday - D = 7 * (q - b) + (6 - r)
            BY <2>1, <3>1
        <3>3. (thursday - D) \div 7 = q - b
            BY <3>2
        <3>4. QED
            BY <3>1, <3>3
    <2>8. First(u, t) = 7 * q
        BY <2>1, <2>2, <2>4, <2>5, <2>6, <2>7
    <2>9. 7 * q <= t /\ t < 7 * (q + 1)
        BY <2>1
    <2>10. QED
        BY <1>9, <2>8, <2>9, StartOfEach, ZenonT(40) DEF Spans
<1>10. CASE u = "day"
    <2>1. First(u, t) = Date(y, m, d)
        BY <1>4, <1>10 DEF FirstOf
    <2>2. Date(y, m, d) = MonthStart(12 * y + m - 1) + d - 1
        BY DateIs
    <2>3. First(u, t) = MonthStart(k) + d - 1
        BY <1>5, <2>1, <2>2
    <2>4. First(u, t) = t
        BY <1>2, <1>5, <2>3
    <2>5. QED
        BY <1>10, <2>4, StartOfEach DEF Spans
<1>11. QED
    BY <1>6, <1>7, <1>8, <1>9, <1>10 DEF Units

----------------------------------------------------------------------------
(* Steps through time *)

(* AddDate moves months from a date's month and keeps its day of the month. *)
LEMMA PlusIs ==
    ASSUME NEW t \in Nat, NEW n \in Int
    PROVE  /\ Plus(t, "year", n) = MonthStart(MonthNo(t) + 12 * n) + (t - MonthStart(MonthNo(t)))
           /\ Plus(t, "quarter", n) = MonthStart(MonthNo(t) + 3 * n) + (t - MonthStart(MonthNo(t)))
           /\ Plus(t, "month", n) = MonthStart(MonthNo(t) + n) + (t - MonthStart(MonthNo(t)))
           /\ Plus(t, "week", n) = t + 7 * n
           /\ Plus(t, "day", n) = t + n
<1>1. PICK y \in Nat, m \in 1..12, k \in Nat, s \in Int :
          /\ y = Year(t) /\ m = Civil(t).month /\ k = MonthNo(t) /\ s = MonthStart(k)
          /\ y = k \div 12 /\ m = (k % 12) + 1
    BY YearIs, CivilIs, MonthStep
<1>2. PICK d \in Int : d = t - s + 1
    OBVIOUS
<1>3. Civil(t) = [year |-> y, month |-> m, day |-> d]
    BY <1>1, <1>2, CivilIs
<1>4. k = 12 * y + m - 1
    BY <1>1
<1>5. ASSUME NEW a \in Int, NEW b \in Int, NEW c \in Int
      PROVE  AddDate(t, a, b, c) = MonthStart(k + 12 * a + b) + (t - s) + c
    <2>1. AddDate(t, a, b, c) = Date(y + a, m + b, d + c)
        BY <1>3 DEF AddDate, Moved
    <2>2. PICK yy \in Int, mm \in Int, dd \in Int : yy = y + a /\ mm = m + b /\ dd = d + c
        OBVIOUS
    <2>3. Date(yy, mm, dd) = MonthStart(12 * yy + mm - 1) + dd - 1
        BY DateIs
    <2>4. PICK j \in Int : j = k + 12 * a + b
        OBVIOUS
    <2>5. 12 * yy + mm - 1 = j /\ MonthStart(j) \in Int
        BY <1>4, <2>2, <2>4, MonthStep
    <2>6. QED
        BY <1>2, <2>1, <2>2, <2>3, <2>4, <2>5
<1>6. /\ Plus(t, "year", n) = AddDate(t, n * 1, n * 0, n * 0)
      /\ Plus(t, "quarter", n) = AddDate(t, n * 0, n * 3, n * 0)
      /\ Plus(t, "month", n) = AddDate(t, n * 0, n * 1, n * 0)
      /\ Plus(t, "week", n) = AddDate(t, n * 0, n * 0, n * 7)
      /\ Plus(t, "day", n) = AddDate(t, n * 0, n * 0, n * 1)
    BY DEF Plus, Length
<1>7. PICK z \in Int, three \in Int, seven \in Int :
          z = 0 /\ three = 3 * n /\ seven = 7 * n
    OBVIOUS
<1>8. n * 1 = n /\ n * 0 = z /\ n * 3 = three /\ n * 7 = seven
    BY <1>7
<1>9. /\ AddDate(t, n, z, z) = MonthStart(k + 12 * n + z) + (t - s) + z
      /\ AddDate(t, z, three, z) = MonthStart(k + 12 * z + three) + (t - s) + z
      /\ AddDate(t, z, n, z) = MonthStart(k + 12 * z + n) + (t - s) + z
      /\ AddDate(t, z, z, seven) = MonthStart(k + 12 * z + z) + (t - s) + seven
      /\ AddDate(t, z, z, n) = MonthStart(k + 12 * z + z) + (t - s) + n
    <2>1. AddDate(t, n, z, z) = MonthStart(k + 12 * n + z) + (t - s) + z
        BY <1>5
    <2>2. AddDate(t, z, three, z) = MonthStart(k + 12 * z + three) + (t - s) + z
        BY <1>5
    <2>3. AddDate(t, z, n, z) = MonthStart(k + 12 * z + n) + (t - s) + z
        BY <1>5
    <2>4. AddDate(t, z, z, seven) = MonthStart(k + 12 * z + z) + (t - s) + seven
        BY <1>5
    <2>5. AddDate(t, z, z, n) = MonthStart(k + 12 * z + z) + (t - s) + n
        BY <1>5
    <2>6. QED
        BY <2>1, <2>2, <2>3, <2>4, <2>5
<1>10. /\ k + 12 * n + z = k + 12 * n /\ k + 12 * z + three = k + 3 * n
       /\ k + 12 * z + n = k + n /\ k + 12 * z + z = k
    BY <1>7
<1>11. MonthStart(k + 12 * n) \in Int /\ MonthStart(k + 3 * n) \in Int /\ MonthStart(k + n) \in Int
    BY MonthStep
<1>12. /\ AddDate(t, n, z, z) = MonthStart(k + 12 * n) + (t - s)
       /\ AddDate(t, z, three, z) = MonthStart(k + 3 * n) + (t - s)
       /\ AddDate(t, z, n, z) = MonthStart(k + n) + (t - s)
    BY <1>7, <1>9, <1>10, <1>11
<1>13. AddDate(t, z, z, seven) = t + 7 * n /\ AddDate(t, z, z, n) = t + n
    BY <1>1, <1>7, <1>9, <1>10
<1>14. QED
    BY <1>1, <1>6, <1>8, <1>12, <1>13

(* From the first day of a unit a step leads to the first of another.      *)
LEMMA PlusUnits ==
    ASSUME NEW u \in Units, NEW q \in Int, NEW n \in Int, StartOfUnit(u, q) \in Nat
    PROVE  Plus(StartOfUnit(u, q), u, n) = StartOfUnit(u, q + n)
<1>1. PICK t \in Nat : t = StartOfUnit(u, q)
    OBVIOUS
<1>2. ASSUME NEW k \in Int, t = MonthStart(k)
      PROVE  MonthNo(t) = k /\ t - MonthStart(MonthNo(t)) = 0
    <2>1. MonthStart(k) < MonthStart(k + 1)
        BY MonthStep
    <2>2. k = MonthNo(t)
        BY <1>2, <2>1, CivilIs
    <2>3. QED
        BY <1>2, <2>2
<1>3. CASE u = "year"
    <2>1. t = MonthStart(12 * q) /\ StartOfUnit(u, q + n) = MonthStart(12 * (q + n))
        BY <1>1, <1>3, StartOfEach
    <2>2. MonthNo(t) = 12 * q /\ t - MonthStart(MonthNo(t)) = 0
        BY <1>2, <2>1
    <2>3. Plus(t, u, n) = MonthStart(MonthNo(t) + 12 * n) + (t - MonthStart(MonthNo(t)))
        BY <1>3, PlusIs
    <2>4. 12 * q + 12 * n = 12 * (q + n) /\ MonthStart(12 * (q + n)) \in Int
        BY MonthStep
    <2>5. QED
        BY <1>1, <2>1, <2>2, <2>3, <2>4
<1>4. CASE u = "quarter"
    <2>1. t = MonthStart(3 * q) /\ StartOfUnit(u, q + n) = MonthStart(3 * (q + n))
        BY <1>1, <1>4, StartOfEach
    <2>2. MonthNo(t) = 3 * q /\ t - MonthStart(MonthNo(t)) = 0
        BY <1>2, <2>1
    <2>3. Plus(t, u, n) = MonthStart(MonthNo(t) + 3 * n) + (t - MonthStart(MonthNo(t)))
        BY <1>4, PlusIs
    <2>4. 3 * q + 3 * n = 3 * (q + n) /\ MonthStart(3 * (q + n)) \in Int
        BY MonthStep
    <2>5. QED
        BY <1>1, <2>1, <2>2, <2>3, <2>4
<1>5. CASE u = "month"
    <2>1. t = MonthStart(q) /\ StartOfUnit(u, q + n) = MonthStart(q + n) /\ MonthStart(q + n) \in Int
        BY <1>1, <1>5, StartOfEach, MonthStep
    <2>2. MonthNo(t) = q /\ t - MonthStart(MonthNo(t)) = 0
        BY <1>2, <2>1
    <2>3. Plus(t, u, n) = MonthStart(MonthNo(t) + n) + (t - MonthStart(MonthNo(t)))
        BY <1>5, PlusIs
    <2>4. QED
        BY <1>1, <2>1, <2>2, <2>3
<1>6. CASE u = "week"
    <2>1. t = 7 * q /\ StartOfUnit(u, q + n) = 7 * (q + n) /\ Plus(t, u, n) = t + 7 * n
        BY <1>1, <1>6, StartOfEach, PlusIs
    <2>2. QED
        BY <1>1, <2>1
<1>7. CASE u = "day"
    <2>1. t = q /\ StartOfUnit(u, q + n) = q + n /\ Plus(t, u, n) = t + n
        BY <1>1, <1>7, StartOfEach, PlusIs
    <2>2. QED
        BY <1>1, <2>1
<1>8. QED
    BY <1>3, <1>4, <1>5, <1>6, <1>7 DEF Units

(* The interval of one unit from its first day ends where the next begins. *)
LEMMA LastingIs ==
    ASSUME NEW u \in Units, NEW q \in Int, StartOfUnit(u, q) \in Nat
    PROVE  Lasting(u, StartOfUnit(u, q))
               = [ok |-> TRUE, start |-> StartOfUnit(u, q), end |-> StartOfUnit(u, q + 1) - 1]
<1>1. Plus(StartOfUnit(u, q), u, 1) = StartOfUnit(u, q + 1)
    BY PlusUnits
<1>2. QED
    BY <1>1 DEF Lasting

----------------------------------------------------------------------------
(* Tokens *)

(* The first date whose year has five digits, and the dates whose tokens   *)
(* do with four.                                                           *)
Beyond == DaysBefore(10000)
Written == 0..Beyond - 8

LEMMA WrittenYears ==
    ASSUME NEW t \in Nat, t < Beyond
    PROVE  Year(t) \in FourDigits
<1>1. PICK y \in Nat \ {0} : y = Year(t) /\ DaysBefore(y) <= t
    BY YearIs
<1>2. PICK last \in Int : last = 9999
    OBVIOUS
<1>3. Beyond = DaysBefore(last + 1)
    BY <1>2 DEF Beyond
<1>4. last < y => Beyond <= DaysBefore(y)
    BY <1>3, YearsApart
<1>5. DaysBefore(y) \in Int /\ Beyond \in Int
    BY <1>3, YearLength
<1>6. ~(last < y)
    BY <1>1, <1>4, <1>5
<1>7. y \in FourDigits
    BY <1>2, <1>6 DEF FourDigits
<1>8. QED
    BY <1>1, <1>7

LEMMA WeekIs ==
    ASSUME NEW t \in Nat
    PROVE  /\ ISOWeek(t) = [year |-> ISOWeek(t).year, week |-> ISOWeek(t).week]
           /\ ISOWeek(t) = WeekOf(7 * (t \div 7) + 3)
           /\ ISOWeek(t).week \in 1..53
           /\ t < Beyond - 7 => ISOWeek(t).year \in FourDigits
<1>1. PICK thursday \in Nat : thursday = t - (t % 7) + 3 /\ thursday = 7 * (t \div 7) + 3 /\ thursday <= t + 3
    <2>1. t - (t % 7) + 3 \in Nat /\ t - (t % 7) + 3 = 7 * (t \div 7) + 3 /\ t - (t % 7) + 3 <= t + 3
        OBVIOUS
    <2>2. QED
        BY <2>1
<1>2. PICK z \in Nat \ {0}, D \in Int :
          z = Year(thursday) /\ D = DaysBefore(z) /\ D <= thursday /\ thursday < D + 366
    <2>1. PICK z \in Nat \ {0} :
              z = Year(thursday) /\ DaysBefore(z) <= thursday /\ thursday < DaysBefore(z + 1)
        BY YearIs
    <2>2. /\ DaysBefore(z) \in Int
          /\ DaysBefore(z + 1) = DaysBefore(z) + 365 + (IF Leap(z) THEN 1 ELSE 0)
        BY YearLength
    <2>3. QED
        BY <2>1, <2>2
<1>3. PICK v \in 1..53 : v = ((thursday - D) \div 7) + 1
    <2>1. ((thursday - D) \div 7) + 1 \in 1..53
        BY <1>2
    <2>2. QED
        BY <2>1
<1>4. ISOWeek(t) = [year |-> z, week |-> v]
    BY <1>1, <1>2, <1>3 DEF ISOWeek, WeekOf, WeekIn
<1>5. ASSUME t < Beyond - 7
      PROVE  z \in FourDigits
    <2>1. Beyond \in Int
        BY YearLength DEF Beyond
    <2>2. thursday < Beyond
        BY <1>1, <1>5, <2>1
    <2>3. Year(thursday) \in FourDigits
        BY <2>2, WrittenYears
    <2>4. QED
        BY <1>2, <2>3
<1>6. ISOWeek(t) = WeekOf(7 * (t \div 7) + 3)
    BY <1>1 DEF ISOWeek
<1>7. ISOWeek(t).year = z /\ ISOWeek(t).week = v
    BY <1>4
<1>8. QED
    BY <1>4, <1>5, <1>6, <1>7

(* The token of a date names the unit that the date is in.                 *)
LEMMA TokenIs ==
    ASSUME NEW u \in Units, NEW t \in Written, NEW today
    PROVE  /\ At(u, t) = Token(u, Civil(t), ISOWeek(t)) /\ At(u, t).form = u
           /\ At(u, t) \in [form : Units, year : FourDigits, n : Int, day : Int]
           /\ ParseOne(At(u, t), today) = Lasting(u, First(u, t))
<1>1. Beyond \in Int
    BY YearLength DEF Beyond
<1>2. t \in Nat /\ t < Beyond - 7 /\ t < Beyond
    BY <1>1 DEF Written
<1>3. PICK z \in FourDigits, v \in 1..53 : ISOWeek(t) = [year |-> z, week |-> v]
    <2>1. ISOWeek(t) = [year |-> ISOWeek(t).year, week |-> ISOWeek(t).week]
        BY <1>2, WeekIs
    <2>2. ISOWeek(t).week \in 1..53 /\ ISOWeek(t).year \in FourDigits
        BY <1>2, WeekIs
    <2>3. QED
        BY <2>1, <2>2
<1>4. PICK y \in FourDigits, m \in 1..12, k \in Nat :
          /\ y = Year(t) /\ m = Civil(t).month /\ k = MonthNo(t)
          /\ MonthStart(k) <= t /\ t < MonthStart(k + 1)
          /\ y = k \div 12 /\ m = (k % 12) + 1
    <2>1. Year(t) \in FourDigits
        BY <1>2, WrittenYears
    <2>2. /\ Civil(t).month \in 1..12 /\ MonthNo(t) \in Nat
          /\ MonthNo(t) \div 12 = Year(t) /\ (MonthNo(t) % 12) + 1 = Civil(t).month
          /\ MonthStart(MonthNo(t)) <= t /\ t < MonthStart(MonthNo(t) + 1)
        BY <1>2, CivilIs
    <2>3. QED
        BY <2>1, <2>2
<1>5. PICK d \in Int : d = t - MonthStart(k) + 1 /\ d \in 1..MonthLength(y, m)
    <2>1. /\ MonthStart(k) \in Int /\ MonthSize(k) \in 28..31
          /\ MonthStart(k + 1) = MonthStart(k) + MonthSize(k)
        BY MonthStep
    <2>2. MonthSize(k) = MonthLength(y, m)
        BY <1>4 DEF MonthSize
    <2>3. t - MonthStart(k) + 1 \in 1..MonthLength(y, m)
        BY <1>2, <1>4, <2>1, <2>2
    <2>4. QED
        BY <2>3
<1>6. Civil(t) = [year |-> y, month |-> m, day |-> d]
    BY <1>2, <1>4, <1>5, CivilIs
<1>7. PICK g \in Int : g = Quarter(m)
    <2>1. Quarter(m) \in Int
        BY DEF Quarter
    <2>2. QED
        BY <2>1
<1>8. First(u, t) = FirstOf(u, [year |-> y, month |-> m, day |-> d], [year |-> z, week |-> v])
    BY <1>3, <1>6 DEF First
<1>9. PICK f \in {Token(u, Civil(t), ISOWeek(t))} :
          f = Token(u, [year |-> y, month |-> m, day |-> d], [year |-> z, week |-> v])
    BY <1>3, <1>6
<1>10. SUFFICES /\ f \in [form : Units, year : FourDigits, n : Int, day : Int] /\ f.form = u
                /\ ParseOne(f, today) = Lasting(u, First(u, t))
    <2>1. f.year \in FourDigits
        BY <1>10
    <2>2. At(u, t) = f
        BY <2>1 DEF At, Readable
    <2>3. QED
        BY <1>10, <2>2
<1>11. CASE u = "year"
    <2>1. f = [form |-> "year", year |-> y, n |-> 0, day |-> 0]
        BY <1>7, <1>9, <1>11 DEF Token, Absolute
    <2>2. First(u, t) = Date(y, 1, 1)
        BY <1>7, <1>8, <1>11 DEF FirstOf
    <2>3. f \in [form : Units, year : FourDigits, n : Int, day : Int] /\ f.form = u
        BY <2>1, <1>11 DEF Units
    <2>4. ValidToken(f)
        BY <2>1 DEF ValidToken
    <2>5. ParseOne(f, today) = Lasting(u, Date(y, 1, 1))
        BY <1>11, <2>1, <2>4 DEF ParseOne
    <2>6. QED
        BY <2>2, <2>3, <2>5
<1>12. CASE u = "quarter"
    <2>1. f = [form |-> "quarter", year |-> y, n |-> g, day |-> 0]
        BY <1>7, <1>9, <1>12 DEF Token, Absolute
    <2>2. First(u, t) = Date(y, 1 + 3 * (g - 1), 1)
        BY <1>7, <1>8, <1>12 DEF FirstOf
    <2>3. f \in [form : Units, year : FourDigits, n : Int, day : Int] /\ f.form = u
        BY <2>1, <1>12 DEF Units
    <2>4. ValidToken(f)
        BY <2>1 DEF ValidToken
    <2>5. ParseOne(f, today) = Lasting(u, Date(y, 1 + 3 * (g - 1), 1))
        BY <1>12, <2>1, <2>4 DEF ParseOne
    <2>6. QED
        BY <2>2, <2>3, <2>5
<1>13. CASE u = "month"
    <2>1. f = [form |-> "month", year |-> y, n |-> m, day |-> 0]
        BY <1>7, <1>9, <1>13 DEF Token, Absolute
    <2>2. First(u, t) = Date(y, m, 1)
        BY <1>7, <1>8, <1>13 DEF FirstOf
    <2>3. f \in [form : Units, year : FourDigits, n : Int, day : Int] /\ f.form = u
        BY <2>1, <1>13 DEF Units
    <2>4. ValidToken(f)
        BY <2>1 DEF ValidToken
    <2>5. ParseOne(f, today) = Lasting(u, Date(y, m, 1))
        BY <1>13, <2>1, <2>4 DEF ParseOne
    <2>6. QED
        BY <2>2, <2>3, <2>5
<1>14. CASE u = "week"
    <2>1. f = [form |-> "week", year |-> z, n |-> v, day |-> 0]
        BY <1>7, <1>9, <1>14 DEF Token, Absolute
    <2>2. First(u, t) = IsoWeekStart(z, v)
        BY <1>7, <1>8, <1>14 DEF FirstOf
    <2>3. f \in [form : Units, year : FourDigits, n : Int, day : Int] /\ f.form = u
        BY <2>1, <1>14 DEF Units
    <2>4. ValidToken(f)
        BY <2>1 DEF ValidToken
    <2>5. ParseOne(f, today) = Lasting(u, IsoWeekStart(z, v))
        BY <1>14, <2>1, <2>4 DEF ParseOne
    <2>6. QED
        BY <2>2, <2>3, <2>5
<1>15. CASE u = "day"
    <2>1. f = [form |-> "day", year |-> y, n |-> m, day |-> d]
        BY <1>7, <1>9, <1>15 DEF Token, Absolute
    <2>2. First(u, t) = Date(y, m, d)
        BY <1>7, <1>8, <1>15 DEF FirstOf
    <2>3. f \in [form : Units, year : FourDigits, n : Int, day : Int] /\ f.form = u
        BY <2>1, <1>15 DEF Units
    <2>4. ValidToken(f)
        BY <1>5, <2>1 DEF ValidToken
    <2>5. ParseOne(f, today) = Lasting(u, Date(y, m, d))
        BY <1>15, <2>1, <2>4 DEF ParseOne
    <2>6. QED
        BY <2>2, <2>3, <2>5
<1>16. QED
    BY <1>11, <1>12, <1>13, <1>14, <1>15 DEF Units

LEMMA UnitNumber ==
    ASSUME NEW u \in Units, NEW q \in Int, NEW t \in Nat, Spans(u, q, t)
    PROVE  /\ u = "year" => q = Year(t)
           /\ u = "quarter" => q = MonthNo(t) \div 3
           /\ u = "month" => q = MonthNo(t)
           /\ u = "week" => q = t \div 7
           /\ u = "day" => q = t
<1>1. CASE u = "year"
    <2>1. MonthStart(12 * q) = DaysBefore(q) /\ MonthStart(12 * (q + 1)) = DaysBefore(q + 1)
        BY NewYear
    <2>2. DaysBefore(q) <= t /\ t < DaysBefore(q + 1)
        BY <1>1, <2>1, StartOfEach DEF Spans
    <2>3. q = Year(t)
        BY <2>2, YearIs
    <2>4. QED
        BY <1>1, <2>3
<1>2. CASE u = "quarter"
    <2>1. MonthStart(3 * q) <= t /\ t < MonthStart(3 * (q + 1))
        BY <1>2, StartOfEach DEF Spans
    <2>2. PICK k \in Nat : k = MonthNo(t) /\ MonthStart(k) <= t /\ t < MonthStart(k + 1)
        BY CivilIs
    <2>3. PICK a \in Int, b \in Int : a = 3 * q /\ b = 3 * (q + 1)
        OBVIOUS
    <2>4. /\ MonthStart(a) \in Int /\ MonthStart(b) \in Int
          /\ MonthStart(k) \in Int /\ MonthStart(k + 1) \in Int
        BY MonthStep
    <2>5. k < a => MonthStart(k + 1) <= MonthStart(a)
        BY MonthsApart
    <2>6. b <= k => MonthStart(b) <= MonthStart(k)
        BY MonthsOrdered
    <2>7. a <= k /\ k < b
        BY <2>1, <2>2, <2>3, <2>4, <2>5, <2>6
    <2>8. q = k \div 3
        BY <2>3, <2>7
    <2>9. QED
        BY <1>2, <2>2, <2>8
<1>3. CASE u = "month"
    <2>1. MonthStart(q) <= t /\ t < MonthStart(q + 1)
        BY <1>3, StartOfEach DEF Spans
    <2>2. q = MonthNo(t)
        BY <2>1, CivilIs
    <2>3. QED
        BY <1>3, <2>2
<1>4. CASE u = "week"
    <2>1. 7 * q <= t /\ t < 7 * (q + 1)
        BY <1>4, StartOfEach DEF Spans
    <2>2. q = t \div 7
        BY <2>1
    <2>3. QED
        BY <1>4, <2>2
<1>5. CASE u = "day"
    <2>1. q <= t /\ t < q + 1
        BY <1>5, StartOfEach DEF Spans
    <2>2. QED
        BY <1>5, <2>1
<1>6. QED
    BY <1>1, <1>2, <1>3, <1>4, <1>5 DEF Units

(* The days of a unit have one token. *)
LEMMA SameToken ==
    ASSUME NEW u \in Units, NEW q \in Int, NEW s \in Written, NEW t \in Written,
           Spans(u, q, s), Spans(u, q, t)
    PROVE  At(u, s) = At(u, t)
<1>1. s \in Nat /\ t \in Nat
    BY DEF Written
<1>2. SUFFICES Token(u, Civil(s), ISOWeek(s)) = Token(u, Civil(t), ISOWeek(t))
    BY DEF At
<1>3. CASE u = "year"
    <2>1. Year(s) = Year(t)
        BY <1>1, <1>3, UnitNumber
    <2>2. Civil(s).year = Year(s) /\ Civil(t).year = Year(t)
        BY <1>1, CivilIs
    <2>3. QED
        BY <1>3, <2>1, <2>2 DEF Token
<1>4. CASE u = "quarter"
    <2>1. ASSUME NEW x \in Nat, q = MonthNo(x) \div 3
          PROVE  Civil(x).year = q \div 4 /\ Quarter(Civil(x).month) = (q % 4) + 1
        <3>1. PICK k \in Nat, m \in 1..12 :
                  k = MonthNo(x) /\ m = Civil(x).month /\ Civil(x).year = k \div 12 /\ m = (k % 12) + 1
            BY CivilIs
        <3>2. q = k \div 3
            BY <2>1, <3>1
        <3>3. k \div 12 = q \div 4
            BY <3>2
        <3>4. (k % 12) \div 3 = q % 4
            <4>1. k = 12 * (k \div 12) + (k % 12) /\ k % 12 \in 0..11
                OBVIOUS
            <4>2. PICK c \in Int, r \in 0..11 : c = k \div 12 /\ r = k % 12 /\ k = 12 * c + r
                BY <4>1
            <4>3. q = 4 * c + (r \div 3) /\ r \div 3 \in 0..3
                BY <3>2, <4>2
            <4>4. PICK e \in 0..3 : e = r \div 3
                BY <4>3
            <4>5. q % 4 = e
                BY <4>3, <4>4
            <4>6. QED
                BY <4>2, <4>4, <4>5
        <3>5. ((m - 1) \div 3) + 1 = (q % 4) + 1
            BY <3>1, <3>4
        <3>6. QED
            BY <3>1, <3>3, <3>5 DEF Quarter
    <2>2. q = MonthNo(s) \div 3 /\ q = MonthNo(t) \div 3
        BY <1>1, <1>4, UnitNumber
    <2>3. Civil(s).year = Civil(t).year /\ Quarter(Civil(s).month) = Quarter(Civil(t).month)
        BY <1>1, <2>1, <2>2
    <2>4. QED
        BY <1>4, <2>3 DEF Token
<1>5. CASE u = "month"
    <2>1. MonthNo(s) = MonthNo(t)
        BY <1>1, <1>5, UnitNumber
    <2>2. /\ Civil(s).year = MonthNo(s) \div 12 /\ Civil(s).month = (MonthNo(s) % 12) + 1
          /\ Civil(t).year = MonthNo(t) \div 12 /\ Civil(t).month = (MonthNo(t) % 12) + 1
        BY <1>1, CivilIs
    <2>3. Civil(s).year = Civil(t).year /\ Civil(s).month = Civil(t).month
        BY <2>1, <2>2
    <2>4. QED
        BY <1>5, <2>3 DEF Token
<1>6. CASE u = "week"
    <2>1. s \div 7 = t \div 7
        <3>1. q = s \div 7
            BY <1>1, <1>6, UnitNumber
        <3>2. q = t \div 7
            BY <1>1, <1>6, UnitNumber
        <3>3. QED
            BY <3>1, <3>2
    <2>2. ISOWeek(s) = WeekOf(7 * (s \div 7) + 3) /\ ISOWeek(t) = WeekOf(7 * (t \div 7) + 3)
        BY <1>1, WeekIs
    <2>3. ISOWeek(s) = ISOWeek(t)
        BY <2>1, <2>2
    <2>4. QED
        BY <1>6, <2>3 DEF Token
<1>7. CASE u = "day"
    <2>1. q = s /\ q = t
        BY <1>1, <1>7, UnitNumber
    <2>2. QED
        BY <2>1
<1>8. QED
    BY <1>3, <1>4, <1>5, <1>6, <1>7 DEF Units

(* The interval of a unit. *)
Unit(u, q) == [ok |-> TRUE, start |-> StartOfUnit(u, q), end |-> StartOfUnit(u, q + 1) - 1]

(* A date's token is read as the interval of the unit that the date is in. *)
LEMMA TokenOfUnit ==
    ASSUME NEW u \in Units, NEW q \in Int, NEW t \in Written, NEW today,
           Spans(u, q, t), StartOfUnit(u, q) \in Nat
    PROVE  /\ First(u, t) = StartOfUnit(u, q)
           /\ At(u, t).form = u /\ Kind(At(u, t)) = u
           /\ ParseOne(At(u, t), today) = Unit(u, q) /\ Parse(At(u, t), today) = Unit(u, q)
<1>1. t \in Nat
    BY DEF Written
<1>2. PICK r \in Nat : Spans(u, r, t) /\ First(u, t) = StartOfUnit(u, r)
    BY <1>1, FirstIs
<1>3. r = q
    BY <1>1, <1>2, OneUnit
<1>4. At(u, t).form = u /\ ParseOne(At(u, t), today) = Lasting(u, First(u, t))
    BY TokenIs
<1>5. ParseOne(At(u, t), today) = Unit(u, q)
    BY <1>2, <1>3, <1>4, LastingIs DEF Unit
<1>6. u \notin {"empty", "range", "junk", "relative"}
    BY DEF Units
<1>7. Kind(At(u, t)) = u
    BY <1>4, <1>6 DEF Kind
<1>8. Parse(At(u, t), today) = ParseOne(At(u, t), today)
    BY <1>4, <1>6 DEF Parse
<1>9. QED
    BY <1>2, <1>3, <1>4, <1>5, <1>7, <1>8

(* Two dates with one token are in one unit. *)
LEMMA OneToken ==
    ASSUME NEW u \in Units, NEW q \in Int, NEW r \in Int, NEW s \in Written, NEW t \in Written,
           Spans(u, q, s), StartOfUnit(u, q) \in Nat, Spans(u, r, t), StartOfUnit(u, r) \in Nat,
           At(u, s) = At(u, t)
    PROVE  q = r
<1>1. First(u, s) = StartOfUnit(u, q) /\ ParseOne(At(u, s), Zero) = Unit(u, q)
    BY TokenOfUnit
<1>2. First(u, t) = StartOfUnit(u, r) /\ ParseOne(At(u, t), Zero) = Unit(u, r)
    BY TokenOfUnit
<1>3. StartOfUnit(u, q) = StartOfUnit(u, r)
    BY <1>1, <1>2 DEF Unit
<1>4. /\ StartOfUnit(u, q) < StartOfUnit(u, q + 1)
      /\ StartOfUnit(u, r) < StartOfUnit(u, r + 1)
    BY UnitsApart
<1>5. Spans(u, q, StartOfUnit(u, q)) /\ Spans(u, r, StartOfUnit(u, q))
    BY <1>3, <1>4 DEF Spans
<1>6. QED
    BY <1>5, OneUnit

----------------------------------------------------------------------------
(* Filters *)

(* The dates of the years 4 to 9997: those next to a unit of one of them   *)
(* are dates of the calendar with years of four digits.                    *)
Window == 1095..DaysBefore(9998) - 1

LEMMA NearWindow ==
    ASSUME NEW t \in Window, NEW s \in Int, t - 1095 <= s, s <= t + 720
    PROVE  t \in Nat /\ s \in Nat /\ s \in Written
<1>1. PICK y \in Int : y = 9998
    OBVIOUS
<1>2. y + 1 + 1 = 10000 /\ y + 1 \in Int
    BY <1>1
<1>3. /\ DaysBefore(y) \in Int
      /\ DaysBefore(y + 1) \in Int /\ DaysBefore(y + 1) >= DaysBefore(y) + 365
    BY YearLength
<1>4. /\ DaysBefore(y + 1 + 1) \in Int
      /\ DaysBefore(y + 1 + 1) >= DaysBefore(y + 1) + 365
    BY <1>2, YearLength
<1>5. Beyond = DaysBefore(y + 1 + 1)
    BY <1>2 DEF Beyond
<1>6. t \in Int /\ 1095 <= t /\ t <= DaysBefore(y) - 1
    BY <1>1, <1>3 DEF Window
<1>7. s \in Nat /\ s <= Beyond - 8
    BY <1>3, <1>4, <1>5, <1>6
<1>8. QED
    BY <1>6, <1>7 DEF Written

(* A unit that begins at a date of the window. *)
LEMMA StepUnit ==
    ASSUME NEW f, NEW u \in Units, NEW q \in Int, NEW n \in Int, NEW today,
           f.form # "empty", Kind(f) = u, Parse(f, today) = Unit(u, q),
           StartOfUnit(u, q) \in Nat \ {0}, StartOfUnit(u, q + n) \in Written
    PROVE  \E g \in {At(u, StartOfUnit(u, q + n))} :
              /\ Shift(f, today, n) = [ok |-> TRUE, filter |-> g]
              /\ g.form = u /\ Kind(g) = u /\ Parse(g, today) = Unit(u, q + n)
<1>1. PICK g \in {At(u, StartOfUnit(u, q + n))} : g = At(u, StartOfUnit(u, q + n))
    OBVIOUS
<1>2. StartOfUnit(u, q + n) \in Nat /\ q + n \in Int
    BY DEF Written
<1>3. Spans(u, q + n, StartOfUnit(u, q + n))
    BY <1>2, UnitsApart DEF Spans
<1>4. g.form = u /\ Kind(g) = u /\ Parse(g, today) = Unit(u, q + n)
    BY <1>1, <1>2, <1>3, TokenOfUnit
<1>5. Plus(StartOfUnit(u, q), u, n) = StartOfUnit(u, q + n)
    BY PlusUnits
<1>6. Step(u, Unit(u, q), n) = g
    BY <1>1, <1>5 DEF Step, Unit
<1>7. u # "custom"
    BY DEF Units
<1>8. ShiftPeriod(f, Unit(u, q), n) = [ok |-> TRUE, filter |-> g]
    BY <1>6, <1>7 DEF ShiftPeriod, Unit, Zero
<1>9. Shift(f, today, n) = [ok |-> TRUE, filter |-> g]
    BY <1>8 DEF Shift
<1>10. QED
    BY <1>4, <1>9

(* The unit of a date of the window and the units next to it.              *)
LEMMA UnitOfDate ==
    ASSUME NEW u \in Units, NEW t \in Window
    PROVE  \E q \in Nat :
              /\ Spans(u, q, t)
              /\ StartOfUnit(u, q - 1) \in Written /\ StartOfUnit(u, q) \in Written \ {0}
              /\ StartOfUnit(u, q) - 1 \in Written
              /\ StartOfUnit(u, q + 1) \in Written /\ StartOfUnit(u, q + 1) - 1 \in Written
<1>1. t \in Nat /\ t \in Written /\ 1095 <= t
    <2>1. t \in Int
        BY DEF Window
    <2>2. t \in Nat /\ t \in Written
        BY <2>1, NearWindow
    <2>3. QED
        BY <2>2 DEF Window
<1>2. PICK q \in Nat : Spans(u, q, t)
    BY <1>1, FirstIs
<1>3. PICK p \in Int : p = q - 1
    OBVIOUS
<1>4. p + 1 = q
    BY <1>3
<1>5. PICK a \in Int, b \in Int, c \in Int :
          /\ a = StartOfUnit(u, p) /\ b = StartOfUnit(u, q) /\ c = StartOfUnit(u, q + 1)
          /\ b <= a + 366 /\ c <= b + 366
    <2>1. StartOfUnit(u, p) \in Int /\ StartOfUnit(u, p + 1) <= StartOfUnit(u, p) + 366
        BY UnitsApart
    <2>2. StartOfUnit(u, q) \in Int /\ StartOfUnit(u, q + 1) <= StartOfUnit(u, q) + 366
        BY UnitsApart
    <2>3. StartOfUnit(u, q + 1) \in Int
        BY UnitsApart
    <2>4. QED
        BY <1>4, <2>1, <2>2, <2>3
<1>6. b <= t /\ t < c
    BY <1>2, <1>5 DEF Spans
<1>7. /\ a >= t - 731 /\ b >= t - 365
      /\ c <= t + 366
    BY <1>1, <1>5, <1>6
<1>8. a <= b
    <2>1. StartOfUnit(u, p) < StartOfUnit(u, p + 1)
        BY UnitsApart
    <2>2. QED
        BY <1>4, <1>5, <2>1
<1>9. a \in Written /\ b \in Written /\ b - 1 \in Written /\ c \in Written /\ c - 1 \in Written
    <2>1. a \in Written
        BY <1>1, <1>6, <1>7, <1>8, NearWindow
    <2>2. b \in Written
        BY <1>1, <1>6, <1>7, NearWindow
    <2>3. b - 1 \in Int /\ t - 1095 <= b - 1 /\ b - 1 <= t + 720
        BY <1>1, <1>6, <1>7
    <2>4. c - 1 \in Int /\ t - 1095 <= c - 1 /\ c - 1 <= t + 720
        BY <1>1, <1>6, <1>7
    <2>5. b - 1 \in Written /\ c - 1 \in Written
        BY <2>3, <2>4, NearWindow
    <2>6. c \in Written
        BY <1>1, <1>6, <1>7, NearWindow
    <2>7. QED
        BY <2>1, <2>2, <2>5, <2>6
<1>10. b # 0
    BY <1>1, <1>7
<1>11. QED
    BY <1>2, <1>3, <1>5, <1>9, <1>10

(* The period of a date is that of its days and of none next to it.        *)
LEMMA CoversDate ==
    ASSUME NEW u \in Units, NEW t \in Window, NEW today
    PROVE  Covers(u, At(u, t), Parse(At(u, t), today), t)
<1>1. t \in Written /\ t \in Nat
    <2>1. t \in Int
        BY DEF Window
    <2>2. QED
        BY <2>1, NearWindow
<1>2. PICK q \in Nat :
          /\ Spans(u, q, t)
          /\ StartOfUnit(u, q - 1) \in Written /\ StartOfUnit(u, q) \in Written \ {0}
          /\ StartOfUnit(u, q) - 1 \in Written
          /\ StartOfUnit(u, q + 1) \in Written /\ StartOfUnit(u, q + 1) - 1 \in Written
    BY UnitOfDate
<1>3. PICK p \in Int : p = q - 1
    OBVIOUS
<1>4. PICK n \in Int : n = q + 1
    OBVIOUS
<1>5. PICK a \in Written, b \in Written \ {0}, c \in Written :
          a = StartOfUnit(u, p) /\ b = StartOfUnit(u, q) /\ c = StartOfUnit(u, n)
    BY <1>2, <1>3, <1>4
<1>6. a \in Nat /\ b \in Nat /\ c \in Nat
    BY DEF Written
<1>7. b - 1 \in Written /\ c - 1 \in Written
    BY <1>2, <1>4, <1>5
<1>8. a < b /\ b < c
    <2>1. StartOfUnit(u, p) < StartOfUnit(u, p + 1) /\ p + 1 = q
        BY <1>3, UnitsApart
    <2>2. StartOfUnit(u, q) < StartOfUnit(u, q + 1)
        BY UnitsApart
    <2>3. QED
        BY <1>4, <1>5, <2>1, <2>2
<1>9. Spans(u, q, b) /\ Spans(u, q, c - 1)
    BY <1>4, <1>5, <1>6, <1>8 DEF Spans
<1>10. Spans(u, p, b - 1)
    <2>1. p + 1 = q
        BY <1>3
    <2>2. QED
        BY <1>5, <1>6, <1>8, <2>1 DEF Spans
<1>11. Spans(u, n, c)
    <2>1. StartOfUnit(u, n) < StartOfUnit(u, n + 1)
        BY UnitsApart
    <2>2. QED
        BY <1>5, <1>6, <2>1 DEF Spans
<1>12. PICK r \in {Parse(At(u, t), today)} : r = [ok |-> TRUE, start |-> b, end |-> c - 1]
    <2>1. Parse(At(u, t), today) = Unit(u, q)
        BY <1>1, <1>2, <1>5, <1>6, TokenOfUnit
    <2>2. QED
        BY <1>4, <1>5, <2>1 DEF Unit
<1>13. InRange(t, r)
    <2>1. b <= t /\ t < c
        BY <1>2, <1>4, <1>5 DEF Spans
    <2>2. t <= c - 1
        BY <1>1, <1>6, <2>1
    <2>3. QED
        BY <1>12, <2>1, <2>2 DEF InRange
<1>14. At(u, b) = At(u, t) /\ At(u, c - 1) = At(u, t)
    BY <1>1, <1>2, <1>5, <1>7, <1>9, SameToken
<1>15. At(u, b - 1) # At(u, t)
    <2>1. At(u, b - 1) = At(u, t) => p = q
        BY <1>1, <1>2, <1>5, <1>6, <1>7, <1>10, OneToken
    <2>2. QED
        BY <1>3, <2>1
<1>16. At(u, c) # At(u, t)
    <2>1. At(u, c) = At(u, t) => n = q
        BY <1>1, <1>2, <1>5, <1>6, <1>11, OneToken
    <2>2. QED
        BY <1>4, <2>1
<1>17. r.ok /\ r.start = b /\ r.end = c - 1 /\ r.start - 1 = b - 1 /\ r.end + 1 = c
    BY <1>6, <1>12
<1>18. Covers(u, At(u, t), r, t)
    <2>1. \A day \in {r.start, r.end} : At(u, day) = At(u, t)
        BY <1>14, <1>17
    <2>2. \A day \in {r.start - 1, r.end + 1} : At(u, day) # At(u, t)
        BY <1>15, <1>16, <1>17
    <2>3. QED
        BY <1>13, <1>17, <2>1, <2>2 DEF Covers
<1>19. QED
    BY <1>18

(* A filter of one token that begins in the window is one unit.            *)
LEMMA ParsedUnit ==
    ASSUME NEW f \in TokenFilters, NEW today \in Window,
           ParseOne(f, today).ok, ParseOne(f, today).start \in Nat
    PROVE  Kind(f) \in Units /\ \E q \in Int : ParseOne(f, today) = Unit(Kind(f), q)
<1>1. f # Junk
    BY DEF ParseOne, Invalid, Junk
<1>2. ASSUME NEW u \in Units, NEW q \in Int,
             ParseOne(f, today) = Lasting(u, StartOfUnit(u, q))
      PROVE  ParseOne(f, today) = Unit(u, q)
    <2>1. StartOfUnit(u, q) \in Nat
        BY <1>2 DEF Lasting
    <2>2. QED
        BY <1>2, <2>1, LastingIs DEF Unit
<1>3. CASE f \in [form : {"relative"}, unit : Units, offset : Int]
    <2>1. PICK u \in Units, n \in Int : f.form = "relative" /\ u = f.unit /\ n = f.offset
        BY <1>3
    <2>2. Kind(f) = u /\ ParseOne(f, today) = Lasting(u, Plus(First(u, today), u, n))
        BY <2>1 DEF Kind, ParseOne, Resolve
    <2>3. today \in Nat /\ today \in Written
        <3>1. today \in Int
            BY DEF Window
        <3>2. QED
            BY <3>1, NearWindow
    <2>4. PICK q \in Nat : Spans(u, q, today) /\ StartOfUnit(u, q) \in Nat
        BY UnitOfDate DEF Written
    <2>5. First(u, today) = StartOfUnit(u, q)
        BY <2>3, <2>4, TokenOfUnit
    <2>6. Plus(First(u, today), u, n) = StartOfUnit(u, q + n)
        BY <2>4, <2>5, PlusUnits
    <2>7. q + n \in Int /\ ParseOne(f, today) = Lasting(u, StartOfUnit(u, q + n))
        BY <2>2, <2>6
    <2>8. ParseOne(f, today) = Unit(u, q + n)
        BY <1>2, <2>7
    <2>9. QED
        BY <2>2, <2>7, <2>8
<1>4. CASE f \in [form : Units, year : FourDigits, n : Int, day : Int]
    <2>1. PICK u \in Units, y \in Int, n \in Int, d \in Int :
              u = f.form /\ y = f.year /\ n = f.n /\ d = f.day
        <3>1. f.form \in Units /\ f.year \in FourDigits /\ f.n \in Int /\ f.day \in Int
            BY <1>4
        <3>2. \A y \in FourDigits : y \in Int
            BY DEF FourDigits
        <3>3. QED
            BY <3>1, <3>2
    <2>2. u \notin {"empty", "junk", "range", "relative"}
        BY DEF Units
    <2>3. Kind(f) = u
        BY <2>1, <2>2 DEF Kind
    <2>4. ValidToken(f)
        BY <2>1, <2>2 DEF ParseOne, Invalid
    <2>5. SUFFICES \E q \in Int : ParseOne(f, today) = Lasting(u, StartOfUnit(u, q))
        BY <1>2, <2>3
    <2>6. CASE u = "year"
        <3>1. ParseOne(f, today) = Lasting(u, Date(y, 1, 1))
            BY <2>1, <2>2, <2>4, <2>6 DEF ParseOne
        <3>2. Date(y, 1, 1) = MonthStart(12 * y)
            BY NewYear, YearLength
        <3>3. QED
            BY <2>6, <3>1, <3>2, StartOfEach
    <2>7. CASE u = "quarter"
        <3>1. ParseOne(f, today) = Lasting(u, Date(y, 1 + 3 * (n - 1), 1))
            BY <2>1, <2>2, <2>4, <2>7 DEF ParseOne
        <3>2. PICK m \in Int, q \in Int : m = 1 + 3 * (n - 1) /\ q = 4 * y + n - 1
            OBVIOUS
        <3>3. Date(y, m, 1) = MonthStart(12 * y + m - 1) + 1 - 1
            BY DateIs
        <3>4. 12 * y + m - 1 = 3 * q /\ MonthStart(3 * q) \in Int
            BY <3>2, MonthStep
        <3>5. Date(y, m, 1) = MonthStart(3 * q)
            BY <3>3, <3>4
        <3>6. StartOfUnit(u, q) = MonthStart(3 * q)
            BY <2>7, StartOfEach
        <3>7. QED
            BY <3>1, <3>2, <3>5, <3>6
    <2>8. CASE u = "month"
        <3>1. ParseOne(f, today) = Lasting(u, Date(y, n, 1))
            BY <2>1, <2>2, <2>4, <2>8 DEF ParseOne
        <3>2. PICK q \in Int : q = 12 * y + n - 1
            OBVIOUS
        <3>3. Date(y, n, 1) = MonthStart(12 * y + n - 1) + 1 - 1
            BY DateIs
        <3>4. MonthStart(q) \in Int
            BY MonthStep
        <3>5. Date(y, n, 1) = MonthStart(q)
            BY <3>2, <3>3, <3>4
        <3>6. StartOfUnit(u, q) = MonthStart(q)
            BY <2>8, StartOfEach
        <3>7. QED
            BY <3>1, <3>5, <3>6
    <2>9. CASE u = "week"
        <3>1. ParseOne(f, today) = Lasting(u, IsoWeekStart(y, n))
            BY <2>1, <2>2, <2>4, <2>9 DEF ParseOne
        <3>2. PICK t \in Int : t = Date(y, 1, 4)
            BY NewYear, YearLength
        <3>3. IsoWeekStart(y, n) = (t - (t % 7)) + 7 * (n - 1)
            BY <3>2, MondayIs DEF IsoWeekStart
        <3>4. PICK q \in Int : q = (t \div 7) + n - 1
            OBVIOUS
        <3>5. (t - (t % 7)) + 7 * (n - 1) = 7 * q
            BY <3>4
        <3>6. StartOfUnit(u, q) = 7 * q
            BY <2>9, StartOfEach
        <3>7. QED
            BY <3>1, <3>3, <3>5, <3>6
    <2>10. CASE u = "day"
        <3>1. ParseOne(f, today) = Lasting(u, Date(y, n, d))
            BY <2>1, <2>2, <2>4, <2>10 DEF ParseOne
        <3>2. PICK k \in Int : k = 12 * y + n - 1
            OBVIOUS
        <3>3. Date(y, n, d) = MonthStart(12 * y + n - 1) + d - 1
            BY DateIs
        <3>4. MonthStart(k) \in Int
            BY MonthStep
        <3>5. Date(y, n, d) \in Int
            BY <3>2, <3>3, <3>4
        <3>6. StartOfUnit(u, Date(y, n, d)) = Date(y, n, d)
            BY <2>10, StartOfEach
        <3>7. QED
            BY <3>1, <3>5, <3>6
    <2>11. QED
        BY <2>6, <2>7, <2>8, <2>9, <2>10 DEF Units
<1>5. QED
    BY <1>1, <1>3, <1>4 DEF TokenFilters

----------------------------------------------------------------------------
(* Pages *)

(* Today, the period of the filter and the periods that relative filters   *)
(* name stay in the window.                                                *)
Legible ==
    /\ now \in Window
    /\ \E r \in {Parse(filter, now)} :
          r.ok /\ r.start # Zero => r.start \in Window /\ r.end \in Window
    /\ \A unit \in Units, offset \in Offsets : Plus(First(unit, now), unit, offset) \in Window

LEMMA WindowDates == Window \subseteq Written /\ Written \subseteq Nat
<1>1. ASSUME NEW t \in Window
      PROVE  t \in Written
    <2>1. t \in Int
        BY DEF Window
    <2>2. QED
        BY <2>1, NearWindow
<1>2. QED
    BY <1>1 DEF Written

LEMMA AnchorInWindow == Legible => AnchorDate(filter, now) \in Window
BY DEF Legible, AnchorDate, StartOf

LEMMA DatesHaveTokens ==
    ASSUME NEW u \in Units, NEW t \in Written
    PROVE  At(u, t) \in TokenFilters
BY TokenIs DEF TokenFilters

(* The periods of each kind divide time: the period of the date that a     *)
(* page is anchored to is the one of its first and of its last day, and    *)
(* not of the days next to it, for every date of the calendar.             *)
THEOREM PeriodsDivideTime == Spec => [](Legible => PeriodsPartition)
<1>1. Legible => PeriodsPartition
    <2>1. SUFFICES ASSUME Legible, NEW kind \in Units
                   PROVE  \E f \in {SetInterval(filter, now, kind)} :
                             Covers(kind, f, Parse(f, now), AnchorDate(filter, now))
        BY DEF PeriodsPartition
    <2>2. PICK t \in Window : t = AnchorDate(filter, now)
        BY <2>1, AnchorInWindow
    <2>3. kind # ""
        BY DEF Units
    <2>4. SetInterval(filter, now, kind) = At(kind, t)
        BY <2>2, <2>3 DEF SetInterval
    <2>5. Covers(kind, At(kind, t), Parse(At(kind, t), now), t)
        BY CoversDate
    <2>6. QED
        BY <2>2, <2>4, <2>5
<1>2. QED
    BY <1>1, PTL DEF Spec

(* A relative filter is read as the period that the arrows of a page lead  *)
(* to from the one around today, however far.                              *)
THEOREM RelativeFiltersAgree == Spec => [](Legible => RelativeAgrees)
<1>1. Legible => RelativeAgrees
    <2>1. SUFFICES ASSUME Legible, NEW u \in Units, NEW n \in Offsets
                   PROVE  Parse(Relative(u, n), now) = Parse(Shift(At(u, now), now, n).filter, now)
        BY DEF RelativeAgrees
    <2>2. n \in Int
        BY FiltersAssumption
    <2>3. now \in Window /\ Plus(First(u, now), u, n) \in Window
        BY <2>1 DEF Legible
    <2>4. PICK q \in Nat : Spans(u, q, now) /\ StartOfUnit(u, q) \in Written \ {0}
        BY <2>3, UnitOfDate
    <2>5. now \in Written /\ StartOfUnit(u, q) \in Nat \ {0}
        BY <2>3, <2>4, WindowDates
    <2>6. /\ First(u, now) = StartOfUnit(u, q) /\ Parse(At(u, now), now) = Unit(u, q)
          /\ At(u, now).form = u /\ Kind(At(u, now)) = u
        BY <2>4, <2>5, TokenOfUnit
    <2>7. Plus(First(u, now), u, n) = StartOfUnit(u, q + n)
        BY <2>2, <2>5, <2>6, PlusUnits
    <2>8. q + n \in Int /\ StartOfUnit(u, q + n) \in Written /\ StartOfUnit(u, q + n) \in Nat
        <3>1. StartOfUnit(u, q + n) \in Window
            BY <2>3, <2>7
        <3>2. StartOfUnit(u, q + n) \in Written /\ StartOfUnit(u, q + n) \in Nat
            BY <3>1, WindowDates
        <3>3. q + n \in Int
            BY <2>2
        <3>4. QED
            BY <3>2, <3>3
    <2>9. Parse(Relative(u, n), now) = Unit(u, q + n)
        <3>1. Parse(Relative(u, n), now) = Lasting(u, StartOfUnit(u, q + n))
            BY <2>7 DEF Parse, ParseOne, Resolve, Relative
        <3>2. QED
            BY <2>8, <3>1, LastingIs DEF Unit
    <2>10. Parse(Shift(At(u, now), now, n).filter, now) = Unit(u, q + n)
        <3>1. u # "empty"
            BY DEF Units
        <3>2. PICK g \in {At(u, StartOfUnit(u, q + n))} :
                  Shift(At(u, now), now, n) = [ok |-> TRUE, filter |-> g] /\ Parse(g, now) = Unit(u, q + n)
            BY <2>2, <2>5, <2>6, <2>8, <3>1, StepUnit
        <3>3. QED
            BY <3>2
    <2>11. QED
        BY <2>9, <2>10
<1>2. QED
    BY <1>1, PTL DEF Spec

(* The steps from a page *)

(* A date moved by a month moves by a month's days.                        *)
LEMMA MonthAway ==
    ASSUME NEW t \in Window, NEW delta \in {-1, 1}
    PROVE  Plus(t, "month", delta) \in t - 31..t + 31
<1>1. t \in Nat
    BY WindowDates
<1>2. PICK k \in Int, j \in Int : k = MonthNo(t) /\ j = k - 1
    <2>1. MonthNo(t) \in Int
        BY <1>1, CivilIs
    <2>2. MonthNo(t) - 1 \in Int
        BY <2>1
    <2>3. QED
        BY <2>1, <2>2
<1>3. Plus(t, "month", delta) = MonthStart(k + delta) + (t - MonthStart(k))
    <2>1. delta \in Int
        OBVIOUS
    <2>2. QED
        BY <1>1, <1>2, <2>1, PlusIs
<1>4. MonthStart(k) \in Int /\ MonthSize(k) \in 28..31 /\ MonthStart(k + 1) = MonthStart(k) + MonthSize(k)
    BY MonthStep
<1>5. MonthStart(j) \in Int /\ MonthSize(j) \in 28..31 /\ MonthStart(j + 1) = MonthStart(j) + MonthSize(j)
    BY MonthStep
<1>6. CASE delta = 1
    BY <1>1, <1>3, <1>4, <1>6
<1>7. CASE delta = -1
    <2>1. k + delta = j /\ j + 1 = k
        BY <1>2, <1>7
    <2>2. QED
        BY <1>1, <1>3, <1>4, <1>5, <2>1
<1>8. QED
    BY <1>6, <1>7

(* The units before and after one that begins in the window.               *)
LEMMA UnitsAround ==
    ASSUME NEW u \in Units, NEW q \in Int, StartOfUnit(u, q) \in Window
    PROVE  StartOfUnit(u, q + 1) \in Written /\ StartOfUnit(u, q - 1) \in Written
<1>1. PICK t \in Window : t = StartOfUnit(u, q)
    OBVIOUS
<1>2. t \in Nat
    BY WindowDates
<1>3. PICK p \in Int : p = q - 1 /\ p + 1 = q
    OBVIOUS
<1>4. PICK c \in Int : c = StartOfUnit(u, q + 1) /\ t < c /\ c <= t + 366
    BY <1>1, UnitsApart
<1>5. PICK a \in Int : a = StartOfUnit(u, p) /\ a < t /\ t <= a + 366
    BY <1>1, <1>3, UnitsApart
<1>6. c \in Written
    BY <1>2, <1>4, NearWindow
<1>7. a \in Written
    <2>1. t - 1095 <= a /\ a <= t + 720
        BY <1>2, <1>5
    <2>2. QED
        BY <2>1, NearWindow
<1>8. QED
    BY <1>3, <1>4, <1>5, <1>6, <1>7

(* Where the arrows of a page lead from a filter of one unit.              *)
LEMMA ArrowsOfUnit ==
    ASSUME NEW f, NEW u \in Units, NEW q \in Int, f.form # "empty",
           Kind(f) = u, Parse(f, now) = Unit(u, q),
           StartOfUnit(u, q) \in Written \ {0}, StartOfUnit(u, q + 1) \in Written
    PROVE  \E there \in {Shift(f, now, 1)} :
              Follows(Kind(f), Parse(there.filter, now), Parse(f, now),
                      Parse(Shift(there.filter, now, -1).filter, now))
<1>1. StartOfUnit(u, q) \in Nat \ {0} /\ StartOfUnit(u, q + 1) \in Nat
    BY WindowDates
<1>2. PICK n \in Int : n = q + 1 /\ n + (-1) = q
    OBVIOUS
<1>3. PICK g \in {At(u, StartOfUnit(u, q + 1))} :
          /\ Shift(f, now, 1) = [ok |-> TRUE, filter |-> g]
          /\ g.form = u /\ Kind(g) = u /\ Parse(g, now) = Unit(u, q + 1)
    BY <1>1, StepUnit
<1>4. StartOfUnit(u, n) \in Nat \ {0}
    <2>1. StartOfUnit(u, q) < StartOfUnit(u, q + 1)
        BY UnitsApart
    <2>2. QED
        BY <1>1, <1>2, <2>1
<1>5. g.form # "empty"
    BY <1>3 DEF Units
<1>6. PICK h \in {At(u, StartOfUnit(u, n + (-1)))} :
          /\ Shift(g, now, -1) = [ok |-> TRUE, filter |-> h]
          /\ Parse(h, now) = Unit(u, n + (-1))
    BY <1>2, <1>3, <1>4, <1>5, StepUnit
<1>7. Parse(h, now) = Unit(u, q)
    BY <1>2, <1>6
<1>8. u # "custom"
    BY DEF Units
<1>9. Unit(u, q + 1).ok /\ Unit(u, q + 1).start = Unit(u, q).end + 1
    BY <1>1 DEF Unit
<1>10. Follows(u, Unit(u, q + 1), Unit(u, q), Unit(u, q))
    BY <1>8, <1>9 DEF Follows
<1>11. QED
    BY <1>3, <1>6, <1>7, <1>10

(* And from a range.                                                       *)
KeepsLength(there, here) ==
    here.end - here.start \in 0..LongestSpan => there.end - there.start = here.end - here.start

LEMMA ArrowsOfRange ==
    ASSUME NEW f, NEW delta \in {-1, 1}, f.form = "range",
           Parse(f, now).ok, Parse(f, now).start \in Window, Parse(f, now).end \in Window
    PROVE  \E g \in Filters :
              /\ Shift(f, now, delta) = [ok |-> TRUE, filter |-> g]
              /\ Parse(g, now).ok
              /\ KeepsLength(Parse(g, now), Parse(f, now))
<1>1. PICK s \in Window, e \in Window :
          s = Parse(f, now).start /\ e = Parse(f, now).end
    OBVIOUS
<1>2. s \in Nat \ {0} /\ e \in Nat \ {0}
    <2>1. 0 \notin Window
        BY DEF Window
    <2>2. QED
        BY <2>1, WindowDates
<1>3. Parse(f, now) = [ok |-> TRUE, start |-> s, end |-> e] /\ s <= e
    <2>1. Parse(f, now) = Joined(ParseOne(f.left, now), ParseOne(f.right, now))
        BY DEF Parse
    <2>2. PICK a \in {ParseOne(f.left, now)}, b \in {ParseOne(f.right, now)} : Parse(f, now) = Joined(a, b)
        BY <2>1
    <2>3. Joined(a, b).ok
        BY <2>2
    <2>4. /\ a.start = Zero \/ b.end = Zero \/ a.start <= b.end
          /\ Joined(a, b) = [ok |-> TRUE, start |-> a.start, end |-> b.end]
        BY <2>3 DEF Joined, Invalid
    <2>5. a.start = s /\ b.end = e
        BY <1>1, <2>2, <2>4
    <2>6. QED
        BY <1>2, <2>2, <2>4, <2>5 DEF Zero
<1>4. PICK s2 \in Int : s2 = Plus(s, "month", delta) /\ s - 31 <= s2 /\ s2 <= s + 31
    <2>1. Plus(s, "month", delta) \in s - 31..s + 31
        BY MonthAway
    <2>2. QED
        BY <1>2, <2>1
<1>5. PICK e2 \in Int :
          /\ e2 = s2 + SpanOf([ok |-> TRUE, start |-> s, end |-> e])
          /\ s2 <= e2 /\ e2 <= e + 31
          /\ e - s \in 0..LongestSpan => e2 - s2 = e - s
    <2>1. PICK n \in Nat : /\ n = SpanOf([ok |-> TRUE, start |-> s, end |-> e])
                          /\ n <= e - s /\ (e - s \in 0..LongestSpan => n = e - s)
        <3>1. PICK d \in Nat : d = e - s
            BY <1>2, <1>3
        <3> DEFINE cap == LongestSpan
        <3>2. cap \in Nat
            BY DEF LongestSpan
        <3> HIDE DEF cap
        <3>3. PICK n \in Nat : n = (IF d < cap THEN d ELSE cap) /\ n <= d
            BY <3>2
        <3>4. ASSUME d \in 0..cap PROVE n = d
            <4>1. d <= cap
                BY <3>2, <3>4
            <4>2. QED
                BY <3>2, <3>3, <4>1
        <3>5. SpanOf([ok |-> TRUE, start |-> s, end |-> e]) = n
            BY <3>1, <3>3 DEF SpanOf, cap
        <3>6. e - s \in 0..LongestSpan => n = e - s
            BY <3>1, <3>4 DEF cap
        <3>7. QED
            BY <3>1, <3>3, <3>5, <3>6
    <2>2. /\ s2 + n \in Int /\ s2 <= s2 + n /\ s2 + n <= e + 31
          /\ e - s \in 0..LongestSpan => (s2 + n) - s2 = e - s
        BY <1>2, <1>4, <2>1
    <2>3. QED
        BY <2>1, <2>2
<1>6. s2 \in Written /\ s2 \in Nat
    <2>1. s - 1095 <= s2 /\ s2 <= s + 720
        BY <1>2, <1>4
    <2>2. QED
        BY <2>1, NearWindow
<1>7. e2 \in Written /\ e2 \in Nat
    <2>1. e + 31 \in Int /\ e - 1095 <= e + 31 /\ e + 31 <= e + 720
        BY <1>2
    <2>2. e + 31 \in Written
        BY <2>1, NearWindow
    <2>3. PICK last \in Int : last = Beyond - 8
        BY YearLength DEF Beyond
    <2>4. 0 <= s2 /\ e + 31 <= last
        BY <1>6, <2>2, <2>3 DEF Written
    <2>5. e2 \in 0..last
        BY <1>4, <1>5, <2>1, <2>3, <2>4
    <2>6. QED
        BY <2>3, <2>5 DEF Written
<1>8. PICK g \in {Between(At("day", s2), At("day", e2))} : g = Between(At("day", s2), At("day", e2))
    OBVIOUS
<1>9. Shift(f, now, delta) = [ok |-> TRUE, filter |-> g]
    <2>1. RangeFrom(s2, [ok |-> TRUE, start |-> s, end |-> e]) = g
        <3>1. [ok |-> TRUE, start |-> s, end |-> e].end # Zero
            BY <1>2 DEF Zero
        <3>2. QED
            BY <1>5, <1>8, <3>1 DEF RangeFrom
    <2>2. Kind(f) = "custom"
        BY DEF Kind
    <2>3. ShiftPeriod(f, [ok |-> TRUE, start |-> s, end |-> e], delta) = [ok |-> TRUE, filter |-> g]
        BY <1>2, <1>4, <2>1, <2>2 DEF ShiftPeriod, Zero
    <2>4. QED
        BY <1>3, <2>3 DEF Shift
<1>10. ASSUME NEW t \in Written
       PROVE  ParseOne(At("day", t), now) = [ok |-> TRUE, start |-> t, end |-> t]
    <2>1. t \in Nat /\ StartOfUnit("day", t) = t /\ StartOfUnit("day", t + 1) = t + 1
        BY WindowDates, StartOfEach
    <2>2. "day" \in Units /\ Spans("day", t, t)
        BY <2>1 DEF Units, Spans
    <2>3. ParseOne(At("day", t), now) = Unit("day", t)
        BY <2>1, <2>2, TokenOfUnit
    <2>4. (t + 1) - 1 = t
        BY <2>1
    <2>5. QED
        BY <2>1, <2>3, <2>4 DEF Unit
<1>11. Parse(g, now) = [ok |-> TRUE, start |-> s2, end |-> e2]
    <2>1. Parse(g, now) = Joined(ParseOne(At("day", s2), now), ParseOne(At("day", e2), now))
        BY <1>8 DEF Parse, Between
    <2>2. /\ ParseOne(At("day", s2), now) = [ok |-> TRUE, start |-> s2, end |-> s2]
          /\ ParseOne(At("day", e2), now) = [ok |-> TRUE, start |-> e2, end |-> e2]
        BY <1>6, <1>7, <1>10
    <2>3. PICK a \in {[ok |-> TRUE, start |-> s2, end |-> s2]}, b \in {[ok |-> TRUE, start |-> e2, end |-> e2]} :
              a.ok /\ b.ok /\ a.start = s2 /\ b.end = e2 /\ Parse(g, now) = Joined(a, b)
        BY <2>1, <2>2
    <2>4. Joined(a, b) = [ok |-> TRUE, start |-> a.start, end |-> b.end]
        BY <1>5, <2>3 DEF Joined
    <2>5. QED
        BY <2>3, <2>4
<1>12. g \in Filters
    <2>1. "day" \in Units
        BY DEF Units
    <2>2. At("day", s2) \in TokenFilters /\ At("day", e2) \in TokenFilters
        BY <1>6, <1>7, <2>1, DatesHaveTokens
    <2>3. QED
        BY <1>8, <2>2 DEF Filters, Between
<1>13. e - s \in 0..LongestSpan => e2 - s2 = e - s
    BY <1>5
<1>14. /\ Parse(g, now).ok /\ Parse(g, now).end = e2 /\ Parse(g, now).start = s2
       /\ Parse(f, now).end = e /\ Parse(f, now).start = s
    BY <1>3, <1>11
<1>15. KeepsLength(Parse(g, now), Parse(f, now))
    BY <1>13, <1>14 DEF KeepsLength
<1>16. QED
    BY <1>9, <1>12, <1>14, <1>15

LEMMA FormsOfTokens ==
    ASSUME NEW f \in TokenFilters
    PROVE  f.form \notin {"empty", "range"} /\ (f.form = "junk" => f = Junk)
BY DEF TokenFilters, Units, Junk

(* Every filter of a page is one that a reader may type.                   *)
FiltersStay == filter \in Filters

LEMMA ShiftedFilters ==
    ASSUME Legible, FiltersStay, NEW delta \in {-1, 1}, Shift(filter, now, delta).ok
    PROVE  Shift(filter, now, delta).filter \in Filters
<1>1. now \in Window /\ now \in Written
    BY WindowDates DEF Legible
<1>2. TokenFilters \subseteq Filters
    BY DEF Filters
<1>3. ASSUME NEW u \in Units, NEW q \in Int, StartOfUnit(u, q) \in Nat,
             StartOfUnit(u, q + delta) \in Written
      PROVE  Step(u, Unit(u, q), delta) \in Filters
    <2>1. Step(u, Unit(u, q), delta) = At(u, StartOfUnit(u, q + delta))
        <3>1. delta \in Int
            OBVIOUS
        <3>2. Plus(StartOfUnit(u, q), u, delta) = StartOfUnit(u, q + delta)
            BY <1>3, <3>1, PlusUnits
        <3>3. QED
            BY <3>2 DEF Step, Unit
    <2>2. QED
        BY <1>2, <1>3, <2>1, DatesHaveTokens
<1>4. CASE filter.form = "empty"
    <2>1. "month" \in Units
        BY DEF Units
    <2>2. PICK q \in Nat :
              /\ Spans("month", q, now) /\ StartOfUnit("month", q) \in Written \ {0}
              /\ StartOfUnit("month", q - 1) \in Written /\ StartOfUnit("month", q + 1) \in Written
        BY <1>1, <2>1, UnitOfDate
    <2>3. StartOfUnit("month", q) \in Nat
        BY <2>2, WindowDates
    <2>4. First("month", now) = StartOfUnit("month", q) /\ Kind(At("month", now)) = "month"
        BY <1>1, <2>1, <2>2, <2>3, TokenOfUnit
    <2>5. Resolve("month", 0, now) = Unit("month", q)
        <3>1. Plus(StartOfUnit("month", q), "month", 0) = StartOfUnit("month", q + 0)
            BY <2>1, <2>3, PlusUnits
        <3>2. q + 0 = q
            OBVIOUS
        <3>3. QED
            BY <2>1, <2>3, <2>4, <3>1, <3>2, LastingIs DEF Resolve, Unit
    <2>6. StartOfUnit("month", q + delta) \in Written
        <3>1. q + (-1) = q - 1
            OBVIOUS
        <3>2. CASE delta = 1
            BY <2>2, <3>2
        <3>3. CASE delta = -1
            BY <2>2, <3>1, <3>3
        <3>4. QED
            BY <3>2, <3>3
    <2>7. Shift(filter, now, delta) = ShiftPeriod(At("month", now), Unit("month", q), delta)
        BY <1>4, <2>5 DEF Shift
    <2>8. ShiftPeriod(At("month", now), Unit("month", q), delta).filter = Step("month", Unit("month", q), delta)
        BY <2>2, <2>4 DEF ShiftPeriod, Unit, Zero
    <2>9. QED
        BY <1>3, <2>1, <2>3, <2>6, <2>7, <2>8
<1>5. CASE filter.form # "empty"
    <2>1. PICK r \in {Parse(filter, now)} :
              r = Parse(filter, now) /\ (r.ok /\ r.start # Zero => r.start \in Window /\ r.end \in Window)
        BY DEF Legible
    <2>2. Shift(filter, now, delta) = ShiftPeriod(filter, r, delta)
        BY <1>5, <2>1 DEF Shift
    <2>3. r.ok /\ r.start # Zero
        BY <2>2 DEF ShiftPeriod, Refused
    <2>4. r.start \in Window /\ r.end \in Window
        BY <2>1, <2>3
    <2>5. CASE filter.form = "range"
        BY <2>1, <2>3, <2>4, <2>5, ArrowsOfRange
    <2>6. CASE filter \in TokenFilters
        <3>1. filter.form \notin {"empty", "range"}
            BY <2>6, FormsOfTokens
        <3>2. r = ParseOne(filter, now)
            BY <2>1, <3>1 DEF Parse
        <3>3. r.start \in Nat
            BY <2>4, WindowDates
        <3>4. PICK u \in Units, q \in Int : u = Kind(filter) /\ r = Unit(u, q)
            BY <1>1, <2>3, <2>6, <3>2, <3>3, ParsedUnit
        <3>5. StartOfUnit(u, q) \in Window
            BY <2>4, <3>4 DEF Unit
        <3>6. StartOfUnit(u, q + delta) \in Written
            <4>1. StartOfUnit(u, q + 1) \in Written /\ StartOfUnit(u, q - 1) \in Written
                BY <3>5, UnitsAround
            <4>2. q + (-1) = q - 1
                OBVIOUS
            <4>3. CASE delta = 1
                BY <4>1, <4>3
            <4>4. CASE delta = -1
                BY <4>1, <4>2, <4>4
            <4>5. QED
                BY <4>3, <4>4
        <3>7. StartOfUnit(u, q) \in Nat
            BY <3>5, WindowDates
        <3>8. u # "custom"
            BY DEF Units
        <3>9. ShiftPeriod(filter, r, delta).filter = Step(u, Unit(u, q), delta)
            BY <2>3, <3>4, <3>8 DEF ShiftPeriod
        <3>10. QED
            BY <1>3, <2>2, <3>6, <3>7, <3>9
    <2>7. filter \in TokenFilters \/ filter.form = "range"
        BY <1>5 DEF FiltersStay, Filters, Empty
    <2>8. QED
        BY <2>5, <2>6, <2>7
<1>6. QED
    BY <1>4, <1>5

LEMMA FiltersKept == Legible /\ FiltersStay /\ [Next]_vars => FiltersStay'
<1>1. SUFFICES ASSUME Legible, FiltersStay, [Next]_vars
               PROVE  FiltersStay'
    OBVIOUS
<1>2. CASE Type
    BY <1>2, FiltersAssumption DEF Type, Go, FiltersStay
<1>3. CASE Move
    <2>1. PICK delta \in {-1, 1} : Shift(filter, now, delta).ok /\ filter' = Shift(filter, now, delta).filter
        BY <1>3 DEF Move, Go
    <2>2. QED
        BY <1>1, <2>1, ShiftedFilters DEF FiltersStay
<1>4. CASE Choose
    <2>1. PICK kind \in Units \cup {""} : filter' = SetInterval(filter, now, kind)
        BY <1>4 DEF Choose, Go
    <2>2. CASE kind = ""
        BY <2>1, <2>2 DEF SetInterval, FiltersStay, Filters
    <2>3. CASE kind # ""
        <3>1. kind \in Units /\ AnchorDate(filter, now) \in Written
            BY <1>1, <2>3, AnchorInWindow, WindowDates
        <3>2. filter' = At(kind, AnchorDate(filter, now))
            BY <2>1, <2>3 DEF SetInterval
        <3>3. At(kind, AnchorDate(filter, now)) \in TokenFilters
            BY <3>1, DatesHaveTokens
        <3>4. QED
            BY <3>2, <3>3 DEF FiltersStay, Filters
    <2>4. QED
        BY <2>2, <2>3
<1>5. CASE DayPasses
    BY <1>1, <1>5 DEF DayPasses, FiltersStay
<1>6. CASE UNCHANGED vars
    BY <1>1, <1>6 DEF vars, FiltersStay
<1>7. QED
    BY <1>1, <1>2, <1>3, <1>4, <1>5, <1>6 DEF Next

LEMMA LegibleWalks == Legible /\ FiltersStay => Walks
<1>1. SUFFICES ASSUME Legible, FiltersStay
               PROVE  Walks
    OBVIOUS
<1>2. PICK f \in {IF filter = Empty THEN At("month", now) ELSE filter} :
          f = IF filter = Empty THEN At("month", now) ELSE filter
    OBVIOUS
<1>3. PICK there \in {Shift(f, now, 1)} : there = Shift(f, now, 1)
    OBVIOUS
<1>4. SUFFICES ASSUME there.ok
               PROVE  Follows(Kind(f), Parse(there.filter, now), Parse(f, now),
                              Parse(Shift(there.filter, now, -1).filter, now))
    BY <1>2, <1>3 DEF Walks
<1>5. now \in Window /\ now \in Written
    BY <1>1, WindowDates DEF Legible
<1>6. CASE filter = Empty
    <2>1. "month" \in Units
        BY DEF Units
    <2>2. PICK q \in Nat :
              /\ Spans("month", q, now) /\ StartOfUnit("month", q) \in Written \ {0}
              /\ StartOfUnit("month", q + 1) \in Written
        BY <1>5, <2>1, UnitOfDate
    <2>3. StartOfUnit("month", q) \in Nat
        BY <2>2, WindowDates
    <2>4. f.form = "month" /\ Kind(f) = "month" /\ Parse(f, now) = Unit("month", q)
        BY <1>2, <1>5, <1>6, <2>1, <2>2, <2>3, TokenOfUnit
    <2>5. f.form # "empty"
        BY <2>4
    <2>6. QED
        BY <1>3, <2>1, <2>2, <2>4, <2>5, ArrowsOfUnit
<1>7. CASE filter # Empty
    <2>1. f = filter
        BY <1>2, <1>7
    <2>2. CASE filter \in TokenFilters
        <3>1. f.form \notin {"empty", "range"}
            BY <2>1, <2>2, FormsOfTokens
        <3>2. Parse(f, now) = ParseOne(f, now)
            BY <3>1 DEF Parse
        <3>3. Parse(f, now).ok /\ Parse(f, now).start # Zero
            BY <1>3, <1>4, <3>1 DEF Shift, ShiftPeriod, Refused
        <3>4. Parse(f, now).start \in Window
            BY <1>1, <2>1, <3>3 DEF Legible
        <3>5. Parse(f, now).start \in Nat
            BY <3>4, WindowDates
        <3>6. PICK u \in Units, q \in Int : u = Kind(f) /\ Parse(f, now) = Unit(u, q)
            BY <1>5, <2>1, <2>2, <3>2, <3>3, <3>5, ParsedUnit
        <3>7. StartOfUnit(u, q) \in Window
            BY <3>4, <3>6 DEF Unit
        <3>8. StartOfUnit(u, q) \in Written \ {0}
            <4>1. 0 \notin Window
                BY DEF Window
            <4>2. QED
                BY <3>7, <4>1, WindowDates
        <3>9. StartOfUnit(u, q + 1) \in Written
            BY <3>7, UnitsAround
        <3>10. QED
            BY <1>3, <3>1, <3>6, <3>8, <3>9, ArrowsOfUnit
    <2>3. CASE filter.form = "range"
        <3>1. Kind(f) = "custom"
            BY <2>1, <2>3 DEF Kind
        <3>2. Parse(f, now).ok /\ Parse(f, now).start # Zero
            BY <1>3, <1>4, <2>1, <2>3 DEF Shift, ShiftPeriod, Refused
        <3>3. Parse(f, now).start \in Window /\ Parse(f, now).end \in Window
            BY <1>1, <2>1, <3>2 DEF Legible
        <3>4. PICK g \in Filters :
                  /\ Shift(f, now, 1) = [ok |-> TRUE, filter |-> g]
                  /\ Parse(g, now).ok
                  /\ KeepsLength(Parse(there.filter, now), Parse(f, now))
            BY <1>3, <2>1, <2>3, <3>2, <3>3, ArrowsOfRange
        <3>5. there.filter = g
            BY <1>3, <3>4
        <3>6. QED
            BY <3>1, <3>4, <3>5 DEF Follows, KeepsLength
    <2>4. filter \in TokenFilters \/ filter.form = "range"
        BY <1>1, <1>7 DEF FiltersStay, Filters
    <2>5. QED
        BY <2>2, <2>3, <2>4
<1>8. QED
    BY <1>6, <1>7

(* As long as its dates stay in the window, a page leads by one step       *)
(* forward to the period that begins where its own ends, and by one step   *)
(* back from there to its own, whatever the reader typed and however often *)
(* she moved or chose a unit before; a range of at most LongestSpan days   *)
(* keeps its length.                                                       *)
THEOREM StepsComeBack == Spec /\ []Legible => []Walks
<1>1. Init => FiltersStay
    BY DEF Init, FiltersStay, Filters
<1>2. QED
    BY <1>1, FiltersKept, LegibleWalks, PTL DEF Spec

----------------------------------------------------------------------------
(* Sums of sequences, term by term                                         *)

(* The sums of the first terms of F. *)
IsSums(p, F, n) == p = [i \in 0..n |-> IF i = 0 THEN 0 ELSE p[i - 1] + F[i]]
Sum(F, n) == (CHOOSE p : IsSums(p, F, n))[n]

LEMMA SumsFacts ==
    ASSUME NEW F, NEW n \in Nat, NEW p, IsSums(p, F, n)
    PROVE  p[0] = 0 /\ \A i \in 1..n : p[i] = p[i - 1] + F[i]
<1>1. p = [i \in 0..n |-> IF i = 0 THEN 0 ELSE p[i - 1] + F[i]]
    BY DEF IsSums
<1>2. p[0] = 0
    BY <1>1
<1>3. ASSUME NEW i \in 1..n
      PROVE  p[i] = p[i - 1] + F[i]
    <2>1. i \in 0..n /\ i # 0
        OBVIOUS
    <2>2. QED
        BY <1>1, <2>1
<1>4. QED
    BY <1>2, <1>3

LEMMA SumsExist ==
    ASSUME NEW F, NEW n \in Nat
    PROVE  \E p : IsSums(p, F, n)
<1> DEFINE S == {k \in Nat : \E p : IsSums(p, F, k)}
<1>1. 0 \in S
    <2> DEFINE p == [i \in 0..0 |-> 0]
    <2>1. p = [i \in 0..0 |-> IF i = 0 THEN 0 ELSE p[i - 1] + F[i]]
        OBVIOUS
    <2> HIDE DEF p
    <2>2. IsSums(p, F, 0)
        BY <2>1 DEF IsSums
    <2>3. QED
        BY <2>2
<1>2. ASSUME NEW k \in Nat, k \in S
      PROVE  k + 1 \in S
    <2>1. PICK q : IsSums(q, F, k)
        BY <1>2
    <2>2. q[0] = 0 /\ \A i \in 1..k : q[i] = q[i - 1] + F[i]
        BY <2>1, SumsFacts
    <2> DEFINE p == [i \in 0..(k + 1) |-> IF i = k + 1 THEN q[k] + F[i] ELSE q[i]]
    <2>3. p = [i \in 0..(k + 1) |-> p[i]]
          /\ \A i \in 0..(k + 1) : p[i] = IF i = k + 1 THEN q[k] + F[i] ELSE q[i]
        OBVIOUS
    <2> HIDE DEF p
    <2>4. ASSUME NEW i \in 0..(k + 1)
          PROVE  p[i] = IF i = 0 THEN 0 ELSE p[i - 1] + F[i]
        <3>1. CASE i = 0
            BY <2>2, <2>3, <3>1
        <3>2. CASE i = k + 1
            <4>1. i - 1 = k /\ k \in 0..(k + 1) /\ k # k + 1 /\ i # 0
                BY <3>2
            <4>2. p[k] = q[k]
                BY <2>3, <4>1
            <4>3. QED
                BY <2>3, <3>2, <4>1, <4>2
        <3>3. CASE i \in 1..k
            <4>1. i - 1 \in 0..(k + 1) /\ i - 1 # k + 1 /\ i # k + 1 /\ i # 0
                BY <3>3
            <4>2. p[i - 1] = q[i - 1] /\ p[i] = q[i]
                BY <2>3, <4>1
            <4>3. QED
                BY <2>2, <3>3, <4>1, <4>2
        <3>4. QED
            BY <3>1, <3>2, <3>3
    <2>5. IsSums(p, F, k + 1)
        BY <2>3, <2>4 DEF IsSums
    <2>6. QED
        BY <2>5
<1> HIDE DEF S
<1>3. n \in S
    BY <1>1, <1>2, SetInduction
<1>4. QED
    BY <1>3 DEF S

LEMMA SumIs ==
    ASSUME NEW F, NEW n \in Nat, NEW p, p[0] = 0, \A i \in 1..n : p[i] = p[i - 1] + F[i]
    PROVE  Sum(F, n) = p[n]
<1>1. PICK q : q = CHOOSE r : IsSums(r, F, n)
    OBVIOUS
<1>2. IsSums(q, F, n)
    BY <1>1, SumsExist
<1>3. q[0] = 0 /\ \A i \in 1..n : q[i] = q[i - 1] + F[i]
    BY <1>2, SumsFacts
<1> DEFINE S == {k \in Nat : k <= n => q[k] = p[k]}
<1>4. 0 \in S
    BY <1>3
<1>5. ASSUME NEW k \in Nat, k \in S
      PROVE  k + 1 \in S
    <2>1. SUFFICES ASSUME k + 1 <= n
                   PROVE  q[k + 1] = p[k + 1]
        OBVIOUS
    <2>2. k + 1 \in 1..n /\ (k + 1) - 1 = k /\ k <= n
        BY <2>1
    <2>3. q[k] = p[k]
        BY <1>5, <2>2
    <2>4. QED
        BY <1>3, <2>2, <2>3
<1> HIDE DEF S
<1>6. n \in S
    BY <1>4, <1>5, SetInduction
<1>7. q[n] = p[n]
    BY <1>6 DEF S
<1>8. QED
    BY <1>1, <1>7 DEF Sum

LEMMA SumStep ==
    ASSUME NEW F
    PROVE  /\ Sum(F, 0) = 0
           /\ \A n \in Nat : Sum(F, n + 1) = Sum(F, n) + F[n + 1]
<1>1. Sum(F, 0) = 0
    <2>1. PICK z \in Nat : z = 0
        OBVIOUS
    <2>2. PICK p : IsSums(p, F, z)
        BY SumsExist
    <2>3. p[0] = 0 /\ \A i \in 1..z : p[i] = p[i - 1] + F[i]
        BY <2>2, SumsFacts
    <2>4. Sum(F, z) = p[z]
        BY <2>3, SumIs
    <2>5. QED
        BY <2>1, <2>3, <2>4
<1>2. ASSUME NEW n \in Nat
      PROVE  Sum(F, n + 1) = Sum(F, n) + F[n + 1]
    <2>1. PICK p : IsSums(p, F, n + 1)
        BY SumsExist
    <2>2. p[0] = 0 /\ \A i \in 1..(n + 1) : p[i] = p[i - 1] + F[i]
        BY <2>1, SumsFacts
    <2>3. Sum(F, n + 1) = p[n + 1]
        BY <2>2, SumIs
    <2>4. \A i \in 1..n : p[i] = p[i - 1] + F[i]
        BY <2>2
    <2>5. Sum(F, n) = p[n]
        BY <2>2, <2>4, SumIs
    <2>6. n + 1 \in 1..(n + 1) /\ (n + 1) - 1 = n
        OBVIOUS
    <2>7. p[n + 1] = p[n] + F[n + 1]
        BY <2>2, <2>6
    <2>8. QED
        BY <2>3, <2>5, <2>7
<1>3. QED
    BY <1>1, <1>2

(* Sums of integers. *)
LEMMA SumInt ==
    ASSUME NEW F, NEW n \in Nat, \A i \in 1..n : F[i] \in Int
    PROVE  Sum(F, n) \in Int
<1> DEFINE S == {k \in Nat : k <= n => Sum(F, k) \in Int}
<1>1. 0 \in S
    BY SumStep
<1>2. ASSUME NEW k \in Nat, k \in S
      PROVE  k + 1 \in S
    <2>1. SUFFICES ASSUME k + 1 <= n
                   PROVE  Sum(F, k + 1) \in Int
        OBVIOUS
    <2>2. Sum(F, k) \in Int /\ F[k + 1] \in Int
        BY <1>2, <2>1
    <2>3. Sum(F, k + 1) = Sum(F, k) + F[k + 1]
        BY SumStep
    <2>4. QED
        BY <2>2, <2>3
<1> HIDE DEF S
<1>3. n \in S
    BY <1>1, <1>2, SetInduction
<1>4. QED
    BY <1>3 DEF S

LEMMA SumSame ==
    ASSUME NEW F, NEW G, NEW n \in Nat, \A i \in 1..n : F[i] = G[i]
    PROVE  Sum(F, n) = Sum(G, n)
<1> DEFINE S == {k \in Nat : k <= n => Sum(F, k) = Sum(G, k)}
<1>1. 0 \in S
    BY SumStep
<1>2. ASSUME NEW k \in Nat, k \in S
      PROVE  k + 1 \in S
    <2>1. SUFFICES ASSUME k + 1 <= n
                   PROVE  Sum(F, k + 1) = Sum(G, k + 1)
        OBVIOUS
    <2>2. Sum(F, k) = Sum(G, k) /\ F[k + 1] = G[k + 1]
        BY <1>2, <2>1
    <2>3. Sum(F, k + 1) = Sum(F, k) + F[k + 1] /\ Sum(G, k + 1) = Sum(G, k) + G[k + 1]
        BY SumStep
    <2>4. QED
        BY <2>2, <2>3
<1> HIDE DEF S
<1>3. n \in S
    BY <1>1, <1>2, SetInduction
<1>4. QED
    BY <1>3 DEF S

LEMMA SumPlus ==
    ASSUME NEW F, NEW G, NEW H, NEW n \in Nat, \A i \in 1..n : F[i] \in Int /\ G[i] \in Int,
           \A i \in 1..n : H[i] = F[i] + G[i]
    PROVE  Sum(H, n) = Sum(F, n) + Sum(G, n)
<1> DEFINE S == {k \in Nat : k <= n => Sum(H, k) = Sum(F, k) + Sum(G, k)}
<1>1. 0 \in S
    BY SumStep
<1>2. ASSUME NEW k \in Nat, k \in S
      PROVE  k + 1 \in S
    <2>1. SUFFICES ASSUME k + 1 <= n
                   PROVE  Sum(H, k + 1) = Sum(F, k + 1) + Sum(G, k + 1)
        OBVIOUS
    <2>2. Sum(H, k) = Sum(F, k) + Sum(G, k) /\ H[k + 1] = F[k + 1] + G[k + 1]
        BY <1>2, <2>1
    <2>3. /\ Sum(F, k + 1) = Sum(F, k) + F[k + 1] /\ Sum(G, k + 1) = Sum(G, k) + G[k + 1]
          /\ Sum(H, k + 1) = Sum(H, k) + H[k + 1]
        BY SumStep
    <2>4. /\ \A i \in 1..k : F[i] \in Int
          /\ \A i \in 1..k : G[i] \in Int
          /\ F[k + 1] \in Int /\ G[k + 1] \in Int
        BY <2>1
    <2>5. Sum(F, k) \in Int /\ Sum(G, k) \in Int
        BY <2>4, SumInt
    <2>6. QED
        BY <2>2, <2>3, <2>4, <2>5
<1> HIDE DEF S
<1>3. n \in S
    BY <1>1, <1>2, SetInduction
<1>4. QED
    BY <1>3 DEF S

LEMMA SumNone ==
    ASSUME NEW F, NEW n \in Nat, \A i \in 1..n : F[i] = 0
    PROVE  Sum(F, n) = 0
<1> DEFINE S == {k \in Nat : k <= n => Sum(F, k) = 0}
<1>1. 0 \in S
    BY SumStep
<1>2. ASSUME NEW k \in Nat, k \in S
      PROVE  k + 1 \in S
    <2>1. SUFFICES ASSUME k + 1 <= n
                   PROVE  Sum(F, k + 1) = 0
        OBVIOUS
    <2>2. Sum(F, k) = 0 /\ F[k + 1] = 0
        BY <1>2, <2>1
    <2>3. Sum(F, k + 1) = Sum(F, k) + F[k + 1]
        BY SumStep
    <2>4. QED
        BY <2>2, <2>3
<1> HIDE DEF S
<1>3. n \in S
    BY <1>1, <1>2, SetInduction
<1>4. QED
    BY <1>3 DEF S

(* The terms before and after the others may be left out if they are zero. *)
IsPart(F, n, lo, m, G) ==
    /\ \A i \in 1..n : F[i] \in Int
    /\ lo - 1 + m <= n
    /\ \A i \in 1..n : i < lo \/ i > lo - 1 + m => F[i] = 0
    /\ \A j \in 1..m : G[j] = F[lo - 1 + j]

LEMMA SumWithin ==
    ASSUME NEW F, NEW n \in Nat, NEW lo \in Nat \ {0}, NEW m \in Nat, NEW G, IsPart(F, n, lo, m, G)
    PROVE  Sum(F, n) = Sum(G, m)
<1> USE DEF IsPart
<1>1. PICK a \in Nat : a = lo - 1
    OBVIOUS
<1>2. Sum(F, a) = 0
    <2>1. \A i \in 1..a : F[i] = 0
        BY <1>1
    <2>2. QED
        BY <2>1, SumNone
<1> DEFINE S == {k \in Nat : k <= m => Sum(F, a + k) = Sum(G, k)}
<1>3. 0 \in S
    <2>1. Sum(F, a + 0) = Sum(F, a)
        OBVIOUS
    <2>2. Sum(G, 0) = 0
        BY SumStep
    <2>3. QED
        BY <1>2, <2>1, <2>2
<1>4. ASSUME NEW k \in Nat, k \in S
      PROVE  k + 1 \in S
    <2>1. SUFFICES ASSUME k + 1 <= m
                   PROVE  Sum(F, a + (k + 1)) = Sum(G, k + 1)
        OBVIOUS
    <2>2. PICK b \in Nat : b = a + k
        OBVIOUS
    <2>3. Sum(F, b) = Sum(G, k) /\ G[k + 1] = F[b + 1]
        BY <1>1, <1>4, <2>1, <2>2
    <2>4. Sum(F, b + 1) = Sum(F, b) + F[b + 1] /\ Sum(G, k + 1) = Sum(G, k) + G[k + 1]
        BY SumStep
    <2>5. a + (k + 1) = b + 1
        BY <2>2
    <2>6. QED
        BY <2>3, <2>4, <2>5
<1> HIDE DEF S
<1>5. m \in S
    BY <1>3, <1>4, SetInduction
<1>6. PICK e \in Nat : e = a + m /\ e <= n
    BY <1>1
<1>7. Sum(F, e) = Sum(G, m)
    BY <1>5, <1>6 DEF S
<1> DEFINE T == {k \in Nat : e + k <= n => Sum(F, e + k) = Sum(F, e)}
<1>8. 0 \in T
    BY <1>6
<1>9. ASSUME NEW k \in Nat, k \in T
      PROVE  k + 1 \in T
    <2>1. SUFFICES ASSUME e + (k + 1) <= n
                   PROVE  Sum(F, e + (k + 1)) = Sum(F, e)
        OBVIOUS
    <2>2. PICK b \in Nat : b = e + k
        OBVIOUS
    <2>3. Sum(F, b) = Sum(F, e) /\ F[b + 1] = 0
        BY <1>1, <1>6, <1>9, <2>1, <2>2
    <2>4. Sum(F, b + 1) = Sum(F, b) + F[b + 1]
        BY SumStep
    <2>5. Sum(F, e) \in Int
        <3>1. \A i \in 1..e : F[i] \in Int
            BY <1>6
        <3>2. QED
            BY <3>1, SumInt
    <2>6. e + (k + 1) = b + 1
        BY <2>2
    <2>7. QED
        BY <2>3, <2>4, <2>5, <2>6
<1> HIDE DEF T
<1>10. PICK k \in Nat : e + k = n
    BY <1>6
<1>11. k \in T
    BY <1>8, <1>9, SetInduction
<1>12. QED
    BY <1>7, <1>10, <1>11 DEF T

----------------------------------------------------------------------------
(* Sums over sets of places                                                *)

(* A sum over some of the places 1 to n, as a sum over all of them.        *)
Mask(f, S, n) == [i \in 1..n |-> IF i \in S THEN f[i] ELSE 0]
Over(f, S, n) == Sum(Mask(f, S, n), n)

LEMMA MaskIs ==
    ASSUME NEW f, NEW S, NEW n \in Nat
    PROVE  \A i \in 1..n : Mask(f, S, n)[i] = IF i \in S THEN f[i] ELSE 0
BY DEF Mask

LEMMA OverInt ==
    ASSUME NEW f, NEW S, NEW n \in Nat, \A i \in 1..n : f[i] \in Int
    PROVE  Over(f, S, n) \in Int
<1>1. PICK F : F = Mask(f, S, n)
    OBVIOUS
<1>2. \A i \in 1..n : F[i] \in Int
    BY <1>1, MaskIs
<1>3. QED
    BY <1>1, <1>2, SumInt DEF Over

LEMMA OverApart ==
    ASSUME NEW f, NEW S, NEW T, NEW R, NEW n \in Nat, \A i \in 1..n : f[i] \in Int,
           \A i \in 1..n : i \in R <=> i \in S \/ i \in T,
           \A i \in 1..n : ~(i \in S /\ i \in T)
    PROVE  Over(f, R, n) = Over(f, S, n) + Over(f, T, n)
<1>1. PICK F, G, H : F = Mask(f, S, n) /\ G = Mask(f, T, n) /\ H = Mask(f, R, n)
    OBVIOUS
<1>2. /\ \A i \in 1..n : F[i] = IF i \in S THEN f[i] ELSE 0
      /\ \A i \in 1..n : G[i] = IF i \in T THEN f[i] ELSE 0
      /\ \A i \in 1..n : H[i] = IF i \in R THEN f[i] ELSE 0
    BY <1>1, MaskIs
<1>3. \A i \in 1..n : F[i] \in Int /\ G[i] \in Int
    BY <1>2
<1>4. \A i \in 1..n : H[i] = F[i] + G[i]
    BY <1>2
<1>5. QED
    BY <1>1, <1>3, <1>4, SumPlus DEF Over

LEMMA OverNone ==
    ASSUME NEW f, NEW S, NEW n \in Nat, \A i \in 1..n : i \notin S
    PROVE  Over(f, S, n) = 0
<1>1. PICK F : F = Mask(f, S, n)
    OBVIOUS
<1>2. \A i \in 1..n : F[i] = 0
    BY <1>1, MaskIs
<1>3. QED
    BY <1>1, <1>2, SumNone DEF Over

LEMMA OverAll ==
    ASSUME NEW f, NEW S, NEW n \in Nat, \A i \in 1..n : i \in S
    PROVE  Over(f, S, n) = Sum(f, n)
<1>1. PICK F : F = Mask(f, S, n)
    OBVIOUS
<1>2. \A i \in 1..n : F[i] = f[i]
    BY <1>1, MaskIs
<1>3. QED
    BY <1>1, <1>2, SumSame DEF Over

LEMMA OverOne ==
    ASSUME NEW f, NEW n \in Nat, NEW k \in 1..n, f[k] \in Int
    PROVE  Over(f, {k}, n) = f[k]
<1>1. PICK F : F = Mask(f, {k}, n)
    OBVIOUS
<1>2. F[k] = f[k] /\ \A i \in 1..n : i # k => F[i] = 0
    BY <1>1, MaskIs
<1>3. PICK G : G = [j \in 1..1 |-> f[k]]
    OBVIOUS
<1>4. PICK o \in Nat : o = 1
    OBVIOUS
<1>5. PICK lo \in Nat \ {0} : lo = k
    OBVIOUS
<1>6. Sum(F, n) = Sum(G, o)
    <2>1. \A i \in 1..n : F[i] \in Int
        BY <1>2
    <2>2. lo - 1 + o <= n
        BY <1>4, <1>5
    <2>3. \A i \in 1..n : i < lo \/ i > lo - 1 + o => F[i] = 0
        BY <1>2, <1>4, <1>5
    <2>4. \A j \in 1..o : G[j] = F[lo - 1 + j]
        <3>1. SUFFICES ASSUME NEW j \in 1..o
                       PROVE  G[j] = F[lo - 1 + j]
            OBVIOUS
        <3>2. j \in 1..1 /\ lo - 1 + j = k
            BY <1>4, <1>5, <3>1
        <3>3. QED
            BY <1>2, <1>3, <3>2
    <2>5. IsPart(F, n, lo, o, G)
        BY <2>1, <2>2, <2>3, <2>4 DEF IsPart
    <2>6. QED
        BY <2>5, SumWithin
<1>7. Sum(G, o) = f[k]
    <2>1. PICK z \in Nat : z = 0
        OBVIOUS
    <2>2. Sum(G, z) = 0 /\ Sum(G, z + 1) = Sum(G, z) + G[z + 1]
        BY <2>1, SumStep
    <2>3. z + 1 = o /\ G[z + 1] = f[k]
        BY <1>3, <1>4, <2>1
    <2>4. QED
        BY <2>2, <2>3
<1>8. QED
    BY <1>1, <1>6, <1>7 DEF Over

(* The element that a fold takes first. *)
Chosen(s) == CHOOSE x \in s : TRUE

IsFold(g, f, S) ==
    g = [s \in SUBSET S |-> IF s = {} THEN 0 ELSE f[Chosen(s)] + g[s \ {Chosen(s)}]]

LEMMA TotalFold ==
    ASSUME NEW f, NEW S
    PROVE  Total(f, S) = (CHOOSE g : IsFold(g, f, S))[S]
BY DEF Total, MapThenSumSet, MapThenFoldSet, IsFold, Chosen

LEMMA FoldExists ==
    ASSUME NEW f, NEW n \in Nat, \A i \in 1..n : f[i] \in Int, NEW S \in SUBSET (1..n)
    PROVE  \E g : IsFold(g, f, S)
<1> DEFINE g == [s \in SUBSET S |-> Over(f, s, n)]
<1>1. g = [s \in SUBSET S |-> g[s]] /\ \A s \in SUBSET S : g[s] = Over(f, s, n)
    OBVIOUS
<1> HIDE DEF g
<1>2. ASSUME NEW s \in SUBSET S
      PROVE  g[s] = IF s = {} THEN 0 ELSE f[Chosen(s)] + g[s \ {Chosen(s)}]
    <2>1. CASE s = {}
        BY <1>1, <2>1, OverNone
    <2>2. CASE s # {}
        <3>1. PICK x : x = Chosen(s)
            OBVIOUS
        <3>2. x \in s
            BY <2>2, <3>1 DEF Chosen
        <3>3. PICK t \in SUBSET S : t = s \ {x}
            OBVIOUS
        <3>4. x \in 1..n /\ f[x] \in Int
            BY <3>2
        <3>5. Over(f, s, n) = Over(f, {x}, n) + Over(f, t, n)
            BY <3>2, <3>3, OverApart
        <3>6. Over(f, {x}, n) = f[x]
            BY <3>4, OverOne
        <3>7. QED
            BY <1>1, <2>2, <3>1, <3>3, <3>5, <3>6
    <2>3. QED
        BY <2>1, <2>2
<1>3. IsFold(g, f, S)
    BY <1>1, <1>2 DEF IsFold
<1>4. QED
    BY <1>3

LEMMA TotalIs ==
    ASSUME NEW f, NEW n \in Nat, \A i \in 1..n : f[i] \in Int, NEW S \in SUBSET (1..n)
    PROVE  Total(f, S) = Over(f, S, n)
<1>1. PICK g : g = CHOOSE h : IsFold(h, f, S)
    OBVIOUS
<1>2. IsFold(g, f, S)
    BY <1>1, FoldExists
<1>3. \A s \in SUBSET S : g[s] = IF s = {} THEN 0 ELSE f[Chosen(s)] + g[s \ {Chosen(s)}]
    <2>1. g = [s \in SUBSET S |-> IF s = {} THEN 0 ELSE f[Chosen(s)] + g[s \ {Chosen(s)}]]
        BY <1>2 DEF IsFold
    <2>2. QED
        BY <2>1
<1> DEFINE K == {k \in Nat : \A s \in SUBSET S : Cardinality(s) = k => g[s] = Over(f, s, n)}
<1>4. IsFiniteSet(S)
    <2>1. IsFiniteSet(1..n)
        BY FS_Interval
    <2>2. QED
        BY <2>1, FS_Subset
<1>5. 0 \in K
    <2>1. ASSUME NEW s \in SUBSET S, Cardinality(s) = 0
          PROVE  g[s] = Over(f, s, n)
        <3>1. s = {}
            BY <1>4, <2>1, FS_Subset, FS_EmptySet
        <3>2. QED
            BY <1>3, <3>1, OverNone
    <2>2. QED
        BY <2>1
<1>6. ASSUME NEW k \in Nat, k \in K
      PROVE  k + 1 \in K
    <2>1. ASSUME NEW s \in SUBSET S, Cardinality(s) = k + 1
          PROVE  g[s] = Over(f, s, n)
        <3>1. IsFiniteSet(s)
            BY <1>4, FS_Subset
        <3>2. s # {}
            BY <2>1, FS_EmptySet
        <3>3. PICK x : x = Chosen(s)
            OBVIOUS
        <3>4. x \in s
            BY <3>2, <3>3 DEF Chosen
        <3>5. PICK t \in SUBSET S : t = s \ {x}
            OBVIOUS
        <3>6. Cardinality(t) = k
            <4>1. Cardinality(s \ {x}) = IF x \in s THEN Cardinality(s) - 1 ELSE Cardinality(s)
                BY <3>1, FS_RemoveElement
            <4>2. QED
                BY <2>1, <3>4, <3>5, <4>1
        <3>7. g[t] = Over(f, t, n)
            BY <1>6, <3>6
        <3>8. g[s] = f[x] + g[t]
            BY <1>3, <3>2, <3>3, <3>5
        <3>9. x \in 1..n /\ f[x] \in Int
            BY <3>4
        <3>10. Over(f, s, n) = Over(f, {x}, n) + Over(f, t, n)
            BY <3>4, <3>5, OverApart
        <3>11. Over(f, {x}, n) = f[x]
            BY <3>9, OverOne
        <3>12. QED
            BY <3>7, <3>8, <3>10, <3>11
    <2>2. QED
        BY <2>1
<1> HIDE DEF K
<1>7. Cardinality(S) \in K
    <2>1. Cardinality(S) \in Nat
        BY <1>4, FS_CardinalityType
    <2>2. QED
        BY <1>5, <1>6, <2>1, SetInduction
<1>8. g[S] = Over(f, S, n)
    BY <1>7 DEF K
<1>9. QED
    BY <1>1, <1>8, TotalFold

----------------------------------------------------------------------------
(* Bins                                                                    *)

(* The next bin begins later.                                              *)
LEMMA NextBinLater ==
    ASSUME NEW u \in Units, NEW t \in Nat
    PROVE  NextBin(t, u) \in Nat /\ NextBin(t, u) > t
<1>1. PICK k \in Int : k = MonthNo(t) /\ MonthStart(k) <= t
    BY CivilIs
<1>2. PICK s \in Int, e \in Int : s = MonthStart(k) /\ e = MonthStart(k + 1) /\ s < e /\ s <= t
    <2>1. MonthStart(k) \in Int /\ MonthSize(k) \in 28..31 /\ MonthStart(k + 1) = MonthStart(k) + MonthSize(k)
        BY MonthStep
    <2>2. QED
        BY <1>1, <2>1
<1>3. ASSUME NEW n \in Nat \ {0}
      PROVE  MonthStart(k + n) \in Int /\ MonthStart(k + n) >= e
    <2>1. PICK j \in Int : j = k + n /\ k < j
        OBVIOUS
    <2>2. QED
        BY <1>2, <2>1, MonthsApart, MonthStep
<1>4. CASE u = "year"
    <2>1. 12 \in Nat \ {0}
        OBVIOUS
    <2>2. PICK a \in Int : a = MonthStart(k + 12) /\ a >= e
        BY <1>3, <2>1
    <2>3. Plus(t, "year", 1) = MonthStart(MonthNo(t) + 12 * 1) + (t - MonthStart(MonthNo(t)))
        BY PlusIs
    <2>4. 12 * 1 = 12
        OBVIOUS
    <2>5. Plus(t, "year", 1) = a + (t - s)
        BY <1>1, <1>2, <2>2, <2>3, <2>4
    <2>6. QED
        BY <1>2, <1>4, <2>2, <2>5 DEF NextBin
<1>5. CASE u = "quarter"
    <2>1. 3 \in Nat \ {0}
        OBVIOUS
    <2>2. PICK a \in Int : a = MonthStart(k + 3) /\ a >= e
        BY <1>3, <2>1
    <2>3. Plus(t, "quarter", 1) = MonthStart(MonthNo(t) + 3 * 1) + (t - MonthStart(MonthNo(t)))
        BY PlusIs
    <2>4. 3 * 1 = 3
        OBVIOUS
    <2>5. Plus(t, "quarter", 1) = a + (t - s)
        BY <1>1, <1>2, <2>2, <2>3, <2>4
    <2>6. QED
        BY <1>2, <1>5, <2>2, <2>5 DEF NextBin
<1>6. CASE u = "month"
    <2>1. Plus(t, "month", 1) = e + (t - s)
        BY <1>1, <1>2, PlusIs
    <2>2. QED
        BY <1>2, <1>6, <2>1 DEF NextBin
<1>7. CASE u = "week"
    <2>1. Plus(t, "week", 1) = t + 7 * 1
        BY PlusIs
    <2>2. QED
        BY <1>7, <2>1 DEF NextBin
<1>8. CASE u = "day"
    <2>1. Plus(t, "day", 1) = t + 1
        BY PlusIs
    <2>2. QED
        BY <1>8, <2>1 DEF NextBin
<1>9. QED
    BY <1>4, <1>5, <1>6, <1>7, <1>8 DEF Units

(* The first bin is the unit that holds the start of the range.            *)
BinKinds == {"day", "month", "year"}

LEMMA FirstBinIs ==
    ASSUME NEW u \in BinKinds, NEW t \in Nat
    PROVE  /\ StartOfBin(t, u) \in Nat /\ StartOfBin(t, u) <= t
           /\ NextBin(StartOfBin(t, u), u) > t
<1>1. u \in Units /\ u # "week"
    BY DEF BinKinds, Units
<1>2. PICK q \in Nat : Spans(u, q, t) /\ First(u, t) = StartOfUnit(u, q)
    BY <1>1, FirstIs
<1>3. StartOfBin(t, u) = StartOfUnit(u, q)
    BY <1>1, <1>2 DEF StartOfBin
<1>4. StartOfUnit(u, q) \in Nat
    <2>1. PICK y \in Nat \ {0}, k \in Nat : y = Year(t) /\ k = MonthNo(t) /\ k \div 12 = y
        BY YearIs, CivilIs
    <2>2. MonthStart(12) = 0 /\ 12 <= k /\ 12 <= 12 * y
        <3>1. PICK o \in Int : o = 1
            OBVIOUS
        <3>2. MonthStart(12 * o) = DaysBefore(o)
            BY NewYear
        <3>3. 12 * o = 12 /\ DaysBefore(o) = 0
            BY <3>1 DEF DaysBefore
        <3>4. QED
            BY <2>1, <3>2, <3>3
    <2>3. ASSUME NEW j \in Int, 12 <= j
          PROVE  MonthStart(j) \in Nat
        <3>1. PICK w \in Int : w = 12
            OBVIOUS
        <3>2. MonthStart(w) <= MonthStart(j)
            BY <2>3, <3>1, MonthsOrdered
        <3>3. MonthStart(j) \in Int
            BY MonthStep
        <3>4. QED
            BY <2>2, <3>1, <3>2, <3>3
    <2>4. CASE u = "year"
        <3>1. q \in Int /\ u \in Units /\ Spans(u, q, t)
            BY <1>1, <1>2
        <3>2. q = Year(t)
            BY <2>4, <3>1, UnitNumber
        <3>3. MonthStart(12 * y) \in Nat
            BY <2>2, <2>3
        <3>4. QED
            BY <2>1, <2>4, <3>2, <3>3, StartOfEach
    <2>5. CASE u = "month"
        <3>1. q \in Int /\ u \in Units /\ Spans(u, q, t)
            BY <1>1, <1>2
        <3>2. q = MonthNo(t)
            BY <2>5, <3>1, UnitNumber
        <3>3. QED
            BY <2>1, <2>2, <2>3, <2>5, <3>2, StartOfEach
    <2>6. CASE u = "day"
        BY <2>6, StartOfEach
    <2>7. QED
        BY <2>4, <2>5, <2>6 DEF BinKinds
<1>5. NextBin(StartOfUnit(u, q), u) = StartOfUnit(u, q + 1)
    BY <1>1, <1>4, PlusUnits DEF NextBin
<1>6. QED
    BY <1>2, <1>3, <1>4, <1>5 DEF Spans

(* The table of bins from every date on.                                   *)
IsBins(f, r, kind) ==
    f = [cur \in Nat |->
            IF cur > r.end THEN << >>
            ELSE <<BinAt(cur, r, kind)>> \o f[NextBin(cur, kind)]]

LEMMA BinsFrom ==
    ASSUME NEW r, NEW kind, r.start # Zero, r.end # Zero, ~(r.start > r.end)
    PROVE  IterateBins(r, kind) = Capped((CHOOSE f : IsBins(f, r, kind))[StartOfBin(r.start, kind)])
BY DEF IterateBins, IsBins

LEMMA BinsExist ==
    ASSUME NEW r, NEW kind \in Units, r.end \in Nat
    PROVE  \E f : IsBins(f, r, kind)
<1>1. PICK e \in Nat : e = r.end
    OBVIOUS
<1> DEFINE Late(d) == {c \in Nat : c > e - d}
           Step_(f, c) == IF c > e THEN << >> ELSE <<BinAt(c, r, kind)>> \o f[NextBin(c, kind)]
           S == {d \in Nat : \E f : \A c \in Late(d) : f[c] = Step_(f, c)}
<1>2. 0 \in S
    <2> DEFINE f == [c \in Nat |-> << >>]
    <2>1. \A c \in Late(0) : f[c] = << >> /\ c > e
        OBVIOUS
    <2> HIDE DEF f
    <2>2. \A c \in Late(0) : f[c] = Step_(f, c)
        BY <2>1
    <2>3. QED
        BY <2>2
<1>3. ASSUME NEW d \in Nat, d \in S
      PROVE  d + 1 \in S
    <2>1. PICK f : \A c \in Late(d) : f[c] = Step_(f, c)
        BY <1>3
    <2>2. PICK x \in Int : x = e - d
        OBVIOUS
    <2> DEFINE g == [c \in Nat |-> IF c = x THEN Step_(f, c) ELSE f[c]]
    <2>3. \A c \in Nat : g[c] = IF c = x THEN Step_(f, c) ELSE f[c]
        OBVIOUS
    <2> HIDE DEF g
    <2>4. ASSUME NEW c \in Late(d + 1)
          PROVE  g[c] = Step_(g, c)
        <3>1. c \in Nat /\ c >= x
            BY <2>2
        <3>2. PICK k \in Nat : k = NextBin(c, kind) /\ k > c
            BY <3>1, NextBinLater
        <3>3. g[k] = f[k]
            <4>1. k # x
                BY <3>1, <3>2
            <4> HIDE DEF Step_
            <4>2. QED
                BY <2>3, <4>1
        <3>4. Step_(g, c) = Step_(f, c)
            BY <3>2, <3>3
        <3>5. CASE c = x
            BY <2>3, <3>1, <3>4, <3>5
        <3>6. CASE c # x
            <4>1. c \in Late(d)
                BY <2>2, <3>1, <3>6
            <4>2. f[c] = Step_(f, c)
                BY <2>1, <4>1
            <4>3. QED
                BY <2>3, <3>1, <3>4, <3>6, <4>2
        <3>7. QED
            BY <3>5, <3>6
    <2>5. QED
        BY <2>4
<1>4. e + 1 \in S
    <2> HIDE DEF S
    <2>1. QED
        BY <1>2, <1>3, SetInduction
<1>5. PICK f : \A c \in Late(e + 1) : f[c] = Step_(f, c)
    BY <1>4
<1>6. \A c \in Nat : f[c] = Step_(f, c)
    BY <1>5
<1> DEFINE h == [c \in Nat |-> f[c]]
<1>7. h = [c \in Nat |-> h[c]] /\ \A c \in Nat : h[c] = f[c]
    OBVIOUS
<1> HIDE DEF h
<1>8. ASSUME NEW c \in Nat
      PROVE  h[c] = Step_(h, c)
    <2>1. PICK k \in Nat : k = NextBin(c, kind)
        BY NextBinLater
    <2>2. Step_(h, c) = Step_(f, c)
        BY <1>7, <2>1
    <2>3. QED
        BY <1>6, <1>7, <2>2
<1>9. h = [c \in Nat |-> Step_(h, c)]
    BY <1>7, <1>8
<1>10. IsBins(h, r, kind)
    BY <1>1, <1>9 DEF IsBins
<1>11. QED
    BY <1>10

LEMMA SumFirst ==
    ASSUME NEW G, NEW H, NEW n \in Nat, G[1] \in Int, \A j \in 1..n : H[j] \in Int,
           \A j \in 1..n : G[j + 1] = H[j]
    PROVE  Sum(G, n + 1) = G[1] + Sum(H, n)
<1> DEFINE S == {k \in Nat : k <= n => Sum(G, k + 1) = G[1] + Sum(H, k)}
<1>1. 0 \in S
    <2>1. PICK z \in Nat : z = 0
        OBVIOUS
    <2>2. Sum(G, z) = 0 /\ Sum(H, z) = 0 /\ Sum(G, z + 1) = Sum(G, z) + G[z + 1]
        BY <2>1, SumStep
    <2>3. QED
        BY <2>1, <2>2
<1>2. ASSUME NEW k \in Nat, k \in S
      PROVE  k + 1 \in S
    <2>1. SUFFICES ASSUME k + 1 <= n
                   PROVE  Sum(G, (k + 1) + 1) = G[1] + Sum(H, k + 1)
        OBVIOUS
    <2>2. PICK m \in Nat : m = k + 1
        OBVIOUS
    <2>3. Sum(G, m) = G[1] + Sum(H, k)
        BY <1>2, <2>1, <2>2
    <2>4. Sum(G, m + 1) = Sum(G, m) + G[m + 1] /\ Sum(H, k + 1) = Sum(H, k) + H[k + 1]
        BY SumStep
    <2>5. G[m + 1] = H[m] /\ H[m] \in Int
        BY <2>1, <2>2
    <2>6. Sum(H, k) \in Int
        <3>1. \A j \in 1..k : H[j] \in Int
            BY <2>1
        <3>2. QED
            BY <3>1, SumInt
    <2>7. QED
        BY <2>2, <2>3, <2>4, <2>5, <2>6
<1> HIDE DEF S
<1>3. n \in S
    BY <1>1, <1>2, SetInduction
<1>4. QED
    BY <1>3 DEF S

LEMMA OfTwo ==
    ASSUME NEW a \in Int, NEW b \in Int
    PROVE  /\ Max({a, b}) = IF a > b THEN a ELSE b
           /\ Min({a, b}) = IF a < b THEN a ELSE b
<1>1. Max({a, b}) = IF a > b THEN a ELSE b
    <2>1. PICK m \in {a, b} : m = IF a > b THEN a ELSE b
        OBVIOUS
    <2>2. \A y \in {a, b} : m >= y
        BY <2>1
    <2>3. \A x \in {a, b} : (\A y \in {a, b} : x >= y) => x = m
        BY <2>2
    <2>4. Max({a, b}) = m
        BY <2>2, <2>3 DEF Max
    <2>5. QED
        BY <2>1, <2>4
<1>2. Min({a, b}) = IF a < b THEN a ELSE b
    <2>1. PICK m \in {a, b} : m = IF a < b THEN a ELSE b
        OBVIOUS
    <2>2. \A y \in {a, b} : m <= y
        BY <2>1
    <2>3. \A x \in {a, b} : (\A y \in {a, b} : x <= y) => x = m
        BY <2>2
    <2>4. Min({a, b}) = m
        BY <2>2, <2>3 DEF Min
    <2>5. QED
        BY <2>1, <2>4
<1>3. QED
    BY <1>1, <1>2

(* The flows from one date to another, and the amounts of the bins.        *)
Count == Len(Flows)
On(a, b) == {i \in 1..Count : Flows[i].date >= a /\ Flows[i].date <= b}
Amounts(h, bins) == [j \in DOMAIN bins |-> Over(h, Within(bins[j]), Count)]
Later(a, b) == IF a > b THEN a ELSE b
Bins == Seq([start : Int, end : Int])

LEMMA FlowsAre ==
    /\ Count \in Nat /\ DOMAIN Flows = 1..Count
    /\ \A i \in 1..Count : Flows[i].date \in Int /\ Flows[i].income \in Int /\ Flows[i].expense \in Int
<1>1. Count \in Nat /\ DOMAIN Flows = 1..Count
    BY FlowsAssumption DEF Count
<1>2. ASSUME NEW i \in 1..Count
      PROVE  Flows[i].date \in Int /\ Flows[i].income \in Int /\ Flows[i].expense \in Int
    <2>1. Flows[i] \in [date : Int, income : Int, expense : Int]
        <3>1. PICK R : R = [date : Int, income : Int, expense : Int]
            OBVIOUS
        <3>2. PICK F \in Seq(R) : F = Flows
            BY <3>1, FlowsAssumption
        <3>3. PICK j \in 1..Len(F) : j = i
            BY <3>2 DEF Count
        <3>4. F[j] \in R
            OBVIOUS
        <3>5. QED
            BY <3>1, <3>2, <3>3, <3>4
    <2>2. QED
        BY <2>1
<1>3. QED
    BY <1>1, <1>2

LEMMA WithinIs ==
    ASSUME NEW b
    PROVE  Within(b) = On(b.start, b.end)
BY FlowsAre DEF Within, On

LEMMA BinIs ==
    ASSUME NEW r, NEW kind \in Units, r.start \in Int, r.end \in Int, NEW c \in Nat
    PROVE  BinAt(c, r, kind) = [start |-> Later(c, r.start),
                                end |-> IF NextBin(c, kind) - 1 < r.end THEN NextBin(c, kind) - 1 ELSE r.end]
<1>1. PICK k \in Int : k = NextBin(c, kind) - 1
    BY NextBinLater
<1>2. Max({c, r.start}) = Later(c, r.start)
    BY OfTwo DEF Later
<1>3. Min({k, r.end}) = IF k < r.end THEN k ELSE r.end
    BY OfTwo
<1>4. QED
    BY <1>1, <1>2, <1>3 DEF BinAt

(* The bins from a date on hold the flows from that date on, each once.    *)
Holds(h, bins, a, e) ==
    /\ bins \in Bins
    /\ Sum(Amounts(h, bins), Len(bins)) = Over(h, On(a, e), Count)

LEMMA NoBins ==
    ASSUME NEW h, NEW a \in Int, NEW e \in Int, a > e
    PROVE  Holds(h, << >>, a, e)
<1>1. << >> \in Bins /\ Len(<< >>) = 0
    BY DEF Bins
<1>2. Sum(Amounts(h, << >>), 0) = 0
    BY SumStep
<1>3. \A i \in 1..Count : i \notin On(a, e)
    BY FlowsAre DEF On
<1>4. Over(h, On(a, e), Count) = 0
    BY <1>3, FlowsAre, OverNone
<1>5. QED
    BY <1>1, <1>2, <1>4 DEF Holds

LEMMA MoreBins ==
    ASSUME NEW h, \A i \in 1..Count : h[i] \in Int, NEW a \in Int, NEW k \in Int, NEW e \in Int,
           NEW rest, a < k, a <= e, Holds(h, rest, k, e), NEW b,
           b = [start |-> a, end |-> IF k - 1 < e THEN k - 1 ELSE e]
    PROVE  Holds(h, <<b>> \o rest, a, e)
<1>1. PICK z \in Int : z = IF k - 1 < e THEN k - 1 ELSE e
    OBVIOUS
<1>2. b \in [start : Int, end : Int] /\ Within(b) = On(a, z)
    BY <1>1, WithinIs
<1>3. PICK bins : bins = <<b>> \o rest
    OBVIOUS
<1>4. PICK n \in Nat : n = Len(rest)
    BY DEF Holds, Bins
<1>5. /\ rest \in Bins /\ bins \in Bins
      /\ Len(bins) = n + 1 /\ DOMAIN bins = 1..(n + 1) /\ DOMAIN rest = 1..n
      /\ bins[1] = b /\ \A j \in 1..n : bins[j + 1] = rest[j]
    BY <1>2, <1>3, <1>4 DEF Holds, Bins
<1>6. PICK G, H : G = Amounts(h, bins) /\ H = Amounts(h, rest)
    OBVIOUS
<1>7. /\ G[1] = Over(h, On(a, z), Count)
      /\ \A j \in 1..n : H[j] = Over(h, Within(rest[j]), Count)
      /\ \A j \in 1..n : G[j + 1] = H[j]
    <2>1. 1 \in 1..(n + 1) /\ \A j \in 1..n : j + 1 \in 1..(n + 1)
        OBVIOUS
    <2>2. QED
        BY <1>2, <1>5, <1>6, <2>1 DEF Amounts
<1>8. G[1] \in Int /\ \A j \in 1..n : H[j] \in Int
    BY <1>7, FlowsAre, OverInt
<1>9. Sum(G, n + 1) = G[1] + Sum(H, n)
    BY <1>7, <1>8, SumFirst
<1>10. Over(h, On(a, e), Count) = Over(h, On(a, z), Count) + Over(h, On(k, e), Count)
    <2>1. \A i \in 1..Count : i \in On(a, e) <=> i \in On(a, z) \/ i \in On(k, e)
        BY <1>1, FlowsAre DEF On
    <2>2. \A i \in 1..Count : ~(i \in On(a, z) /\ i \in On(k, e))
        BY <1>1, FlowsAre DEF On
    <2>3. QED
        BY <2>1, <2>2, FlowsAre, OverApart
<1>11. Sum(H, n) = Over(h, On(k, e), Count)
    BY <1>4, <1>6 DEF Holds
<1>12. QED
    BY <1>3, <1>5, <1>6, <1>7, <1>9, <1>10, <1>11 DEF Holds

LEMMA BinsHold ==
    ASSUME NEW h, \A i \in 1..Count : h[i] \in Int, NEW kind \in BinKinds,
           NEW r, r.start \in Nat, r.end \in Nat, r.start <= r.end, NEW f, IsBins(f, r, kind),
           NEW c \in Nat, NextBin(c, kind) > r.start
    PROVE  Holds(h, f[c], Later(c, r.start), r.end)
<1>1. PICK s \in Nat, e \in Nat : s = r.start /\ e = r.end /\ s <= e
    OBVIOUS
<1>2. kind \in Units
    BY DEF BinKinds, Units
<1>3. \A x \in Nat : f[x] = IF x > e THEN << >> ELSE <<BinAt(x, r, kind)>> \o f[NextBin(x, kind)]
    <2>1. f = [x \in Nat |-> IF x > r.end THEN << >> ELSE <<BinAt(x, r, kind)>> \o f[NextBin(x, kind)]]
        BY DEF IsBins
    <2>2. QED
        BY <1>1, <2>1
<1> DEFINE S == {d \in Nat : \A x \in Nat : x > e - d /\ NextBin(x, kind) > s => Holds(h, f[x], Later(x, s), e)}
<1>4. ASSUME NEW x \in Nat, x > e
      PROVE  Holds(h, f[x], Later(x, s), e)
    <2>1. f[x] = << >>
        BY <1>3, <1>4
    <2>2. Later(x, s) \in Int /\ Later(x, s) > e
        BY <1>4 DEF Later
    <2>3. QED
        BY <2>1, <2>2, NoBins
<1>5. 0 \in S
    BY <1>4
<1>6. ASSUME NEW d \in Nat, d \in S
      PROVE  d + 1 \in S
    <2>1. ASSUME NEW x \in Nat, x > e - (d + 1), NextBin(x, kind) > s
          PROVE  Holds(h, f[x], Later(x, s), e)
        <3>1. CASE x > e
            BY <1>4, <3>1
        <3>2. CASE ~(x > e)
            <4>1. PICK k \in Nat : k = NextBin(x, kind) /\ k > x /\ k > s
                BY <1>2, <2>1, NextBinLater
            <4>2. NextBin(k, kind) \in Nat /\ NextBin(k, kind) > k
                BY <1>2, NextBinLater
            <4>3. k > e - d /\ NextBin(k, kind) > s
                BY <2>1, <4>1, <4>2
            <4>4. Holds(h, f[k], Later(k, s), e)
                BY <1>6, <4>3
            <4>5. Later(k, s) = k
                BY <4>1 DEF Later
            <4>6. PICK a \in Nat : a = Later(x, s) /\ a < k /\ a <= e
                BY <1>1, <3>2, <4>1 DEF Later
            <4>7. PICK b : b = BinAt(x, r, kind)
                OBVIOUS
            <4>8. b = [start |-> a, end |-> IF k - 1 < e THEN k - 1 ELSE e]
                BY <1>1, <1>2, <4>1, <4>6, <4>7, BinIs
            <4>9. PICK rest : rest = f[k]
                OBVIOUS
            <4>10. f[x] = <<b>> \o rest
                BY <1>3, <3>2, <4>1, <4>7, <4>9
            <4>11. Holds(h, rest, k, e)
                BY <4>4, <4>5, <4>9
            <4>12. Holds(h, <<b>> \o rest, a, e)
                BY <4>6, <4>8, <4>11, MoreBins
            <4>13. QED
                BY <4>6, <4>10, <4>12
        <3>3. QED
            BY <3>1, <3>2
    <2>2. QED
        BY <2>1
<1>7. e + 1 \in S
    <2> HIDE DEF S
    <2>1. QED
        BY <1>5, <1>6, SetInduction
<1>8. c > e - (e + 1)
    OBVIOUS
<1>9. QED
    BY <1>1, <1>7, <1>8

(* The bins of a range that no cut shortens.                               *)
LEMMA RangeHeld ==
    ASSUME NEW h, \A i \in 1..Count : h[i] \in Int, NEW kind \in BinKinds,
           NEW r, r.start \in Nat \ {0}, r.end \in Nat \ {0}, Len(IterateBins(r, kind)) < MaxBins
    PROVE  Holds(h, IterateBins(r, kind), r.start, r.end)
<1>1. PICK bins : bins = IterateBins(r, kind)
    OBVIOUS
<1>2. CASE r.start > r.end
    <2>1. IterateBins(r, kind) = << >>
        BY <1>2 DEF IterateBins
    <2>2. QED
        BY <1>2, <2>1, NoBins
<1>3. CASE ~(r.start > r.end)
    <2>1. PICK f : f = CHOOSE g : IsBins(g, r, kind)
        OBVIOUS
    <2>2. kind \in Units
        BY DEF BinKinds, Units
    <2>3. IsBins(f, r, kind)
        BY <2>1, <2>2, BinsExist
    <2>4. PICK c \in Nat : c = StartOfBin(r.start, kind) /\ c <= r.start /\ NextBin(c, kind) > r.start
        BY FirstBinIs
    <2>5. Holds(h, f[c], Later(c, r.start), r.end)
        BY <1>3, <2>3, <2>4, BinsHold
    <2>6. Later(c, r.start) = r.start
        BY <2>4 DEF Later
    <2>7. r.start # Zero /\ r.end # Zero
        BY DEF Zero
    <2>8. IterateBins(r, kind) = Capped(f[c])
        BY <1>3, <2>1, <2>4, <2>7, BinsFrom
    <2>9. PICK all \in Bins : all = f[c]
        BY <2>5 DEF Holds
    <2>10. PICK n \in Nat : n = Len(all)
        BY DEF Bins
    <2>11. PICK w \in Nat \ {0} : w = MaxBins
        BY DEF MaxBins
    <2>12. Min({n, w}) = IF n < w THEN n ELSE w
        <3>1. PICK a \in Int, b \in Int : a = n /\ b = w
            OBVIOUS
        <3>2. Min({a, b}) = IF a < b THEN a ELSE b
            BY OfTwo
        <3>3. QED
            BY <3>1, <3>2
    <2>13. Capped(all) = SubSeq(all, 1, Min({n, w}))
        BY <2>10, <2>11 DEF Capped
    <2>14. CASE n < w
        <3>1. SubSeq(all, 1, n) = all
            BY <2>10 DEF Bins
        <3>2. Capped(all) = all
            BY <2>12, <2>13, <2>14, <3>1
        <3>3. QED
            BY <2>5, <2>6, <2>8, <2>9, <3>2
    <2>15. CASE ~(n < w)
        <3>1. Capped(all) = SubSeq(all, 1, w)
            BY <2>12, <2>13, <2>15
        <3>2. Len(SubSeq(all, 1, w)) = w
            BY <2>10, <2>15 DEF Bins
        <3>3. Len(IterateBins(r, kind)) = w
            BY <2>8, <2>9, <3>1, <3>2
        <3>4. ~(w < w)
            OBVIOUS
        <3>5. QED
            BY <2>11, <3>3, <3>4
    <2>16. QED
        BY <2>14, <2>15
<1>4. QED
    BY <1>2, <1>3

----------------------------------------------------------------------------
(* The edges of a chart                                                    *)

LEMMA EndsOf ==
    ASSUME NEW n \in Nat, NEW S \in SUBSET (1..n), S # {}
    PROVE  /\ Min(S) \in S /\ \A x \in S : Min(S) <= x
           /\ Max(S) \in S /\ \A x \in S : x <= Max(S)
<1>1. S \in SUBSET Nat
    OBVIOUS
<1>2. Min(S) \in S /\ \A x \in S : Min(S) <= x
    <2>1. \E m \in S : \A x \in S : m <= x
        BY <1>1, LeastNat
    <2>2. QED
        BY <2>1 DEF Min
<1>3. Max(S) \in S /\ \A x \in S : x <= Max(S)
    <2> DEFINE T == {n - x : x \in S}
    <2>1. T \in SUBSET Nat /\ T # {}
        OBVIOUS
    <2>2. PICK t \in T : \A y \in T : t <= y
        <3> HIDE DEF T
        <3>1. QED
            BY <2>1, LeastNat
    <2>3. PICK m \in S : t = n - m
        OBVIOUS
    <2>4. ASSUME NEW x \in S
          PROVE  m >= x
        <3>1. t <= n - x
            BY <2>2
        <3>2. QED
            BY <2>3, <3>1
    <2>5. PICK w \in S : w = Max(S) /\ \A y \in S : w >= y
        BY <2>4 DEF Max
    <2>6. \A y \in S : y <= w
        BY <2>5
    <2>7. QED
        BY <2>5, <2>6
<1>4. QED
    BY <1>2, <1>3

LEMMA LeastAndMost ==
    ASSUME NEW F, NEW n \in Nat \ {0}, \A i \in 1..n : F[i] \in Int
    PROVE  /\ \A i \in 1..n : Min({F[j] : j \in 1..n}) <= F[i]
           /\ \A i \in 1..n : F[i] <= Max({F[j] : j \in 1..n})
<1> DEFINE S == {k \in Nat : k + 1 <= n =>
                   /\ \E m \in 1..(k + 1) : \A i \in 1..(k + 1) : F[m] <= F[i]
                   /\ \E m \in 1..(k + 1) : \A i \in 1..(k + 1) : F[m] >= F[i]}
<1>1. 0 \in S
    <2>1. \A i \in 1..(0 + 1) : i = 1
        OBVIOUS
    <2>2. 1 \in 1..(0 + 1) /\ F[1] \in Int
        OBVIOUS
    <2>3. QED
        BY <2>1, <2>2
<1>2. ASSUME NEW k \in Nat, k \in S
      PROVE  k + 1 \in S
    <2>1. SUFFICES ASSUME (k + 1) + 1 <= n
                   PROVE  /\ \E m \in 1..((k + 1) + 1) : \A i \in 1..((k + 1) + 1) : F[m] <= F[i]
                          /\ \E m \in 1..((k + 1) + 1) : \A i \in 1..((k + 1) + 1) : F[m] >= F[i]
        OBVIOUS
    <2>2. PICK e \in Nat : e = (k + 1) + 1
        OBVIOUS
    <2>3. PICK a \in 1..(k + 1) : \A i \in 1..(k + 1) : F[a] <= F[i]
        BY <1>2, <2>1
    <2>4. PICK b \in 1..(k + 1) : \A i \in 1..(k + 1) : F[b] >= F[i]
        BY <1>2, <2>1
    <2>5. PICK x \in Int, y \in Int, z \in Int : x = F[a] /\ y = F[b] /\ z = F[e]
        BY <2>1, <2>2
    <2>6. \A i \in 1..e : i = e \/ i \in 1..(k + 1)
        BY <2>2
    <2>7. \A i \in 1..e : F[i] \in Int /\ (i = e \/ (x <= F[i] /\ y >= F[i]))
        BY <2>1, <2>2, <2>3, <2>4, <2>5, <2>6
    <2>8. \E m \in 1..e : \A i \in 1..e : F[m] <= F[i]
        <3>1. CASE z <= x
            <4>1. \A i \in 1..e : F[e] <= F[i]
                BY <2>5, <2>7, <3>1
            <4>2. e \in 1..e
                BY <2>2
            <4>3. QED
                BY <4>1, <4>2
        <3>2. CASE ~(z <= x)
            <4>1. \A i \in 1..e : F[a] <= F[i]
                BY <2>5, <2>7, <3>2
            <4>2. a \in 1..e
                BY <2>2
            <4>3. QED
                BY <4>1, <4>2
        <3>3. QED
            BY <3>1, <3>2
    <2>9. \E m \in 1..e : \A i \in 1..e : F[m] >= F[i]
        <3>1. CASE z >= y
            <4>1. \A i \in 1..e : F[e] >= F[i]
                BY <2>5, <2>7, <3>1
            <4>2. e \in 1..e
                BY <2>2
            <4>3. QED
                BY <4>1, <4>2
        <3>2. CASE ~(z >= y)
            <4>1. \A i \in 1..e : F[b] >= F[i]
                BY <2>5, <2>7, <3>2
            <4>2. b \in 1..e
                BY <2>2
            <4>3. QED
                BY <4>1, <4>2
        <3>3. QED
            BY <3>1, <3>2
    <2>10. QED
        BY <2>2, <2>8, <2>9
<1>3. PICK p \in Nat : p + 1 = n /\ p \in S
    <2>1. n - 1 \in Nat /\ (n - 1) + 1 = n
        OBVIOUS
    <2> HIDE DEF S
    <2>2. QED
        BY <1>1, <1>2, <2>1, SetInduction
<1>4. PICK a \in 1..n : \A i \in 1..n : F[a] <= F[i]
    BY <1>3
<1>5. PICK b \in 1..n : \A i \in 1..n : F[b] >= F[i]
    BY <1>3
<1> HIDE DEF S
<1>6. PICK D : D = {F[j] : j \in 1..n}
    OBVIOUS
<1>7. \A d \in D : d \in Int
    BY <1>6
<1>8. PICK m \in D : m = Min(D) /\ \A d \in D : m <= d
    <2>1. \E x \in D : \A d \in D : x <= d
        BY <1>4, <1>6
    <2>2. QED
        BY <2>1 DEF Min
<1>9. PICK m2 \in D : m2 = Max(D) /\ \A d \in D : m2 >= d
    <2>1. \E x \in D : \A d \in D : x >= d
        BY <1>5, <1>6
    <2>2. QED
        BY <2>1 DEF Max
<1>10. \A i \in 1..n : F[i] \in D /\ Min(D) <= F[i] /\ F[i] <= Max(D)
    BY <1>6, <1>7, <1>8, <1>9
<1>11. QED
    BY <1>6, <1>10

(* What is trimmed at the edges of a chart is empty.                       *)
LEMMA TrimIs ==
    ASSUME NEW T, NEW bars \in Seq(T), NEW n \in Nat, n = Len(bars)
    PROVE  \E lo \in Nat \ {0}, m \in Nat :
              /\ lo - 1 + m <= n
              /\ DOMAIN TrimEmptyEdgeBars(bars) = 1..m
              /\ \A j \in 1..m : TrimEmptyEdgeBars(bars)[j] = bars[lo - 1 + j]
              /\ \A i \in 1..n : i < lo \/ i > lo - 1 + m => BarEmpty(bars[i])
<1>1. PICK full \in SUBSET (1..n) : full = {i \in DOMAIN bars : ~BarEmpty(bars[i])}
    <2>1. DOMAIN bars = 1..n
        OBVIOUS
    <2>2. PICK D : D = {i \in DOMAIN bars : ~BarEmpty(bars[i])}
        OBVIOUS
    <2>3. \A i \in D : i \in 1..n
        BY <2>1, <2>2
    <2>4. QED
        BY <2>2, <2>3
<1>2. TrimEmptyEdgeBars(bars) = IF full = {} THEN << >> ELSE SubSeq(bars, Min(full), Max(full))
    BY <1>1 DEF TrimEmptyEdgeBars
<1>3. \A i \in 1..n : i \notin full => BarEmpty(bars[i])
    BY <1>1
<1>4. CASE full = {}
    <2>1. PICK lo \in Nat \ {0}, m \in Nat : lo = 1 /\ m = 0
        OBVIOUS
    <2>2. TrimEmptyEdgeBars(bars) = << >>
        BY <1>2, <1>4
    <2>3. DOMAIN << >> = 1..m
        BY <2>1
    <2>4. \A j \in 1..m : FALSE
        BY <2>1
    <2>5. \A i \in 1..n : BarEmpty(bars[i])
        BY <1>3, <1>4
    <2>6. lo - 1 + m <= n
        BY <2>1
    <2>7. QED
        BY <2>2, <2>3, <2>4, <2>5, <2>6
<1>5. CASE full # {}
    <2>1. PICK lo \in 1..n, hi \in 1..n : /\ lo = Min(full) /\ hi = Max(full) /\ lo <= hi
                                          /\ \A x \in full : lo <= x /\ x <= hi
        BY <1>5, EndsOf
    <2>2. PICK m \in Nat : m = hi - lo + 1
        BY <2>1
    <2>3. TrimEmptyEdgeBars(bars) = SubSeq(bars, lo, hi)
        BY <1>2, <1>5, <2>1
    <2>4. DOMAIN SubSeq(bars, lo, hi) = 1..m /\ \A j \in 1..m : SubSeq(bars, lo, hi)[j] = bars[lo - 1 + j]
        BY <2>1, <2>2, SMTT(30)
    <2>5. \A i \in 1..n : i < lo \/ i > lo - 1 + m => BarEmpty(bars[i])
        BY <1>3, <2>1, <2>2
    <2>6. lo \in Nat \ {0} /\ lo - 1 + m <= n
        BY <2>1, <2>2
    <2>7. QED
        BY <2>3, <2>4, <2>5, <2>6
<1>6. QED
    BY <1>4, <1>5

(* Amounts kept apart by bins add up, whatever empty bins are trimmed.     *)
LEMMA AddUp ==
    ASSUME NEW h, \A i \in 1..Count : h[i] \in Int, NEW bins, NEW a, NEW e, Holds(h, bins, a, e),
           NEW lo \in Nat \ {0}, NEW m \in Nat, lo - 1 + m <= Len(bins), NEW g,
           \A j \in 1..m : g[j] = Amounts(h, bins)[lo - 1 + j],
           \A i \in 1..Len(bins) : i < lo \/ i > lo - 1 + m => Amounts(h, bins)[i] = 0
    PROVE  Total(g, 1..m) = Total(h, On(a, e))
<1>1. PICK n \in Nat : n = Len(bins) /\ DOMAIN bins = 1..n
    BY DEF Holds, Bins
<1>2. PICK F : F = Amounts(h, bins) /\ n = Len(bins) /\ DOMAIN bins = 1..n
    BY <1>1
<1>3. \A i \in 1..n : F[i] \in Int
    <2>1. \A i \in 1..n : F[i] = Over(h, Within(bins[i]), Count)
        BY <1>2 DEF Amounts
    <2>2. QED
        BY <2>1, FlowsAre, OverInt
<1>4. IsPart(F, n, lo, m, g)
    BY <1>2, <1>3 DEF IsPart
<1>5. Sum(F, n) = Sum(g, m)
    BY <1>4, SumWithin
<1>6. Sum(F, n) = Over(h, On(a, e), Count)
    BY <1>2 DEF Holds
<1>7. Total(h, On(a, e)) = Over(h, On(a, e), Count)
    <2>1. On(a, e) \in SUBSET (1..Count)
        BY DEF On
    <2>2. QED
        BY <2>1, FlowsAre, TotalIs
<1>8. Total(g, 1..m) = Sum(g, m)
    <2>1. \A j \in 1..m : g[j] \in Int
        <3>1. SUFFICES ASSUME NEW j \in 1..m
                       PROVE  g[j] \in Int
            OBVIOUS
        <3>2. lo - 1 + j \in 1..n
            BY <1>2
        <3>3. QED
            BY <1>2, <1>3, <3>2
    <2>2. PICK S \in SUBSET (1..m) : S = 1..m
        OBVIOUS
    <2>3. Total(g, S) = Over(g, S, m)
        BY <2>1, TotalIs
    <2>4. Over(g, S, m) = Sum(g, m)
        BY <2>2, OverAll
    <2>5. QED
        BY <2>2, <2>3, <2>4
<1>9. QED
    BY <1>5, <1>6, <1>7, <1>8

LEMMA BarIs ==
    ASSUME NEW b
    PROVE  /\ Bar(b).income = Over(Income(Flows), Within(b), Count)
           /\ Bar(b).expense = Over(Expense(Flows), Within(b), Count)
<1>1. Within(b) \in SUBSET (1..Count)
    BY FlowsAre DEF Within
<1>2. \A i \in 1..Count : Income(Flows)[i] \in Int /\ Expense(Flows)[i] \in Int
    BY FlowsAre DEF Income, Expense
<1>3. Total(Income(Flows), Within(b)) = Over(Income(Flows), Within(b), Count)
    BY <1>1, <1>2, FlowsAre, TotalIs
<1>4. Total(Expense(Flows), Within(b)) = Over(Expense(Flows), Within(b), Count)
    BY <1>1, <1>2, FlowsAre, TotalIs
<1>5. QED
    BY <1>3, <1>4 DEF Bar

SumsTo(bars, flows) ==
    /\ Total(Income(bars), DOMAIN bars) = Total(Income(Flows), flows)
    /\ Total(Expense(bars), DOMAIN bars) = Total(Expense(Flows), flows)

LEMMA BarsOfBins ==
    ASSUME NEW bins, NEW a, NEW e, Holds(Income(Flows), bins, a, e), Holds(Expense(Flows), bins, a, e)
    PROVE  SumsTo(Bars(bins), On(a, e))
<1>1. PICK n \in Nat : n = Len(bins) /\ DOMAIN bins = 1..n
    BY DEF Holds, Bins
<1>2. PICK bars : bars = [i \in 1..n |-> Bar(bins[i])]
    OBVIOUS
<1>3. bars \in Seq({Bar(bins[i]) : i \in 1..n}) /\ n = Len(bars)
    BY <1>2
<1>4. PICK t : t = TrimEmptyEdgeBars(bars)
    OBVIOUS
<1>5. PICK lo \in Nat \ {0}, m \in Nat :
          /\ lo - 1 + m <= n
          /\ DOMAIN t = 1..m
          /\ \A j \in 1..m : t[j] = bars[lo - 1 + j]
          /\ \A i \in 1..n : i < lo \/ i > lo - 1 + m => BarEmpty(bars[i])
    BY <1>3, <1>4, TrimIs
<1>6. Bars(bins) = t
    BY <1>1, <1>2, <1>4 DEF Bars
<1>7. \A i \in 1..n : /\ bars[i].income = Amounts(Income(Flows), bins)[i]
                      /\ bars[i].expense = Amounts(Expense(Flows), bins)[i]
    <2>1. SUFFICES ASSUME NEW i \in 1..n
                   PROVE  /\ bars[i].income = Amounts(Income(Flows), bins)[i]
                          /\ bars[i].expense = Amounts(Expense(Flows), bins)[i]
        OBVIOUS
    <2>2. bars[i] = Bar(bins[i])
        BY <1>2
    <2>3. /\ Amounts(Income(Flows), bins)[i] = Over(Income(Flows), Within(bins[i]), Count)
          /\ Amounts(Expense(Flows), bins)[i] = Over(Expense(Flows), Within(bins[i]), Count)
        BY <1>1 DEF Amounts
    <2>4. QED
        BY <2>2, <2>3, BarIs
<1>8. \A i \in 1..Count : Income(Flows)[i] \in Int /\ Expense(Flows)[i] \in Int
    BY FlowsAre DEF Income, Expense
<1>9. \A j \in 1..m : lo - 1 + j \in 1..n
    BY <1>5
<1>10. \A j \in 1..m : /\ Income(t)[j] = Amounts(Income(Flows), bins)[lo - 1 + j]
                       /\ Expense(t)[j] = Amounts(Expense(Flows), bins)[lo - 1 + j]
    <2>1. SUFFICES ASSUME NEW j \in 1..m
                   PROVE  /\ Income(t)[j] = Amounts(Income(Flows), bins)[lo - 1 + j]
                          /\ Expense(t)[j] = Amounts(Expense(Flows), bins)[lo - 1 + j]
        OBVIOUS
    <2>2. Income(t)[j] = t[j].income /\ Expense(t)[j] = t[j].expense
        BY <1>5 DEF Income, Expense
    <2>3. QED
        BY <1>5, <1>7, <1>9, <2>2
<1>11. \A i \in 1..n : i < lo \/ i > lo - 1 + m =>
          Amounts(Income(Flows), bins)[i] = 0 /\ Amounts(Expense(Flows), bins)[i] = 0
    BY <1>5, <1>7 DEF BarEmpty
<1>12. Total(Income(t), 1..m) = Total(Income(Flows), On(a, e))
    BY <1>1, <1>5, <1>8, <1>10, <1>11, AddUp
<1>13. Total(Expense(t), 1..m) = Total(Expense(Flows), On(a, e))
    BY <1>1, <1>5, <1>8, <1>10, <1>11, AddUp
<1>14. QED
    BY <1>5, <1>6, <1>12, <1>13 DEF SumsTo

(* An open side of a range reaches past every flow. *)
LEMMA ClampedHolds ==
    ASSUME NEW r, NEW ok, NEW s, NEW e, r = [ok |-> ok, start |-> s, end |-> e],
           (s # Zero /\ e # Zero) \/ Flows # << >>
    PROVE  {i \in DOMAIN Flows : InRange(Flows[i].date, r)} = On(Clamped(r).start, Clamped(r).end)
<1>1. PICK n \in Nat : n = Count /\ DOMAIN Flows = 1..n /\ \A i \in 1..n : Flows[i].date \in Int
    BY FlowsAre
<1>2. PICK F : F = [i \in 1..n |-> Flows[i].date]
    OBVIOUS
<1>3. PICK D : D = {Flows[i].date : i \in DOMAIN Flows}
    OBVIOUS
<1>4. D = {F[i] : i \in 1..n} /\ \A i \in 1..n : F[i] = Flows[i].date /\ F[i] \in Int
    BY <1>1, <1>2, <1>3
<1>5. /\ Clamped(r).start = IF s = Zero THEN Min(D) ELSE s
      /\ Clamped(r).end = IF e = Zero THEN Max(D) ELSE e
    BY <1>3 DEF Clamped
<1>6. Flows # << >> => \A i \in 1..n : Min(D) <= F[i] /\ F[i] <= Max(D)
    <2>1. SUFFICES ASSUME NEW j \in 1..n
                   PROVE  \A i \in 1..n : Min(D) <= F[i] /\ F[i] <= Max(D)
        OBVIOUS
    <2>2. n \in Nat \ {0}
        BY <2>1
    <2>3. QED
        BY <1>4, <2>2, LeastAndMost
<1>7. ASSUME NEW i \in 1..n
      PROVE  InRange(Flows[i].date, r) <=> Flows[i].date >= Clamped(r).start /\ Flows[i].date <= Clamped(r).end
    <2>1. InRange(Flows[i].date, r) <=> (s = Zero \/ s <= F[i]) /\ (e = Zero \/ F[i] <= e)
        BY <1>4 DEF InRange
    <2>2. QED
        BY <1>4, <1>5, <1>6, <2>1
<1>8. QED
    BY <1>1, <1>7 DEF On

----------------------------------------------------------------------------
(* Charts                                                                  *)

LEMMA IntervalRecord ==
    ASSUME NEW f, NEW today
    PROVE  \E ok, s, e : Parse(f, today) = [ok |-> ok, start |-> s, end |-> e]
<1>1. ASSUME NEW g
      PROVE  \E ok, s, e : ParseOne(g, today) = [ok |-> ok, start |-> s, end |-> e]
    BY DEF ParseOne, Resolve, Lasting, Invalid
<1>2. CASE f.form = "empty"
    BY <1>2 DEF Parse
<1>3. CASE f.form = "range"
    BY <1>3 DEF Parse, Joined, Invalid
<1>4. CASE f.form \notin {"empty", "range"}
    <2>1. Parse(f, today) = ParseOne(f, today)
        BY <1>4 DEF Parse
    <2>2. QED
        BY <1>1, <2>1
<1>5. QED
    BY <1>2, <1>3, <1>4

LEMMA ChartBinIs ==
    ASSUME NEW f, NEW r
    PROVE  ChartBin(f, r) \in BinKinds
BY DEF ChartBin, BinFromSpan, BinKinds

(* A page is drawn for its own filter and range.                           *)
IsPage(p) ==
    /\ \E ok, s, e : p.range = [ok |-> ok, start |-> s, end |-> e]
    /\ p = PageOf(p.filter, p.range)
Drawn == IsPage(page)

LEMMA ShownIsPage ==
    ASSUME NEW f, NEW today
    PROVE  IsPage(Shown(f, today))
<1>1. PICK p : p = PageOf(f, Parse(f, today))
    OBVIOUS
<1>2. p.filter = f /\ p.range = Parse(f, today)
    BY <1>1 DEF PageOf
<1>3. IsPage(p)
    BY <1>1, <1>2, IntervalRecord DEF IsPage
<1>4. QED
    BY <1>1, <1>3 DEF Shown

(* The dates of a chart are in the calendar, past its first day, and its   *)
(* bins are fewer than the number at which the code stops drawing them.    *)
HasChart(r) == (r.start # Zero /\ r.end # Zero) \/ Flows # << >>
Charted ==
    page.range.ok /\ HasChart(page.range) =>
        \E r \in {Clamped(page.range)} :
            /\ r.start \in Nat \ {0} /\ r.end \in Nat \ {0}
            /\ Len(IterateBins(r, ChartBin(page.filter, page.range))) < MaxBins

LEMMA DrawnAddsUp == Drawn /\ Charted => BarsAddUp
<1>1. SUFFICES ASSUME Drawn, Charted, page.range.ok
               PROVE  SumsTo(page.bars, {i \in DOMAIN Flows : InRange(Flows[i].date, page.range)})
    BY DEF BarsAddUp, SumsTo
<1>2. PICK f, r, b : f = page.filter /\ r = page.range /\ b = page.bars
    OBVIOUS
<1>3. PICK ok, s, e : r = [ok |-> ok, start |-> s, end |-> e]
    BY <1>1, <1>2 DEF Drawn, IsPage
<1>4. r.ok
    BY <1>1, <1>2
<1>5. b = PnLBars(r, ChartBin(f, r))
    <2>1. page = PageOf(f, r)
        BY <1>1, <1>2 DEF Drawn, IsPage
    <2>2. page.bars = IF r.ok THEN PnLBars(r, ChartBin(f, r)) ELSE << >>
        BY <2>1 DEF PageOf
    <2>3. QED
        BY <1>2, <1>4, <2>2
<1>6. PICK kind \in BinKinds : kind = ChartBin(f, r)
    BY ChartBinIs
<1>7. PICK flows : flows = {i \in DOMAIN Flows : InRange(Flows[i].date, r)}
    OBVIOUS
<1>8. CASE HasChart(r)
    <2>1. PICK q : /\ q = Clamped(r) /\ q.start \in Nat \ {0} /\ q.end \in Nat \ {0}
                   /\ Len(IterateBins(q, kind)) < MaxBins
        BY <1>1, <1>2, <1>4, <1>6, <1>8 DEF Charted
    <2>2. \A i \in 1..Count : Income(Flows)[i] \in Int /\ Expense(Flows)[i] \in Int
        BY FlowsAre DEF Income, Expense
    <2>3. PICK bins : bins = IterateBins(q, kind)
        OBVIOUS
    <2>4. Holds(Income(Flows), bins, q.start, q.end) /\ Holds(Expense(Flows), bins, q.start, q.end)
        BY <2>1, <2>2, <2>3, RangeHeld
    <2>5. SumsTo(Bars(bins), On(q.start, q.end))
        BY <2>4, BarsOfBins
    <2>6. flows = On(q.start, q.end)
        <3>1. (s # Zero /\ e # Zero) \/ Flows # << >>
            BY <1>3, <1>8 DEF HasChart
        <3>2. QED
            BY <1>3, <1>7, <2>1, <3>1, ClampedHolds
    <2>7. b = Bars(bins)
        BY <1>5, <1>6, <1>8, <2>1, <2>3 DEF PnLBars, HasChart
    <2>8. QED
        BY <1>2, <1>7, <2>5, <2>6, <2>7
<1>9. CASE ~HasChart(r)
    <2>1. Flows = << >> /\ b = << >>
        BY <1>5, <1>9 DEF HasChart, PnLBars
    <2>2. DOMAIN << >> = {} /\ flows = {}
        BY <1>7, <2>1
    <2>3. ASSUME NEW g
          PROVE  Total(g, {}) = 0
        <3>1. PICK n \in Nat : n = 0
            OBVIOUS
        <3>2. (\A i \in 1..n : g[i] \in Int) /\ {} \in SUBSET (1..n)
            BY <3>1
        <3>3. Total(g, {}) = Over(g, {}, n)
            BY <3>2, TotalIs
        <3>4. QED
            BY <3>3, OverNone
    <2>4. QED
        BY <1>2, <1>7, <2>1, <2>2, <2>3 DEF SumsTo
<1>10. QED
    BY <1>8, <1>9

(* The bars of a page hold every flow of its range, each once: for any     *)
(* flows, and any filters typed and moved through on any days, the sums of *)
(* the bars are those of the range, with its open sides clamped, its last  *)
(* bin cut short and its empty edges trimmed.                              *)
THEOREM BarsHoldEveryFlow == Spec => [](Charted => BarsAddUp)
<1>1. Init => Drawn
    BY ShownIsPage DEF Init, Drawn
<1>2. Drawn /\ [Next]_vars => Drawn'
    <2>1. SUFFICES ASSUME Drawn, [Next]_vars
                   PROVE  Drawn'
        OBVIOUS
    <2>2. ASSUME NEW g, Go(g)
          PROVE  Drawn'
        BY <2>2, ShownIsPage DEF Go, Drawn
    <2>3. CASE Type
        BY <2>2, <2>3 DEF Type
    <2>4. CASE Move
        BY <2>2, <2>4 DEF Move
    <2>5. CASE Choose
        BY <2>2, <2>5 DEF Choose
    <2>6. CASE DayPasses \/ UNCHANGED vars
        BY <2>1, <2>6 DEF DayPasses, vars, Drawn
    <2>7. QED
        BY <2>1, <2>3, <2>4, <2>5, <2>6 DEF Next
<1>3. QED
    BY <1>1, <1>2, DrawnAddsUp, PTL DEF Spec
=============================================================================
