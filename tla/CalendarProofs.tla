--------------------------- MODULE CalendarProofs ----------------------------
(***************************************************************************)
(* What TLAPS proves of days_to_ymd: it gives every day from 1970-01-01 on *)
(* the date of the calendar, in all the eras to come.                      *)
(*                                                                         *)
(* The years here begin on the first of March, so that a leap day is the   *)
(* last of its year.  An era is four centuries, a century twenty-five      *)
(* cycles of four years; the last year of a cycle is long, except that the *)
(* last of a century is not, except that the last of an era is.            *)
(***************************************************************************)
EXTENDS Calendar, TLAPS

(* Day s of the year that begins in March of y.                            *)
MarchDate(y, s) ==
    LET mp == (5 * s + 2) \div 153
        m == IF mp < 10 THEN mp + 3 ELSE mp - 9
    IN  <<IF m <= 2 THEN y + 1 ELSE y, m, s - (153 * mp + 2) \div 5 + 1>>

(* Century c, cycle q, year r and day s of an era, counted from 0.         *)
Place(c, q, r, s) ==
    /\ c \in Nat /\ q \in Nat /\ r \in Nat /\ s \in Nat
    /\ c <= 3 /\ q <= 24 /\ r <= 3 /\ s <= 365
    /\ s = 365 => r = 3 /\ (q = 24 => c = 3)

DayOfEra(c, q, r, s) == 36524 * c + 1461 * q + 365 * r + s

(* The days before a place, from the first day of era 0, and its year.     *)
DaysBefore(e, c, q, r, s) == 146097 * e + DayOfEra(c, q, r, s)

YearOf(e, c, q, r) == 400 * e + 100 * c + 4 * q + r

(* Every day has a place in an era.                                        *)
LEMMA EraOfDay ==
    ASSUME NEW z \in Nat
    PROVE  \E e, c, q, r, s \in Nat :
               Place(c, q, r, s) /\ z = DaysBefore(e, c, q, r, s)
<1> DEFINE e == z \div 146097
           doe == z - 146097 * e
           c == IF doe = 146096 THEN 3 ELSE doe \div 36524
           t == doe - 36524 * c
           q == t \div 1461
           u == t - 1461 * q
           r == IF u = 1460 THEN 3 ELSE u \div 365
           s == u - 365 * r
<1>1. e \in Nat /\ doe \in Nat /\ doe < 146097
  <2>1. e \in Nat /\ 146097 * e <= z /\ z - 146097 * e < 146097
    BY SMT
  <2> HIDE DEF e
  <2> QED
    BY SMT, <2>1
<1>2. z = 146097 * e + doe
  <2> HIDE DEF e
  <2> QED
    BY SMT, <1>1
<1> HIDE DEF e, doe
<1>3. c \in Nat /\ c <= 3 /\ t \in Nat /\ t <= 36524 /\ (t = 36524 => c = 3)
  <2>1. CASE doe = 146096
    BY SMT, <2>1
  <2>2. CASE doe # 146096
    <3> DEFINE k == doe \div 36524
    <3>1. k \in Nat /\ 36524 * k <= doe /\ doe - 36524 * k < 36524
      BY SMT, <1>1
    <3> HIDE DEF k
    <3>2. c = k
      BY SMT, <2>2 DEF k
    <3> HIDE DEF c
    <3> QED
      BY SMT, <1>1, <2>2, <3>1, <3>2
  <2> QED
    BY <2>1, <2>2
<1>4. doe = 36524 * c + t
  <2> HIDE DEF c
  <2> QED
    BY SMT, <1>1, <1>3
<1> HIDE DEF c, t
<1>5. q \in Nat /\ u \in Nat /\ u < 1461
  <2>1. q \in Nat /\ 1461 * q <= t /\ t - 1461 * q < 1461
    BY SMT, <1>3
  <2> HIDE DEF q
  <2> QED
    BY SMT, <1>3, <2>1
<1>6. t = 1461 * q + u
  <2> HIDE DEF q
  <2> QED
    BY SMT, <1>3, <1>5
<1> HIDE DEF q, u
<1>7. r \in Nat /\ r <= 3 /\ s \in Nat /\ s <= 365 /\ (s = 365 => r = 3)
  <2>1. CASE u = 1460
    BY SMT, <2>1
  <2>2. CASE u # 1460
    <3> DEFINE k == u \div 365
    <3>1. k \in Nat /\ 365 * k <= u /\ u - 365 * k < 365
      BY SMT, <1>5
    <3> HIDE DEF k
    <3>2. r = k
      BY SMT, <2>2 DEF k
    <3> HIDE DEF r
    <3> QED
      BY SMT, <1>5, <2>2, <3>1, <3>2
  <2> QED
    BY <2>1, <2>2
<1>8. u = 365 * r + s
  <2> HIDE DEF r
  <2> QED
    BY SMT, <1>5, <1>7
<1> HIDE DEF r, s
<1>9. q <= 24 /\ (s = 365 /\ q = 24 => c = 3)
  BY SMT, <1>3, <1>5, <1>6, <1>7, <1>8
<1>10. z = 146097 * e + (36524 * c + 1461 * q + 365 * r + s)
  BY SMT, <1>1, <1>2, <1>3, <1>4, <1>5, <1>6, <1>7, <1>8
<1>11. Place(c, q, r, s) /\ z = DaysBefore(e, c, q, r, s)
  BY SMT, <1>3, <1>5, <1>7, <1>9, <1>10 DEF Place, DaysBefore, DayOfEra
<1> QED
  BY SMT, <1>1, <1>3, <1>5, <1>7, <1>11

(* The year days_to_ymd finds, and the day within it.                      *)
LEMMA YearOfDay ==
    ASSUME NEW c \in Nat, NEW q \in Nat, NEW r \in Nat, NEW s \in Nat,
           Place(c, q, r, s)
    PROVE  YearOfEra(DayOfEra(c, q, r, s)) = 100 * c + 4 * q + r
<1> DEFINE doe == 36524 * c + 1461 * q + 365 * r + s
           cut == IF 24 * c + q + 365 * r + s < 1460 THEN 0 ELSE 1
<1>0. /\ c <= 3 /\ q <= 24 /\ r <= 3 /\ s <= 365
      /\ s = 365 => r = 3 /\ (q = 24 => c = 3)
  BY DEF Place
<1>1. doe \div 36524 - doe \div 146096 = c
  BY SMT, <1>0
<1>2. doe \div 1460 = 25 * c + q + cut
  BY SMT, <1>0
<1>3. /\ cut \in Nat /\ s - cut \in Nat /\ s - cut < 365
      /\ doe \in Nat /\ doe \div 36524 \in Nat /\ doe \div 146096 \in Nat
  BY SMT, <1>0
<1>4. doe - (25 * c + q + cut) + c = 365 * (100 * c + 4 * q + r) + (s - cut)
  BY SMT, <1>3
<1> HIDE DEF doe, cut
<1>5. doe - doe \div 1460 + doe \div 36524 - doe \div 146096
          = 365 * (100 * c + 4 * q + r) + (s - cut)
  BY SMT, <1>1, <1>2, <1>3, <1>4
<1>6. (365 * (100 * c + 4 * q + r) + (s - cut)) \div 365 = 100 * c + 4 * q + r
  BY SMT, <1>3
<1>7. YearOfEra(doe) = 100 * c + 4 * q + r
  BY SMT, <1>5, <1>6 DEF YearOfEra
<1> QED
  BY SMT, <1>7 DEF doe, DayOfEra

(* days_to_ymd finds the place of a day, and reads its date off it.        *)
LEMMA DateOfDay ==
    ASSUME NEW days \in Nat, NEW e \in Nat,
           NEW c \in Nat, NEW q \in Nat, NEW r \in Nat, NEW s \in Nat,
           Place(c, q, r, s),
           days + 719468 = 146097 * e + DayOfEra(c, q, r, s)
    PROVE  DaysToYmd(days) = MarchDate(400 * e + 100 * c + 4 * q + r, s)
<1> DEFINE doe == DayOfEra(c, q, r, s)
           yoe == 100 * c + 4 * q + r
           z == days + 719468
<1>0. /\ c <= 3 /\ q <= 24 /\ r <= 3 /\ s <= 365
      /\ s = 365 => r = 3 /\ (q = 24 => c = 3)
  BY DEF Place
<1>1. doe \in Nat /\ doe < 146097 /\ z = 146097 * e + doe /\ z \in Nat
  BY SMT, <1>0 DEF DayOfEra
<1>2. YearOfEra(doe) = yoe
  BY YearOfDay
<1>3. doe - (365 * yoe + yoe \div 4 - yoe \div 100) = s
  <2>1. yoe \div 4 = 25 * c + q /\ yoe \div 100 = c
    BY SMT, <1>0
  <2>2. doe - (365 * yoe + (25 * c + q) - c) = s
    BY SMT DEF DayOfEra
  <2> HIDE DEF yoe, doe
  <2> QED
    BY SMT, <2>1, <2>2
<1>4. yoe + e * 400 = 400 * e + 100 * c + 4 * q + r
  BY SMT
<1> HIDE DEF doe, yoe, z
<1>5. z \div 146097 = e /\ z - e * 146097 = doe
  BY SMT, <1>1
<1> DEFINE y == 400 * e + 100 * c + 4 * q + r
<1> HIDE DEF y
<1>6. DaysToYmd(days) = MarchDate(y, s)
  BY SMT, <1>2, <1>3, <1>4, <1>5 DEF DaysToYmd, MarchDate, z, y
<1> QED
  BY <1>6 DEF y
-----------------------------------------------------------------------------
(* Months ******************************************************************)

(* The days at which the months begin, from March to February.             *)
MonthTable(y, s) ==
    IF s < 31 THEN <<y, 3, s + 1>>
    ELSE IF s < 61 THEN <<y, 4, s - 30>>
    ELSE IF s < 92 THEN <<y, 5, s - 60>>
    ELSE IF s < 122 THEN <<y, 6, s - 91>>
    ELSE IF s < 153 THEN <<y, 7, s - 121>>
    ELSE IF s < 184 THEN <<y, 8, s - 152>>
    ELSE IF s < 214 THEN <<y, 9, s - 183>>
    ELSE IF s < 245 THEN <<y, 10, s - 213>>
    ELSE IF s < 275 THEN <<y, 11, s - 244>>
    ELSE IF s < 306 THEN <<y, 12, s - 274>>
    ELSE IF s < 337 THEN <<y + 1, 1, s - 305>>
    ELSE <<y + 1, 2, s - 336>>

(* 153 days in five months, from March on and again from August on.        *)
LEMMA MonthOfDay ==
    ASSUME NEW y \in Nat, NEW s \in Nat, s <= 365
    PROVE  MarchDate(y, s) = MonthTable(y, s)
<1> DEFINE mp == (5 * s + 2) \div 153
           start == (153 * mp + 2) \div 5
           m == IF mp < 10 THEN mp + 3 ELSE mp - 9
<1>1. mp \in Nat /\ mp <= 11 /\ 153 * mp <= 5 * s + 2 /\ 5 * s + 2 < 153 * mp + 153
  BY SMT
<1>2. MarchDate(y, s) = <<IF m <= 2 THEN y + 1 ELSE y, m, s - start + 1>>
  BY SMT DEF MarchDate
<1> HIDE DEF mp
<1>3. CASE mp = 0
  BY SMT, <1>1, <1>2, <1>3 DEF MonthTable
<1>4. CASE mp = 1
  BY SMT, <1>1, <1>2, <1>4 DEF MonthTable
<1>5. CASE mp = 2
  BY SMT, <1>1, <1>2, <1>5 DEF MonthTable
<1>6. CASE mp = 3
  BY SMT, <1>1, <1>2, <1>6 DEF MonthTable
<1>7. CASE mp = 4
  BY SMT, <1>1, <1>2, <1>7 DEF MonthTable
<1>8. CASE mp = 5
  BY SMT, <1>1, <1>2, <1>8 DEF MonthTable
<1>9. CASE mp = 6
  BY SMT, <1>1, <1>2, <1>9 DEF MonthTable
<1>10. CASE mp = 7
  BY SMT, <1>1, <1>2, <1>10 DEF MonthTable
<1>11. CASE mp = 8
  BY SMT, <1>1, <1>2, <1>11 DEF MonthTable
<1>12. CASE mp = 9
  BY SMT, <1>1, <1>2, <1>12 DEF MonthTable
<1>13. CASE mp = 10
  BY SMT, <1>1, <1>2, <1>13 DEF MonthTable
<1>14. CASE mp = 11
  BY SMT, <1>1, <1>2, <1>14 DEF MonthTable
<1> HIDE DEF start, m
<1> QED
  BY SMT, <1>1, <1>3, <1>4, <1>5, <1>6, <1>7, <1>8, <1>9, <1>10, <1>11, <1>12,
     <1>13, <1>14

(* The lengths of the months, one by one.                                  *)
LEMMA MonthLengths ==
    ASSUME NEW y
    PROVE  /\ \A m \in {1, 3, 5, 7, 8, 10, 12} : DaysIn(y, m) = 31
           /\ \A m \in {4, 6, 9, 11} : DaysIn(y, m) = 30
           /\ DaysIn(y, 2) = IF Leap(y) THEN 29 ELSE 28
BY SMT DEF DaysIn

(* The day after, within a year that begins in March.                      *)
LEMMA NextOfMonth ==
    ASSUME NEW y \in Nat, NEW s \in Nat, s < 365, s = 364 => Leap(y + 1)
    PROVE  NextDate(MonthTable(y, s)) = MonthTable(y, s + 1)
<1>1. /\ DaysIn(y, 3) = 31 /\ DaysIn(y, 4) = 30 /\ DaysIn(y, 5) = 31
      /\ DaysIn(y, 6) = 30 /\ DaysIn(y, 7) = 31 /\ DaysIn(y, 8) = 31
      /\ DaysIn(y, 9) = 30 /\ DaysIn(y, 10) = 31 /\ DaysIn(y, 11) = 30
      /\ DaysIn(y, 12) = 31 /\ DaysIn(y + 1, 1) = 31
      /\ DaysIn(y + 1, 2) = IF Leap(y + 1) THEN 29 ELSE 28
  BY SMT, MonthLengths
<1>2. CASE s < 92
  BY SMT, <1>1, <1>2 DEF MonthTable, NextDate
<1>3. CASE 92 <= s /\ s < 184
  BY SMT, <1>1, <1>3 DEF MonthTable, NextDate
<1>4. CASE 184 <= s /\ s < 275
  BY SMT, <1>1, <1>4 DEF MonthTable, NextDate
<1>5. CASE 275 <= s /\ s < 306
  <2>1. /\ MonthTable(y, s) = <<y, 12, s - 274>>
        /\ MonthTable(y, s + 1) =
               IF s < 305 THEN <<y, 12, s - 273>> ELSE <<y + 1, 1, 1>>
    BY SMT, <1>5 DEF MonthTable
  <2>2. DaysIn(y, 12) = 31
    BY <1>1
  <2>3. CASE s < 305
    BY SMT, <1>5, <2>1, <2>2, <2>3 DEF NextDate
  <2>4. CASE s = 305
    BY SMT, <2>1, <2>2, <2>4 DEF NextDate
  <2> QED
    BY SMT, <1>5, <2>3, <2>4
<1>6. CASE 306 <= s
  <2> DEFINE w == y + 1
  <2>1. /\ DaysIn(w, 1) = 31 /\ DaysIn(w, 2) = IF Leap(w) THEN 29 ELSE 28
        /\ s = 364 => Leap(w)
    BY <1>1
  <2>2. /\ MonthTable(y, s) = IF s < 337 THEN <<w, 1, s - 305>> ELSE <<w, 2, s - 336>>
        /\ MonthTable(y, s + 1) =
               IF s < 336 THEN <<w, 1, s - 304>> ELSE <<w, 2, s - 335>>
    BY SMT, <1>6 DEF MonthTable
  <2>3. w \in Nat
    BY SMT
  <2> HIDE DEF w
  <2>4. CASE s < 337
    BY SMT, <1>6, <2>1, <2>2, <2>3, <2>4 DEF NextDate
  <2>5. CASE ~(s < 337)
    BY SMT, <1>6, <2>1, <2>2, <2>3, <2>5 DEF NextDate
  <2> QED
    BY <2>4, <2>5
<1> QED
  BY SMT, <1>2, <1>3, <1>4, <1>5, <1>6

(* The day after the last of such a year.                                  *)
LEMMA NextOfYear ==
    ASSUME NEW y \in Nat, NEW s \in Nat, s = IF Leap(y + 1) THEN 365 ELSE 364
    PROVE  NextDate(MonthTable(y, s)) = MonthTable(y + 1, 0)
BY SMT, MonthLengths DEF MonthTable, NextDate
-----------------------------------------------------------------------------
(* The next day ************************************************************)

(* A year has 366 days when its February belongs to a leap year.           *)
LEMMA LongYears ==
    ASSUME NEW e \in Nat, NEW c \in Nat, NEW q \in Nat, NEW r \in Nat,
           c <= 3, q <= 24, r <= 3
    PROVE  Leap(YearOf(e, c, q, r) + 1) <=> r = 3 /\ (q = 24 => c = 3)
<1> DEFINE n == YearOf(e, c, q, r) + 1
<1>1. n % 4 = 0 <=> r = 3
  BY SMT DEF YearOf
<1>2. n % 100 = 0 <=> r = 3 /\ q = 24
  BY SMT DEF YearOf
<1>3. n % 400 = 0 <=> r = 3 /\ q = 24 /\ c = 3
  BY SMT DEF YearOf
<1> HIDE DEF n
<1>4. Leap(n) <=> r = 3 /\ (q = 24 => c = 3)
  BY SMT, <1>1, <1>2, <1>3 DEF Leap
<1> QED
  BY <1>4 DEF n

DaysBeforeEpoch == 719468

(* Day s of the year that begins in March of y is days after 1970-01-01.   *)
IsDay(days, y, s) ==
    \E e, c, q, r \in Nat :
        /\ Place(c, q, r, s)
        /\ days + DaysBeforeEpoch = DaysBefore(e, c, q, r, s)
        /\ y = YearOf(e, c, q, r)

(* Every day is a day of some year.                                        *)
LEMMA SomeDay ==
    ASSUME NEW days \in Nat
    PROVE  \E y, s \in Nat : IsDay(days, y, s)
<1>1. days + DaysBeforeEpoch \in Nat
  BY SMT DEF DaysBeforeEpoch
<1>2. PICK e \in Nat, c \in Nat, q \in Nat, r \in Nat, s \in Nat :
          /\ Place(c, q, r, s)
          /\ days + DaysBeforeEpoch = DaysBefore(e, c, q, r, s)
  BY Zenon, <1>1, EraOfDay
<1>3. YearOf(e, c, q, r) \in Nat
  BY SMT DEF YearOf
<1>4. IsDay(days, YearOf(e, c, q, r), s)
  BY Zenon, <1>2 DEF IsDay
<1> QED
  BY Zenon, <1>3, <1>4

(* days_to_ymd dates the day by the table of the months.                   *)
LEMMA DateOfIsDay ==
    ASSUME NEW days \in Nat, NEW y \in Nat, NEW s \in Nat, IsDay(days, y, s)
    PROVE  DaysToYmd(days) = MonthTable(y, s)
<1>1. PICK e \in Nat, c \in Nat, q \in Nat, r \in Nat :
          /\ Place(c, q, r, s)
          /\ days + DaysBeforeEpoch = DaysBefore(e, c, q, r, s)
          /\ y = YearOf(e, c, q, r)
  BY DEF IsDay
<1>2. days + 719468 = 146097 * e + DayOfEra(c, q, r, s)
  BY SMT, <1>1 DEF DaysBeforeEpoch, DaysBefore
<1>3. DaysToYmd(days) = MarchDate(400 * e + 100 * c + 4 * q + r, s)
  BY SMT, <1>1, <1>2, DateOfDay
<1>4. DaysToYmd(days) = MarchDate(y, s)
  BY SMT, <1>1, <1>3 DEF YearOf
<1>5. s <= 365
  BY SMT, <1>1 DEF Place
<1>6. MarchDate(y, s) = MonthTable(y, s)
  BY SMT, <1>5, MonthOfDay
<1> QED
  BY <1>4, <1>6

(* The day after is the next of its year, or the first of the year after   *)
(* when it is the last.                                                    *)
LEMMA NextIsDay ==
    ASSUME NEW days \in Nat, NEW y \in Nat, NEW s \in Nat, IsDay(days, y, s)
    PROVE  \/ /\ s < 365 /\ (s = 364 => Leap(y + 1))
              /\ IsDay(days + 1, y, s + 1)
           \/ /\ s = IF Leap(y + 1) THEN 365 ELSE 364
              /\ IsDay(days + 1, y + 1, 0)
<1>1. PICK e \in Nat, c \in Nat, q \in Nat, r \in Nat :
          /\ Place(c, q, r, s)
          /\ days + DaysBeforeEpoch = DaysBefore(e, c, q, r, s)
          /\ y = YearOf(e, c, q, r)
  BY DEF IsDay
<1>2. /\ c <= 3 /\ q <= 24 /\ r <= 3 /\ s <= 365
      /\ s = 365 => r = 3 /\ (q = 24 => c = 3)
  BY SMT, <1>1 DEF Place
<1> DEFINE long == r = 3 /\ (q = 24 => c = 3)
           next == 146097 * e + (36524 * c + 1461 * q + 365 * r + s) + 1
<1>3. Leap(y + 1) <=> long
  <2>1. Leap(YearOf(e, c, q, r) + 1) <=> long
    BY SMT, <1>2, LongYears
  <2> QED
    BY SMT, <1>1, <2>1
<1>4. days + 1 + DaysBeforeEpoch = next
  BY SMT, <1>1 DEF DaysBeforeEpoch, DaysBefore, DayOfEra
<1> HIDE DEF next
<1>5. CASE s < 364 \/ (s = 364 /\ long)
  <2>1. s + 1 \in Nat /\ Place(c, q, r, s + 1)
    BY SMT, <1>2, <1>5 DEF Place
  <2>2. DaysBefore(e, c, q, r, s + 1) = next
    BY SMT DEF next, DaysBefore, DayOfEra
  <2>3. days + 1 + DaysBeforeEpoch = DaysBefore(e, c, q, r, s + 1)
    BY SMT, <1>4, <2>2
  <2>4. IsDay(days + 1, y, s + 1)
    BY Zenon, <1>1, <2>1, <2>3 DEF IsDay
  <2>5. s < 365 /\ (s = 364 => long)
    BY SMT, <1>5
  <2> QED
    BY SMT, <1>3, <2>4, <2>5
<1>6. CASE ~(s < 364 \/ (s = 364 /\ long))
  <2>1. s = IF long THEN 365 ELSE 364
    BY SMT, <1>2, <1>6
  <2>2. s = IF Leap(y + 1) THEN 365 ELSE 364
    BY SMT, <1>3, <2>1
  <2>3. 0 \in Nat
    BY SMT
  <2>4. ASSUME NEW f \in Nat, NEW a \in Nat, NEW b \in Nat, NEW g \in Nat,
               Place(a, b, g, 0),
               DaysBefore(f, a, b, g, 0) = next,
               YearOf(f, a, b, g) = y + 1
        PROVE  IsDay(days + 1, y + 1, 0)
    <3>1. days + 1 + DaysBeforeEpoch = DaysBefore(f, a, b, g, 0)
      BY SMT, <1>4, <2>4
    <3>2. y + 1 = YearOf(f, a, b, g)
      BY SMT, <2>4
    <3> QED
      BY Zenon, <2>3, <2>4, <3>1, <3>2 DEF IsDay
  <2>5. IsDay(days + 1, y + 1, 0)
    <3>1. CASE r < 3
      <4>1. /\ r + 1 \in Nat /\ Place(c, q, r + 1, 0)
            /\ YearOf(e, c, q, r + 1) = y + 1
        BY SMT, <1>1, <1>2, <3>1 DEF Place, YearOf
      <4>2. DaysBefore(e, c, q, r + 1, 0) = next
        BY SMT, <2>1, <3>1 DEF next, DaysBefore, DayOfEra
      <4> QED
        BY Zenon, <2>4, <4>1, <4>2
    <3>2. CASE r = 3 /\ q < 24
      <4>1. /\ q + 1 \in Nat /\ Place(c, q + 1, 0, 0)
            /\ YearOf(e, c, q + 1, 0) = y + 1
        BY SMT, <1>1, <1>2, <3>2 DEF Place, YearOf
      <4>2. DaysBefore(e, c, q + 1, 0, 0) = next
        BY SMT, <2>1, <3>2 DEF next, DaysBefore, DayOfEra
      <4> QED
        BY Zenon, <2>3, <2>4, <4>1, <4>2
    <3>3. CASE r = 3 /\ q = 24 /\ c < 3
      <4>1. /\ c + 1 \in Nat /\ Place(c + 1, 0, 0, 0)
            /\ YearOf(e, c + 1, 0, 0) = y + 1
        BY SMT, <1>1, <1>2, <3>3 DEF Place, YearOf
      <4>2. DaysBefore(e, c + 1, 0, 0, 0) = next
        BY SMT, <2>1, <3>3 DEF next, DaysBefore, DayOfEra
      <4> QED
        BY Zenon, <2>3, <2>4, <4>1, <4>2
    <3>4. CASE r = 3 /\ q = 24 /\ c = 3
      <4>1. /\ e + 1 \in Nat /\ Place(0, 0, 0, 0)
            /\ YearOf(e + 1, 0, 0, 0) = y + 1
        BY SMT, <1>1, <3>4 DEF Place, YearOf
      <4>2. DaysBefore(e + 1, 0, 0, 0, 0) = next
        BY SMT, <2>1, <3>4 DEF next, DaysBefore, DayOfEra
      <4> QED
        BY Zenon, <2>3, <2>4, <4>1, <4>2
    <3> QED
      BY SMT, <1>2, <3>1, <3>2, <3>3, <3>4
  <2> QED
    BY SMT, <2>2, <2>5
<1> QED
  BY SMT, <1>5, <1>6

(* The date of the day after a day is the day after its date.              *)
LEMMA NextDateRight ==
    ASSUME NEW days \in Nat
    PROVE  DaysToYmd(days + 1) = NextDate(DaysToYmd(days))
<1>1. PICK y \in Nat, s \in Nat : IsDay(days, y, s)
  BY SMT, SomeDay
<1>2. DaysToYmd(days) = MonthTable(y, s)
  BY SMT, <1>1, DateOfIsDay
<1>3. days + 1 \in Nat /\ y + 1 \in Nat /\ s + 1 \in Nat /\ 0 \in Nat
  BY SMT
<1>4. CASE /\ s < 365 /\ (s = 364 => Leap(y + 1))
           /\ IsDay(days + 1, y, s + 1)
  <2>1. DaysToYmd(days + 1) = MonthTable(y, s + 1)
    BY SMT, <1>3, <1>4, DateOfIsDay
  <2>2. NextDate(MonthTable(y, s)) = MonthTable(y, s + 1)
    BY SMT, <1>4, NextOfMonth
  <2> QED
    BY SMT, <1>2, <2>1, <2>2
<1>5. CASE /\ s = IF Leap(y + 1) THEN 365 ELSE 364
           /\ IsDay(days + 1, y + 1, 0)
  <2>1. DaysToYmd(days + 1) = MonthTable(y + 1, 0)
    BY SMT, <1>3, <1>5, DateOfIsDay
  <2>2. NextDate(MonthTable(y, s)) = MonthTable(y + 1, 0)
    BY SMT, <1>5, NextOfYear
  <2> QED
    BY SMT, <1>2, <2>1, <2>2
<1> QED
  BY SMT, <1>1, <1>4, <1>5, NextIsDay

(* Day 0 is the first of January 1970.                                     *)
LEMMA FirstDateRight == DaysToYmd(0) = <<1970, 1, 1>>
<1> DEFINE d == 306
           q == 17
           y == 1969
<1>1. /\ Place(3, q, 1, d) /\ 0 + DaysBeforeEpoch = DaysBefore(4, 3, q, 1, d)
      /\ y = YearOf(4, 3, q, 1)
      /\ 4 \in Nat /\ 3 \in Nat /\ q \in Nat /\ 1 \in Nat
  BY SMT DEF Place, DayOfEra, DaysBefore, DaysBeforeEpoch, YearOf
<1> HIDE DEF d, q, y
<1>2. IsDay(0, y, d)
  BY Zenon, <1>1 DEF IsDay
<1>3. DaysToYmd(0) = MonthTable(1969, 306)
  BY SMT, <1>2, DateOfIsDay DEF d, y
<1>4. MonthTable(1969, 306) = <<1970, 1, 1>>
  BY SMT DEF MonthTable
<1> QED
  BY SMT, <1>3, <1>4

(* days_to_ymd gives every day from 1970-01-01 on the date of the          *)
(* calendar, whatever LastDay is: from each day to the next it takes the   *)
(* step that the calendar takes.                                           *)
THEOREM DateAlwaysRight == Spec => []DateRight
<1> DEFINE DateInv == day \in Nat /\ DaysToYmd(day) = date
<1>1. Init => DateInv
  BY SMT, FirstDateRight DEF Init
<1>2. ASSUME DateInv, [Next]_vars PROVE DateInv'
  <2>1. CASE NextDay
    <3>1. day + 1 \in Nat
      BY SMT, <1>2
    <3>2. DaysToYmd(day + 1) = NextDate(date)
      BY SMT, <1>2, NextDateRight
    <3> QED
      BY SMT, <2>1, <3>1, <3>2 DEF NextDay
  <2>2. CASE UNCHANGED vars
    BY SMT, <1>2, <2>2 DEF vars
  <2> QED
    BY SMT, <1>2, <2>1, <2>2 DEF Next, LastOne
<1>3. DateInv => DateRight
  BY SMT DEF DateRight
<1> QED
  BY <1>1, <1>2, <1>3, PTL DEF Spec
=============================================================================
