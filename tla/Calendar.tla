------------------------------ MODULE Calendar ------------------------------
(***************************************************************************)
(* days_to_ymd, the conversion main.rs writes out by hand for the          *)
(* timestamps of the log, against the calendar counted day by day.         *)
(***************************************************************************)
EXTENDS Integers

CONSTANT LastDay    \* bound: the last day after 1970-01-01 that is compared

ASSUME CalendarAssumption == LastDay \in Nat

VARIABLES
    day,    \* days since 1970-01-01
    date    \* the date of that day, <<year, month, day of month>>

vars == <<day, date>>

(* Bug: the year of the era without the century correction.                *)
JulianYearOfEra(doe) == (doe - doe \div 1460) \div 365

(* The year within an era of a day within it.                              *)
YearOfEra(doe) ==
    (doe - doe \div 1460 + doe \div 36524 - doe \div 146096) \div 365

(* Howard Hinnant's days-from-civil, for days that are not negative: an    *)
(* era is 400 years of 146097 days that begin on the first of March.       *)
DaysToYmd(days) ==
    LET z == days + 719468
        era == z \div 146097
        doe == z - era * 146097
        yoe == YearOfEra(doe)
        doy == doe - (365 * yoe + yoe \div 4 - yoe \div 100)
        mp == (5 * doy + 2) \div 153
        m == IF mp < 10 THEN mp + 3 ELSE mp - 9
        y == yoe + era * 400
    IN  <<IF m <= 2 THEN y + 1 ELSE y, m, doy - (153 * mp + 2) \div 5 + 1>>

Leap(y) == y % 4 = 0 /\ (y % 100 # 0 \/ y % 400 = 0)

DaysIn(y, m) ==
    CASE m = 2                -> IF Leap(y) THEN 29 ELSE 28
      [] m \in {4, 6, 9, 11}  -> 30
      [] OTHER                -> 31

(* The day after a date.                                                   *)
NextDate(d) ==
    IF d[3] < DaysIn(d[1], d[2]) THEN <<d[1], d[2], d[3] + 1>>
    ELSE IF d[2] < 12 THEN <<d[1], d[2] + 1, 1>>
    ELSE <<d[1] + 1, 1, 1>>

Init == day = 0 /\ date = <<1970, 1, 1>>

NextDay ==
    /\ day < LastDay
    /\ day' = day + 1
    /\ date' = NextDate(date)

LastOne == day = LastDay /\ UNCHANGED vars

Next == NextDay \/ LastOne

Spec == Init /\ [][Next]_vars

(* The timestamp of a log line carries the date of its day, across every   *)
(* month, leap year, century and 400-year boundary compared.               *)
DateRight == DaysToYmd(day) = date
=============================================================================
