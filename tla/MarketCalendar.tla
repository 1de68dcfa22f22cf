---------------------------- MODULE MarketCalendar ----------------------------
(***************************************************************************)
(* The calendar of regular sessions (domain/market_calendar.py), year by   *)
(* year.  A date is the number of days since 0000-03-01 of the Gregorian   *)
(* calendar.                                                               *)
(***************************************************************************)
EXTENDS Integers, FiniteSets, FiniteSetsExt

CONSTANTS FirstYear, LastYear

VARIABLE year       \* the year asked for

(* datetime.date: years begin in March, so that a leap day is a year's last. *)
Date(y, month, day) ==
    LET y1 == IF month < 3 THEN y - 1 ELSE y
        m1 == (month + 9) % 12
    IN  365 * y1 + y1 \div 4 - y1 \div 100 + y1 \div 400 + (153 * m1 + 2) \div 5 + day - 1

(* date.weekday: Monday is 0. *)
Weekday(d) == (d + 2) % 7
Weekend == {5, 6}

(* monthrange *)
MonthEnd(y, month) == (IF month = 12 THEN Date(y + 1, 1, 1) ELSE Date(y, month + 1, 1)) - 1

(* _nth_weekday and _last_weekday *)
NthWeekday(y, month, weekday, n) ==
    LET first == Date(y, month, 1) IN first + ((weekday - Weekday(first)) % 7) + 7 * (n - 1)
LastWeekday(y, month, weekday) ==
    LET last == MonthEnd(y, month) IN last - ((Weekday(last) - weekday) % 7)

(* _observed_fixed_holiday and _new_years_observed: a Saturday moves to the
   Friday before it, but never into the year before. *)
ObservedFixed(y, month, day) ==
    LET d == Date(y, month, day)
    IN  IF Weekday(d) = 5 THEN d - 1 ELSE IF Weekday(d) = 6 THEN d + 1 ELSE d
NewYears(y) == LET d == Date(y, 1, 1) IN IF Weekday(d) = 6 THEN d + 1 ELSE d

(* Mutant: without the correction of the months that begin too late. *)
EasterUncorrected(y) ==
    LET h == (19 * (y % 19) + y \div 100 - (y \div 400) - ((y \div 100 - (y \div 100 + 8) \div 25 + 1) \div 3) + 15) % 30
        c == y % 100
        l == (32 + 2 * ((y \div 100) % 4) + 2 * (c \div 4) - h - (c % 4)) % 7
    IN  Date(y, (h + l + 114) \div 31, ((h + l + 114) % 31) + 1)

(* _western_easter *)
Easter(y) ==
    LET a == y % 19
        b == y \div 100
        c == y % 100
        g == (b - (b + 8) \div 25 + 1) \div 3
        h == (19 * a + b - b \div 4 - g + 15) % 30
        l == (32 + 2 * (b % 4) + 2 * (c \div 4) - h - (c % 4)) % 7
        m == (a + 11 * h + 22 * l) \div 451
        n == h + l - 7 * m + 114
    IN  Date(y, n \div 31, (n % 31) + 1)

(* us_equity_holidays *)
Holidays(y) ==
    {NewYears(y), NthWeekday(y, 1, 0, 3), NthWeekday(y, 2, 0, 3), Easter(y) - 2,
     LastWeekday(y, 5, 0), ObservedFixed(y, 7, 4), NthWeekday(y, 9, 0, 1),
     NthWeekday(y, 11, 3, 4), ObservedFixed(y, 12, 25)}
      \cup (IF y >= 2022 THEN {ObservedFixed(y, 6, 19)} ELSE {})

(* us_equity_early_closes *)
EarlyCloses(y) ==
    {d \in {Date(y, 7, 3), Date(y, 12, 24)} : Weekday(d) < 4} \cup {NthWeekday(y, 11, 3, 4) + 1}

(* regular_session_times: closed, or the length of the session in minutes. *)
Session(y, d) ==
    IF Weekday(d) \in Weekend \/ d \in Holidays(y) THEN 0
    ELSE IF d \in EarlyCloses(y) \ Holidays(y) THEN 210 ELSE 390

Init == year = FirstYear
Next == year < LastYear /\ year' = year + 1
Spec == Init /\ [][Next]_year

-----------------------------------------------------------------------------
(* Properties *)

(* The Sunday after the full moon of the church's tables: golden number,
   corrections of the centuries and epact. *)
PaschalSunday(y) ==
    LET golden == (y % 19) + 1
        century == y \div 100 + 1
        leap == (3 * century) \div 4 - 12
        moon == (8 * century + 5) \div 25 - 5
        age == (11 * golden + 20 + moon - leap) % 30
        epact == IF age = 24 \/ (age = 25 /\ golden > 11) THEN age + 1 ELSE age
        full == Date(y, 3, 1) + (IF epact > 23 THEN 74 - epact ELSE 44 - epact) - 1
    IN  CHOOSE d \in full + 1..full + 7 : Weekday(d) = 6

(* The calendar of every year is one an exchange could run: Good Friday
   precedes the Easter of the church's tables, the holidays are distinct
   days of their own year, a shortened day is a session next to a closed day,
   and no more than four days in a row are without a session, so the search
   for a settlement day ends (market_calendar.py regular_session_times). *)
CalendarHolds ==
    LET days == Date(year, 1, 1)..Date(year, 12, 31)
        closed == {d \in days : Weekday(d) \in Weekend} \cup Holidays(year)
    IN  /\ Easter(year) = PaschalSunday(year)
        /\ Holidays(year) \subseteq days
        /\ Cardinality(Holidays(year)) = IF year >= 2022 THEN 10 ELSE 9
        /\ {d \in Holidays(year) : Weekday(d) \in Weekend} \subseteq {NewYears(year)}
        /\ \A d \in EarlyCloses(year) \ closed : {d - 1, d + 1} \cap closed # {}
        /\ \A d \in days : d + 4 \in days => \E e \in d..d + 4 : e \notin closed

=============================================================================
