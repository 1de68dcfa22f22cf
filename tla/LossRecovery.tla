----------------------------- MODULE LossRecovery -----------------------------
(***************************************************************************)
(* When trading may resume after a loss stop (domain/loss_recovery.py).    *)
(* An instant counts hours of UTC.  The exchange's wall clock runs one     *)
(* hour ahead of standard time from DstStart until DstEnd.  Delays in      *)
(* minutes are computed like those in hours and left out.                  *)
(***************************************************************************)
EXTENDS Naturals, Sequences, FiniteSetsExt

CONSTANTS
    DayHours,       \* hours of a day
    WeekDays,       \* days of a week
    YearMonths,     \* months of a year
    MonthDays,      \* the lengths of consecutive months, from the epoch on
    DstStart, DstEnd

ASSUME CalendarAssumption ==
    /\ DayHours \in Nat \ {0} /\ WeekDays \in Nat \ {0} /\ YearMonths \in Nat \ {0}
    /\ MonthDays \in Seq(Nat \ {0})
    /\ DstStart \in Nat /\ DstEnd \in Nat

Unit == {"manual", "hours", "days", "weeks", "months", "years"}

(* Astimezone to Eastern: the wall clock of an instant, and its date.  Two
   instants show the same wall clock when the clock is set back; the second
   of them carries fold = 1. *)
Summer(t) == DstStart <= t /\ t < DstEnd
Wall(t) == IF Summer(t) THEN t + 1 ELSE t
Fold(t) == t = DstEnd
EasternDate(t) == Wall(t) \div DayHours

(* Astimezone back to UTC.  A wall clock that is skipped or repeated counts
   as standing before the change, and after it when fold = 1. *)
Instant(wall, fold) ==
    CASE wall = DstStart /\ fold -> wall - 1
      [] wall = DstEnd /\ fold -> wall
      [] OTHER -> IF DstStart < wall /\ wall <= DstEnd THEN wall - 1 ELSE wall

(* The months of the calendar as dates: the first date of month m. *)
FirstOf[m \in 1..Len(MonthDays) + 1] ==
    IF m = 1 THEN 0 ELSE FirstOf[m - 1] + MonthDays[m - 1]
MonthOf(date) == CHOOSE m \in 1..Len(MonthDays) : FirstOf[m] <= date /\ date < FirstOf[m + 1]

(* The same day of a later month, or that month's last day. *)
MonthsLater(date, months) ==
    LET from == MonthOf(date)
        day == date - FirstOf[from] + 1
        last == MonthDays[from + months]
    IN FirstOf[from + months] + (IF day <= last THEN day ELSE last) - 1

TargetDate(date, delay, unit) ==
    CASE unit = "days" -> date + delay
      [] unit = "weeks" -> date + delay * WeekDays
      [] unit = "months" -> MonthsLater(date, delay)
      [] unit = "years" -> MonthsLater(date, delay * YearMonths)

(* Calendar units taken as so many hours. *)
DeadlineElapsed(start, delay, unit) ==
    IF unit = "hours" THEN start + delay
    ELSE start + (TargetDate(EasternDate(start), delay, unit) - EasternDate(start)) * DayHours

(* The date taken in UTC, the time of day in the exchange's zone. *)
DeadlineUtcDate(start, delay, unit) ==
    IF unit = "hours" THEN start + delay
    ELSE Instant(TargetDate(start \div DayHours, delay, unit) * DayHours
                 + (Wall(start) % DayHours), Fold(start))

(* recovery_deadline for every unit but "manual", which has no deadline. *)
Deadline(start, delay, unit) ==
    IF unit = "hours" THEN start + delay
    ELSE Instant(TargetDate(EasternDate(start), delay, unit) * DayHours + (Wall(start) % DayHours), Fold(start))

=============================================================================
