--------------------------- MODULE DailyRiskProofs ---------------------------
(***************************************************************************)
(* The daily loss stop for every number of scopes, limits, calendars and   *)
(* calls.  A day's row dominates what was observed on it: its peak is at   *)
(* least every observation and its limit at most every observer's, so a    *)
(* breach that history shows has latched the row, and the latch stays.     *)
(* The row is also exact: it has no peak and no limit that no call         *)
(* observed, so a latch has a breach behind it.  From that, and from the   *)
(* stop that began the pause on record, a recovery pause holds.            *)
(***************************************************************************)
EXTENDS DailyRisk, TLAPS, WellFoundedInduction

RowsDominate ==
    \A i \in Observations :
        /\ log[i].pnl \in Pnl /\ log[i].scope \in Scope
        /\ days[log[i].day] # None
        /\ log[i].pnl <= days[log[i].day].peak
        /\ days[log[i].day].limit <= Limit[log[i].scope]

BreachesLatch ==
    \A best, k, i \in Observations :
        /\ log[best].day = log[i].day /\ log[k].day = log[i].day
        /\ best <= i /\ k <= i
        /\ log[best].pnl - log[i].pnl >= Limit[log[k].scope]
        => days[log[i].day].latched

RiskInv == DailyRiskTypeOK /\ RowsDominate /\ BreachesLatch /\ NoEntryAfterBreach

-----------------------------------------------------------------------------
(* What the operators on rows return. *)

LEMMA TodayIsADay == DailyRiskTypeOK => Today \in Day /\ Today \in Nat
  BY DateAssumption DEF DailyRiskTypeOK, Today, Day

LEMMA LargerIn ==
    ASSUME NEW x \in Pnl, NEW y \in Pnl
    PROVE  Larger(x, y) \in Pnl /\ x <= Larger(x, y) /\ y <= Larger(x, y)
<1>1. x \in Int /\ y \in Int
  BY PnlAssumption
<1>2. CASE x >= y
  BY <1>1, <1>2 DEF Larger
<1>3. CASE ~(x >= y)
  BY <1>1, <1>3 DEF Larger
<1> QED
  BY <1>2, <1>3

LEMMA LatestExists ==
    ASSUME NEW S, NEW bound \in Nat, S # {}, \A d \in S : d \in Nat /\ d < bound
    PROVE  \E d \in S : \A e \in S : e <= d
<1> DEFINE less == {ss \in Nat \X Nat : ss[1] < ss[2]}
<1> DEFINE T == {n \in Nat : \E d \in S : n = bound - d}
<1>1. IsWellFoundedOn(less, Nat)
  BY NatLessThanWellFounded DEF OpToRel
<1>2. T \subseteq Nat /\ T # {}
  <2>1. PICK d \in S : TRUE
    OBVIOUS
  <2>2. bound - d \in T
    BY <2>1
  <2> QED
    BY <2>2
<1>3. PICK n \in T : \A m \in T : <<m, n>> \notin less
  <2> HIDE DEF less, T
  <2> QED
    BY <1>1, <1>2, WFMin
<1>4. PICK d \in S : n = bound - d
  OBVIOUS
<1>5. ASSUME NEW e \in S PROVE e <= d
  <2>1. bound - e \in T
    OBVIOUS
  <2>2. ~(bound - e < n)
    BY <1>3, <2>1
  <2> QED
    BY <1>4, <2>2
<1> QED
  BY <1>4, <1>5

LEMMA CarriedPeakBounds ==
    ASSUME DailyRiskTypeOK, NEW value \in Pnl
    PROVE  CarriedPeak(value) \in Pnl /\ value <= CarriedPeak(value)
<1>1. CASE Earlier = {}
  BY <1>1, PnlAssumption DEF CarriedPeak
<1>2. CASE Earlier # {}
  <2> DEFINE latest == CHOOSE d \in Earlier : \A e \in Earlier : e <= d
  <2>1. \A d \in Earlier : d \in Nat /\ d < Today /\ days[d].last \in Pnl
    BY DateAssumption DEF Earlier, DailyRiskTypeOK, DayRow, Day
  <2>2. latest \in Earlier
    BY <1>2, <2>1, TodayIsADay, LatestExists
  <2>3. CarriedPeak(value) = Larger(value, days[latest].last)
    BY <1>2 DEF CarriedPeak
  <2> QED
    BY <2>1, <2>2, <2>3, LargerIn
<1> QED
  BY <1>1, <1>2

(* The row written for today extends the one it replaces. *)
LEMMA ObservedRow ==
    ASSUME DailyRiskTypeOK, NEW value \in Pnl, NEW carry \in BOOLEAN
    PROVE  LET row == Observed(value, carry)
           IN /\ row \in DayRow
              /\ value <= row.peak /\ row.limit <= Limit[scope]
              /\ row.peak - value >= row.limit => row.latched
              /\ days[Today] # None =>
                    /\ days[Today].peak <= row.peak
                    /\ row.limit <= days[Today].limit
                    /\ days[Today].latched => row.latched
<1>1. days[Today] # None => days[Today] \in DayRow
  BY TodayIsADay DEF DailyRiskTypeOK
<1>2. /\ Peak(value, carry) \in Pnl /\ value <= Peak(value, carry)
      /\ days[Today] # None => days[Today].peak <= Peak(value, carry)
  <2>1. CASE days[Today] # None
    <3>1. days[Today].peak \in Pnl
      BY <1>1, <2>1 DEF DayRow
    <3> QED
      BY <2>1, <3>1, LargerIn DEF Peak
  <2>2. CASE days[Today] = None
    <3>1. value \in Int /\ value <= value
      BY PnlAssumption
    <3> QED
      BY <2>2, <3>1, CarriedPeakBounds DEF Peak
  <2> QED
    BY <2>1, <2>2
<1>3. /\ StrictestLimit \in Nat \ {0} /\ StrictestLimit <= Limit[scope]
      /\ days[Today] # None => StrictestLimit <= days[Today].limit
  BY <1>1, LimitAssumption DEF StrictestLimit, Smaller, DayRow, DailyRiskTypeOK
<1>4. days[Today] # None => days[Today].latched \in BOOLEAN
  BY <1>1 DEF DayRow
<1> QED
  BY <1>2, <1>3, <1>4 DEF Observed, DayRow

-----------------------------------------------------------------------------
(* Types *)

LEMMA PauseType ==
    ASSUME DailyRiskTypeOK, NEW latched \in BOOLEAN
    PROVE  Paused(latched) \in PauseRow \cup {None}
<1>1. Today \in Day /\ now \in Time /\ scope \in Scope
  BY TodayIsADay DEF DailyRiskTypeOK
<1>2. Until(now, scope) \in Nat \cup {None}
  BY <1>1, UntilAssumption
<1>3. Begun(latched) \in PauseRow \cup {None}
  BY <1>1, <1>2 DEF Begun, PauseRow, DailyRiskTypeOK
<1>4. ASSUME NEW row \in PauseRow PROVE [row EXCEPT !.cleared = TRUE] \in PauseRow
  BY <1>4 DEF PauseRow
<1> QED
  BY <1>3, <1>4 DEF Paused

LEMMA RecordType ==
    ASSUME DailyRiskTypeOK, NEW kind \in {"observe", "buy"}, NEW value \in Pnl, NEW carry \in BOOLEAN,
           Record(kind, value, carry)
    PROVE  /\ days' \in [Day -> DayRow \cup {None}]
           /\ pause' \in PauseRow \cup {None}
           /\ log' \in Seq(Call)
<1>1. Observed(value, carry) \in DayRow
  BY ObservedRow
<1>2. Today \in Day /\ now \in Time /\ scope \in Scope
  BY TodayIsADay DEF DailyRiskTypeOK
<1>3. Event(kind, value) \in Call
  BY <1>2 DEF Event, Call
<1>4. Observed(value, carry).latched \in BOOLEAN
  BY <1>1 DEF DayRow
<1>5. days' \in [Day -> DayRow \cup {None}]
  BY <1>1 DEF Record, DailyRiskTypeOK
<1>6. pause' \in PauseRow \cup {None}
  BY <1>4, PauseType DEF Record
<1>7. log' \in Seq(Call)
  BY <1>3 DEF Record, DailyRiskTypeOK
<1> QED
  BY <1>5, <1>6, <1>7

LEMMA TypeStep == DailyRiskTypeOK /\ [Next]_vars => DailyRiskTypeOK'
<1> SUFFICES ASSUME DailyRiskTypeOK, [Next]_vars PROVE DailyRiskTypeOK'
  OBVIOUS
<1>1. ASSUME NEW s \in Scope, Restart(s) PROVE DailyRiskTypeOK'
  BY <1>1 DEF Restart, DailyRiskTypeOK
<1>2. ASSUME NEW value \in Pnl, Snapshot(value) PROVE DailyRiskTypeOK'
  BY <1>2, RecordType DEF Snapshot, DailyRiskTypeOK
<1>3. ASSUME NEW kind \in {"observe", "buy"}, Ticket(kind) PROVE DailyRiskTypeOK'
  BY <1>3, RecordType DEF Ticket, DailyRiskTypeOK
<1>4. CASE Acknowledge
  <2>1. [pause EXCEPT !.cleared = TRUE] \in PauseRow
    BY <1>4 DEF Acknowledge, DailyRiskTypeOK, PauseRow
  <2>2. [kind |-> "ack", at |-> now, day |-> Today, pnl |-> None, scope |-> None] \in Call
    BY TodayIsADay DEF DailyRiskTypeOK, Call
  <2> QED
    BY <1>4, <2>1, <2>2 DEF Acknowledge, DailyRiskTypeOK
<1>5. CASE Tick
  BY <1>5, HorizonAssumption DEF Tick, DailyRiskTypeOK, Time
<1>6. CASE UNCHANGED vars
  BY <1>6 DEF vars, DailyRiskTypeOK
<1> QED
  BY <1>1, <1>2, <1>3, <1>4, <1>5, <1>6 DEF Next

-----------------------------------------------------------------------------
(* An observation extends the history and today's row together. *)

LEMMA AppendedCall ==
    ASSUME log \in Seq(Call), NEW c \in Call, log' = Append(log, c)
    PROVE  LET n == Len(log) IN
           /\ n \in Nat
           /\ Observations \subseteq 1..n
           /\ \A i \in Observations : log'[i] = log[i]
           /\ log'[n + 1] = c
           /\ c.kind # "ack" => Observations' = Observations \cup {n + 1}
           /\ c.kind = "ack" => Observations' = Observations
<1>1. Len(log) \in Nat /\ Len(log') = Len(log) + 1
  OBVIOUS
<1>2. \A i \in 1..Len(log) : log'[i] = log[i]
  OBVIOUS
<1>3. log'[Len(log) + 1] = c
  OBVIOUS
<1>4. 1..Len(log') = 1..Len(log) \cup {Len(log) + 1}
  BY <1>1
<1>5. Observations' = {i \in 1..Len(log') : log'[i].kind # "ack"}
  BY DEF Observations
<1> QED
  BY <1>1, <1>2, <1>3, <1>4, <1>5 DEF Observations

LEMMA LimitType == \A s \in Scope : Limit[s] \in Int
  BY LimitAssumption

LEMMA RowType == \A row \in DayRow : /\ row.peak \in Int /\ row.limit \in Int
                                     /\ row.latched \in BOOLEAN
<1> SUFFICES ASSUME NEW row \in DayRow
             PROVE  row.peak \in Int /\ row.limit \in Int /\ row.latched \in BOOLEAN
  OBVIOUS
<1>1. row.peak \in Pnl
  BY DEF DayRow
<1>2. row.limit \in Nat /\ row.latched \in BOOLEAN
  BY DEF DayRow
<1>3. row.peak \in Int
  BY <1>1, PnlAssumption
<1>4. row.limit \in Int
  BY <1>2
<1> QED
  BY <1>2, <1>3, <1>4

LEMMA CallsTyped ==
    ASSUME DailyRiskTypeOK, NEW i \in Observations
    PROVE  log[i].day \in Day
<1>1. log \in Seq(Call) /\ i \in 1..Len(log)
  BY DEF DailyRiskTypeOK, Observations
<1>2. log[i] \in Call
  BY <1>1
<1> QED
  BY <1>2 DEF Call

LEMMA RecordStep ==
    ASSUME RiskInv, NEW kind \in {"observe", "buy"}, NEW value \in Pnl, NEW carry \in BOOLEAN,
           Record(kind, value, carry), kind = "buy" => ~Observed(value, carry).latched
    PROVE  RowsDominate' /\ BreachesLatch' /\ NoEntryAfterBreach'
<1> DEFINE n == Len(log)
<1> DEFINE row == Observed(value, carry)
<1>1. /\ row \in DayRow /\ row # None /\ row.latched \in BOOLEAN
      /\ row.peak \in Int /\ row.limit \in Int /\ value \in Int
      /\ value <= row.peak /\ row.limit <= Limit[scope]
      /\ row.peak - value >= row.limit => row.latched
      /\ days[Today] # None =>
            /\ days[Today].peak <= row.peak
            /\ row.limit <= days[Today].limit
            /\ days[Today].latched => row.latched
  <2>1. DailyRiskTypeOK
    BY DEF RiskInv
  <2>2. /\ row \in DayRow
        /\ value <= row.peak /\ row.limit <= Limit[scope]
        /\ row.peak - value >= row.limit => row.latched
        /\ days[Today] # None =>
              /\ days[Today].peak <= row.peak
              /\ row.limit <= days[Today].limit
              /\ days[Today].latched => row.latched
    BY <2>1, ObservedRow
  <2>3. row # None
    BY <2>2, NullAssumption
  <2> QED
    BY <2>2, <2>3, RowType, PnlAssumption
<1>2. /\ Today \in Day /\ scope \in Scope
      /\ days'[Today] = row
      /\ \A d \in Day : d # Today => days'[d] = days[d]
  BY TodayIsADay DEF RiskInv, Record, DailyRiskTypeOK
<1>3. /\ n \in Nat /\ Observations \subseteq 1..n
      /\ Observations' = Observations \cup {n + 1}
      /\ \A i \in Observations : log'[i] = log[i]
      /\ log'[n + 1].kind = kind /\ log'[n + 1].day = Today
      /\ log'[n + 1].pnl = value /\ log'[n + 1].scope = scope
  <2>1. Event(kind, value) \in Call
    BY <1>2 DEF Event, Call, RiskInv, DailyRiskTypeOK
  <2>2. log \in Seq(Call) /\ log' = Append(log, Event(kind, value))
    BY DEF Record, RiskInv, DailyRiskTypeOK
  <2> QED
    BY <2>1, <2>2, AppendedCall DEF Event
<1>4. \A i \in Observations : i <= n /\ log[i].day \in Day
  BY <1>3, CallsTyped DEF RiskInv
<1>5. ASSUME NEW d \in Day, days[d] # None
      PROVE  /\ days[d] \in DayRow /\ days'[d] \in DayRow /\ days'[d] # None
             /\ days[d].peak <= days'[d].peak /\ days'[d].limit <= days[d].limit
             /\ days[d].latched => days'[d].latched
  <2>1. days[d] \in DayRow
    BY <1>5 DEF RiskInv, DailyRiskTypeOK
  <2>2. days[d].peak <= days[d].peak /\ days[d].limit <= days[d].limit
    BY <2>1, PnlAssumption DEF DayRow
  <2> QED
    BY <1>1, <1>2, <1>5, <2>1, <2>2
<1> HIDE DEF row
<1>6. RowsDominate'
  <2> SUFFICES ASSUME NEW i \in Observations'
               PROVE  /\ log'[i].pnl \in Pnl /\ log'[i].scope \in Scope
                      /\ days'[log'[i].day] # None
                      /\ log'[i].pnl <= days'[log'[i].day].peak
                      /\ days'[log'[i].day].limit <= Limit[log'[i].scope]
    BY DEF RowsDominate
  <2>1. CASE i = n + 1
    BY <1>1, <1>2, <1>3, <2>1
  <2>2. CASE i \in Observations
    <3>1. /\ log[i].pnl \in Pnl /\ log[i].scope \in Scope /\ log[i].day \in Day
          /\ days[log[i].day] # None /\ log[i].pnl <= days[log[i].day].peak
          /\ days[log[i].day].limit <= Limit[log[i].scope]
      BY <1>4, <2>2 DEF RiskInv, RowsDominate
    <3>2. /\ log[i].pnl \in Int /\ Limit[log[i].scope] \in Int
          /\ days[log[i].day].peak \in Int /\ days'[log[i].day].peak \in Int
          /\ days[log[i].day].limit \in Int /\ days'[log[i].day].limit \in Int
      BY <1>5, <3>1, PnlAssumption, LimitType, RowType
    <3>3. log'[i] = log[i]
      BY <1>3, <2>2
    <3>4. /\ days'[log[i].day] # None
          /\ days[log[i].day].peak <= days'[log[i].day].peak
          /\ days'[log[i].day].limit <= days[log[i].day].limit
      BY <1>5, <3>1
    <3>5. /\ log[i].pnl <= days'[log[i].day].peak
          /\ days'[log[i].day].limit <= Limit[log[i].scope]
      BY <3>1, <3>2, <3>4
    <3> QED
      BY <3>1, <3>3, <3>4, <3>5
  <2> QED
    BY <1>3, <2>1, <2>2
<1>7. \A i \in Observations' : /\ log'[i].pnl \in Int
                               /\ Limit[log'[i].scope] \in Int
  BY <1>6, PnlAssumption, LimitType DEF RowsDominate
<1>8. BreachesLatch'
  <2> SUFFICES ASSUME NEW best \in Observations', NEW k \in Observations', NEW i \in Observations',
                      log'[best].day = log'[i].day, log'[k].day = log'[i].day,
                      best <= i, k <= i,
                      log'[best].pnl - log'[i].pnl >= Limit[log'[k].scope]
               PROVE  days'[log'[i].day].latched
    BY DEF BreachesLatch
  <2>1. CASE i = n + 1
    <3>1. log'[i].day = Today /\ log'[i].pnl = value
      BY <1>3, <2>1
    <3>2. log'[best].pnl <= row.peak /\ row.limit <= Limit[log'[k].scope]
      BY <1>2, <1>6, <3>1 DEF RowsDominate
    <3>3. row.peak - value >= row.limit
      BY <1>1, <1>7, <3>1, <3>2
    <3> QED
      BY <1>1, <1>2, <3>1, <3>3
  <2>2. CASE i \in Observations
    <3>1. best \in Observations /\ k \in Observations
      BY <1>3, <1>4, <2>2
    <3>2. days[log[i].day].latched
      BY <1>3, <2>2, <3>1 DEF RiskInv, BreachesLatch
    <3>3. days[log[i].day] # None
      BY <2>2 DEF RiskInv, RowsDominate
    <3> QED
      BY <1>3, <1>4, <1>5, <2>2, <3>2, <3>3
  <2> QED
    BY <1>3, <2>1, <2>2
<1>9. NoEntryAfterBreach'
  <2> SUFFICES ASSUME NEW best \in Observations', NEW k \in Observations',
                      NEW i \in Observations', NEW j \in Observations',
                      log'[best].day = log'[i].day, log'[k].day = log'[i].day,
                      log'[i].day = log'[j].day, best <= i, k <= i, i <= j,
                      log'[j].kind = "buy"
               PROVE  log'[best].pnl - log'[i].pnl < Limit[log'[k].scope]
    BY DEF NoEntryAfterBreach
  <2>1. CASE j = n + 1
    <3>1. ~days'[log'[i].day].latched
      BY <1>2, <1>3, <2>1 DEF row
    <3>2. ~(log'[best].pnl - log'[i].pnl >= Limit[log'[k].scope])
      BY <1>8, <3>1 DEF BreachesLatch
    <3> QED
      BY <1>7, <3>2
  <2>2. CASE j \in Observations
    <3>1. i \in Observations /\ best \in Observations /\ k \in Observations
      BY <1>3, <1>4, <2>2
    <3> QED
      BY <1>3, <2>2, <3>1 DEF RiskInv, NoEntryAfterBreach
  <2> QED
    BY <1>3, <2>1, <2>2
<1> QED
  BY <1>6, <1>8, <1>9

-----------------------------------------------------------------------------
(* The invariant *)

LEMMA RiskInit == Init => RiskInv
<1> SUFFICES ASSUME Init PROVE RiskInv
  OBVIOUS
<1>1. 0 \in Time /\ Today \in Day
  BY HorizonAssumption DEF Init, Time, Today, Day
<1>2. DailyRiskTypeOK
  BY <1>1 DEF Init, DailyRiskTypeOK
<1>3. Observations = {}
  BY DEF Init, Observations
<1> QED
  BY <1>2, <1>3 DEF RiskInv, RowsDominate, BreachesLatch, NoEntryAfterBreach

LEMMA UntouchedHistory ==
    ASSUME RiskInv, Observations' = Observations, UNCHANGED days,
           \A i \in Observations : log'[i] = log[i]
    PROVE  RowsDominate' /\ BreachesLatch' /\ NoEntryAfterBreach'
<1>1. RowsDominate'
  BY DEF RiskInv, RowsDominate
<1>2. BreachesLatch'
  BY DEF RiskInv, BreachesLatch
<1>3. NoEntryAfterBreach'
  BY DEF RiskInv, NoEntryAfterBreach
<1> QED
  BY <1>1, <1>2, <1>3

LEMMA RiskStep == RiskInv /\ [Next]_vars => RiskInv'
<1> SUFFICES ASSUME RiskInv, [Next]_vars PROVE RiskInv'
  OBVIOUS
<1>1. DailyRiskTypeOK'
  BY TypeStep DEF RiskInv
<1> DEFINE Rest == RowsDominate' /\ BreachesLatch' /\ NoEntryAfterBreach'
<1>2. ASSUME NEW value \in Pnl, Snapshot(value) PROVE Rest
  BY <1>2, RecordStep DEF Snapshot
<1>3. ASSUME NEW kind \in {"observe", "buy"}, Ticket(kind) PROVE Rest
  <2>1. held \in Pnl
    BY <1>3 DEF Ticket, RiskInv, DailyRiskTypeOK
  <2>2. kind = "buy" => ~Observed(held, FALSE).latched
    BY <1>3 DEF Ticket, Entry
  <2> QED
    BY <1>3, <2>1, <2>2, RecordStep DEF Ticket
<1>4. ASSUME Acknowledge PROVE Rest
  <2> DEFINE ack == [kind |-> "ack", at |-> now, day |-> Today, pnl |-> None, scope |-> None]
  <2>1. ack \in Call
    BY TodayIsADay DEF RiskInv, DailyRiskTypeOK, Call
  <2>2. log \in Seq(Call) /\ log' = Append(log, ack)
    BY <1>4 DEF Acknowledge, RiskInv, DailyRiskTypeOK
  <2>3. Observations' = Observations /\ \A i \in Observations : log'[i] = log[i]
    BY <2>1, <2>2, AppendedCall
  <2>4. days' = days
    BY <1>4 DEF Acknowledge
  <2> QED
    BY <2>3, <2>4, UntouchedHistory
<1>5. ASSUME days' = days, log' = log PROVE Rest
  <2>1. Observations' = Observations /\ \A i \in Observations : log'[i] = log[i]
    BY <1>5 DEF Observations
  <2> QED
    BY <1>5, <2>1, UntouchedHistory
<1>6. Rest
  <2> HIDE DEF Rest
  <2>1. ASSUME NEW s \in Scope, Restart(s) PROVE Rest
    BY <1>5, <2>1 DEF Restart
  <2>2. ASSUME Tick PROVE Rest
    BY <1>5, <2>2 DEF Tick
  <2>3. ASSUME UNCHANGED vars PROVE Rest
    BY <1>5, <2>3 DEF vars
  <2> QED
    BY <1>2, <1>3, <1>4, <2>1, <2>2, <2>3 DEF Next
<1> QED
  BY <1>1, <1>6 DEF RiskInv

THEOREM RiskInvariant == Spec => []RiskInv
  BY RiskInit, RiskStep, PTL DEF Spec

(* The tables of the daily stop keep their types: a peak is an observed P/L,
   a limit is positive, a pause belongs to a scope and a date. *)
THEOREM DailyRiskTypeCorrect == Spec => []DailyRiskTypeOK
<1>1. RiskInv => DailyRiskTypeOK
  BY DEF RiskInv
<1> QED
  BY RiskInvariant, <1>1, PTL

(* No entry on a day after its loss reached the limit of any scope that had
   observed the day, for any number of engines, scopes, restarts and
   acknowledgements and any recovery policy. *)
THEOREM BreachStopsEntries == Spec => []NoEntryAfterBreach
<1>1. RiskInv => NoEntryAfterBreach
  BY DEF RiskInv
<1> QED
  BY RiskInvariant, <1>1, PTL

-----------------------------------------------------------------------------
(* What a day's row says exactly.  That a row dominates the history proves
   that a breach latches it, but not that a latch had a breach.  For that the
   peak and the limit must be attained: the peak by an observation of the
   day or the last one before it, which is the carry of a day's first row.
   The last observation is found through the rows of earlier dates, so the
   calls must be in the order of their dates; and a ticket, which carries
   nothing, gets the same row because it marks what was observed last. *)

(* The calls carry the instants of their commits, in order. *)
CallsInOrder ==
    /\ \A i \in 1..Len(log) :
          log[i].at \in Time /\ log[i].day = Date(log[i].at) /\ log[i].at <= now
    /\ \A i, j \in 1..Len(log) : i <= j => log[i].at <= log[j].at

(* The latest of a set of calls. *)
Latest(S) == IF S = {} THEN {} ELSE {CHOOSE k \in S : \A m \in S : m <= k}

(* The last observation before a date. *)
BeforeDay(d) == Latest({k \in Observations : log[k].day < d})

(* The observations that a day's peak is taken over. *)
Seen(d) == On(d) \cup BeforeDay(d)

(* A row's peak and limit are attained, not only bounds. *)
RowsExact ==
    \A d \in Day : days[d] # None =>
        /\ \E l \in On(d) : (\A k \in On(d) : k <= l) /\ days[d].last = log[l].pnl
        /\ \E b \in Seen(d) : days[d].peak = log[b].pnl
        /\ \A b \in Seen(d) : log[b].pnl <= days[d].peak
        /\ \E k \in On(d) : days[d].limit = Limit[log[k].scope]

(* What a cycle holds is what was observed last. *)
HeldIsLatest ==
    held # None =>
        \E l \in Observations : (\A k \in Observations : k <= l) /\ held = log[l].pnl

ExactInv == RiskInv /\ CallsInOrder /\ RowsExact /\ HeldIsLatest /\ LatchIsDrawdown

LEMMA LatestIn ==
    ASSUME NEW n \in Nat, NEW S, S \subseteq 1..n
    PROVE  /\ Latest(S) \subseteq S
           /\ S # {} => \E l \in S : Latest(S) = {l} /\ \A m \in S : m <= l
<1>1. CASE S = {}
  BY <1>1 DEF Latest
<1>2. CASE S # {}
  <2>1. n + 1 \in Nat /\ \A d \in S : d \in Nat /\ d < n + 1
    OBVIOUS
  <2>2. PICK b \in Nat : b = n + 1
    BY <2>1
  <2>3. \E d \in S : \A e \in S : e <= d
    BY <1>2, <2>1, <2>2, LatestExists
  <2> DEFINE l == CHOOSE k \in S : \A m \in S : m <= k
  <2>4. l \in S /\ \A m \in S : m <= l
    BY <2>3
  <2>5. Latest(S) = {l}
    BY <1>2 DEF Latest
  <2> HIDE DEF l
  <2> QED
    BY <2>4, <2>5
<1> QED
  BY <1>1, <1>2

LEMMA BeforeIs == \A i : Before(i) = BeforeDay(log[i].day)
  BY DEF Before, BeforeDay, Latest

(* The calls of the history, their types and their order. *)
LEMMA HistoryFacts ==
    ASSUME ExactInv
    PROVE  /\ Len(log) \in Nat /\ Today \in Day /\ Today \in Nat
           /\ \A i \in Observations :
                 /\ i \in 1..Len(log) /\ log[i].day \in Day /\ log[i].day \in Nat
                 /\ log[i].day <= Today /\ log[i].pnl \in Int
                 /\ log[i].scope \in Scope /\ Limit[log[i].scope] \in Int
                 /\ days[log[i].day] # None
                 /\ i \in On(log[i].day)
           /\ \A i, j \in Observations : i <= j => log[i].day <= log[j].day
           /\ \A d : On(d) \subseteq Observations /\ BeforeDay(d) \subseteq Observations
<1>1. DailyRiskTypeOK /\ RowsDominate /\ CallsInOrder
  BY DEF ExactInv, RiskInv
<1>2. Len(log) \in Nat /\ Today \in Day /\ Today \in Nat /\ now \in Time
  BY <1>1, TodayIsADay DEF DailyRiskTypeOK
<1>3. ASSUME NEW i \in Observations
      PROVE  /\ i \in 1..Len(log) /\ log[i].day \in Day /\ log[i].day \in Nat
             /\ log[i].day <= Today /\ log[i].pnl \in Int
             /\ log[i].scope \in Scope /\ Limit[log[i].scope] \in Int
             /\ days[log[i].day] # None
             /\ i \in On(log[i].day)
  <2>1. i \in 1..Len(log)
    BY DEF Observations
  <2>2. log[i].pnl \in Pnl /\ log[i].scope \in Scope /\ days[log[i].day] # None
    BY <1>1 DEF RowsDominate
  <2>3. log[i].at \in Time /\ log[i].day = Date(log[i].at) /\ log[i].at <= now
    BY <1>1, <2>1 DEF CallsInOrder
  <2>4. log[i].day \in Nat /\ log[i].day <= Today
    BY <1>2, <2>3, DateAssumption, DateOrderAssumption DEF Today
  <2> QED
    BY <1>1, <2>1, <2>2, <2>4, CallsTyped, LimitType, PnlAssumption DEF On
<1>4. ASSUME NEW i \in Observations, NEW j \in Observations, i <= j
      PROVE  log[i].day <= log[j].day
  <2>1. i \in 1..Len(log) /\ j \in 1..Len(log)
    BY DEF Observations
  <2>2. /\ log[i].at \in Time /\ log[i].day = Date(log[i].at)
        /\ log[j].at \in Time /\ log[j].day = Date(log[j].at)
        /\ log[i].at <= log[j].at
    BY <1>1, <1>4, <2>1 DEF CallsInOrder
  <2> QED
    BY <2>2, DateOrderAssumption
<1>5. ASSUME NEW d
      PROVE  On(d) \subseteq Observations /\ BeforeDay(d) \subseteq Observations
  <2> DEFINE S == {k \in Observations : log[k].day < d}
  <2>1. S \subseteq 1..Len(log)
    BY DEF Observations
  <2>2. BeforeDay(d) = Latest(S)
    BY DEF BeforeDay
  <2>3. S \subseteq Observations
    OBVIOUS
  <2> HIDE DEF S
  <2>4. Latest(S) \subseteq S
    BY <1>2, <2>1, LatestIn
  <2> QED
    BY <2>2, <2>3, <2>4 DEF On
<1> QED
  BY <1>2, <1>3, <1>4, <1>5

(* A call that is appended changes nothing that the history says of an
   observation it already has: it is not of an earlier date. *)
LEMMA OldCalls ==
    ASSUME ExactInv, NEW c \in Call, log' = Append(log, c), c.at = now, c.day = Today,
           NEW i \in Observations
    PROVE  /\ {k \in On(log[i].day) : k <= i}' = {k \in On(log[i].day) : k <= i}
           /\ Bests(i)' = Bests(i) /\ Breach(i)' = Breach(i)
<1> DEFINE n == Len(log)
<1>1. /\ n \in Nat /\ Observations \subseteq 1..n
      /\ \A k \in Observations : log'[k] = log[k]
      /\ log'[n + 1] = c
      /\ Observations' = Observations \cup {n + 1} \/ Observations' = Observations
  <2>1. log \in Seq(Call)
    BY DEF ExactInv, RiskInv, DailyRiskTypeOK
  <2> QED
    BY <2>1, AppendedCall
<1>2. \A k \in Observations : k \in 1..n /\ log[k].day \in Nat /\ log[k].day <= Today
  BY HistoryFacts
<1>3. Today \in Nat
  BY HistoryFacts
<1>4. {k \in On(log[i].day) : k <= i}' = {k \in On(log[i].day) : k <= i}
  BY <1>1, <1>2 DEF On
<1> DEFINE S == {k \in Observations : log[k].day < log[i].day}
<1>5. S' = S
  <2>1. S' = {k \in Observations' : log'[k].day < log'[i].day}
    OBVIOUS
  <2>2. log'[i] = log[i] /\ log[i].day \in Nat /\ log[i].day <= Today
    BY <1>1, <1>2
  <2>3. ~(log'[n + 1].day < log[i].day)
    BY <1>1, <1>3, <2>2
  <2> HIDE DEF n
  <2> QED
    BY <1>1, <2>1, <2>2, <2>3
<1>6. Before(i) = Latest(S) /\ Before(i)' = Latest(S')
  BY DEF Before, Latest
<1> HIDE DEF S
<1>7. Before(i)' = Before(i)
  BY <1>5, <1>6
<1> DEFINE Early == {k \in On(log[i].day) : k <= i}
<1>8. Bests(i) = Early \cup Before(i) /\ Bests(i)' = Early' \cup Before(i)'
  BY DEF Bests
<1>9. Bests(i)' = Bests(i) /\ Bests(i) \subseteq Observations
  <2>1. Before(i) \subseteq Observations
    BY HistoryFacts, BeforeIs
  <2> QED
    BY <1>4, <1>7, <1>8, <2>1 DEF On
<1>10. /\ Breach(i) <=> \E best \in Bests(i) : \E k \in Early :
                          log[best].pnl - log[i].pnl >= Limit[log[k].scope]
       /\ Breach(i)' <=> \E best \in Bests(i)' : \E k \in Early' :
                          log'[best].pnl - log'[i].pnl >= Limit[log'[k].scope]
  BY DEF Breach
<1>11. Breach(i) \in BOOLEAN /\ Breach(i)' \in BOOLEAN
  BY DEF Breach
<1>12. Early \subseteq Observations /\ Early' = Early
  BY <1>4 DEF On
<1> HIDE DEF Early
<1>13. Breach(i)' <=> Breach(i)
  BY <1>1, <1>9, <1>10, <1>12
<1> QED
  BY <1>4, <1>9, <1>11, <1>13

(* The first row of a date takes its peak from the last observation, through
   the row of that observation's date. *)
LEMMA CarriedIs ==
    ASSUME ExactInv, days[Today] = None, NEW value
    PROVE  \/ Observations = {} /\ CarriedPeak(value) = value
           \/ \E l \in Observations :
                 /\ \A k \in Observations : k <= l
                 /\ BeforeDay(Today) = {l}
                 /\ CarriedPeak(value) = Larger(value, log[l].pnl)
<1>1. /\ \A k \in Observations : k \in 1..Len(log) /\ log[k].day \in Nat /\ log[k].day \in Day
                                 /\ log[k].day < Today /\ days[log[k].day] # None
                                 /\ k \in On(log[k].day)
      /\ Today \in Nat /\ Len(log) \in Nat
  BY HistoryFacts
<1>2. \A d \in Day : days[d] # None =>
          \E l \in On(d) : (\A k \in On(d) : k <= l) /\ days[d].last = log[l].pnl
  BY DEF ExactInv, RowsExact
<1>3. CASE Observations = {}
  <2>1. Earlier = {}
    BY <1>2, <1>3 DEF Earlier, On
  <2> QED
    BY <1>3, <2>1 DEF CarriedPeak
<1>4. CASE Observations # {}
  <2>1. {k \in Observations : log[k].day < Today} = Observations
    BY <1>1
  <2>2. BeforeDay(Today) = Latest(Observations)
    BY <2>1 DEF BeforeDay
  <2>3. Observations \subseteq 1..Len(log)
    BY <1>1
  <2>4. PICK l \in Observations : Latest(Observations) = {l} /\ \A m \in Observations : m <= l
    <3>1. PICK n \in Nat : n = Len(log)
      BY <1>1
    <3>2. PICK S : S = Observations
      OBVIOUS
    <3>3. S \subseteq 1..n /\ S # {}
      BY <1>4, <2>3, <3>1, <3>2
    <3>4. \E l \in S : Latest(S) = {l} /\ \A m \in S : m <= l
      BY <3>1, <3>3, LatestIn
    <3> QED
      BY <3>2, <3>4
  <2>5. log[l].day \in Earlier
    BY <1>1, <2>4 DEF Earlier
  <2>6. \A d \in Earlier : d \in Nat /\ d <= log[l].day
    <3> SUFFICES ASSUME NEW d \in Earlier PROVE d \in Nat /\ d <= log[l].day
      OBVIOUS
    <3>1. PICK k \in On(d) : TRUE
      BY <1>2 DEF Earlier
    <3>2. k \in Observations /\ log[k].day = d
      BY <3>1 DEF On
    <3> QED
      BY <1>1, <2>4, <3>2, HistoryFacts
  <2> DEFINE latest == CHOOSE d \in Earlier : \A e \in Earlier : e <= d
  <2>7. latest = log[l].day
    <3>1. latest \in Earlier /\ \A e \in Earlier : e <= latest
      BY <2>5, <2>6
    <3> HIDE DEF latest
    <3> QED
      BY <2>5, <2>6, <3>1
  <2>8. CarriedPeak(value) = Larger(value, days[latest].last)
    BY <2>5 DEF CarriedPeak
  <2> HIDE DEF latest
  <2>9. PICK m \in On(log[l].day) :
            (\A k \in On(log[l].day) : k <= m) /\ days[log[l].day].last = log[m].pnl
    BY <1>1, <1>2, <2>4
  <2>10. m = l
    <3>1. m \in Observations
      BY <2>9 DEF On
    <3>2. m <= l /\ l <= m
      BY <1>1, <2>4, <2>9, <3>1
    <3> QED
      BY <1>1, <2>4, <3>1, <3>2
  <2> QED
    BY <2>2, <2>4, <2>7, <2>8, <2>9, <2>10
<1> QED
  BY <1>3, <1>4

LEMMA LargerIs ==
    ASSUME NEW x \in Int, NEW y \in Int
    PROVE  /\ Larger(x, y) \in Int /\ (Larger(x, y) = x \/ Larger(x, y) = y)
           /\ x <= Larger(x, y) /\ y <= Larger(x, y)
  BY DEF Larger

(* Today's peak is attained by the new observation or by one already seen. *)
LEMMA PeakIs ==
    ASSUME ExactInv, NEW value \in Int
    PROVE  /\ Peak(value, TRUE) \in Int /\ value <= Peak(value, TRUE)
           /\ \/ Peak(value, TRUE) = value
              \/ \E b \in Seen(Today) : Peak(value, TRUE) = log[b].pnl
           /\ \A b \in Seen(Today) : b \in Observations /\ log[b].pnl <= Peak(value, TRUE)
<1>0. PICK P : P = Peak(value, TRUE)
  OBVIOUS
<1>1. Today \in Day /\ \A b \in Seen(Today) : b \in Observations /\ log[b].pnl \in Int
  BY HistoryFacts DEF Seen
<1>2. ASSUME days[Today] # None
      PROVE  /\ P \in Int /\ value <= P
             /\ P = value \/ \E b \in Seen(Today) : P = log[b].pnl
             /\ \A b \in Seen(Today) : b \in Observations /\ log[b].pnl <= P
  <2>1. P = Larger(value, days[Today].peak)
    BY <1>0, <1>2 DEF Peak
  <2>2. /\ \E b \in Seen(Today) : days[Today].peak = log[b].pnl
        /\ \A b \in Seen(Today) : log[b].pnl <= days[Today].peak
    BY <1>1, <1>2 DEF ExactInv, RowsExact
  <2>3. PICK p \in Int : p = days[Today].peak
    BY <1>1, <2>2
  <2>4. /\ P \in Int /\ value <= P
        /\ P = value \/ P = p
        /\ p <= P
    BY <2>1, <2>3, LargerIs
  <2> QED
    BY <1>1, <2>2, <2>3, <2>4
<1>3. ASSUME days[Today] = None
      PROVE  /\ P \in Int /\ value <= P
             /\ P = value \/ \E b \in Seen(Today) : P = log[b].pnl
             /\ \A b \in Seen(Today) : b \in Observations /\ log[b].pnl <= P
  <2>1. P = CarriedPeak(value)
    BY <1>0, <1>3 DEF Peak
  <2>2. On(Today) = {}
    BY <1>3, HistoryFacts DEF On
  <2>3. CASE Observations = {} /\ CarriedPeak(value) = value
    <3>1. Seen(Today) = {}
      BY <1>1, <2>3
    <3> QED
      BY <2>1, <2>3, <3>1
  <2>4. ASSUME NEW l \in Observations, BeforeDay(Today) = {l},
               CarriedPeak(value) = Larger(value, log[l].pnl)
        PROVE  /\ P \in Int /\ value <= P
               /\ \/ P = value
                  \/ \E b \in Seen(Today) : P = log[b].pnl
               /\ \A b \in Seen(Today) : b \in Observations /\ log[b].pnl <= P
    <3>1. Seen(Today) = {l}
      BY <2>2, <2>4 DEF Seen
    <3>2. log[l].pnl \in Int
      BY HistoryFacts
    <3>3. PICK p \in Int : p = log[l].pnl
      BY <3>2
    <3>4. /\ P \in Int /\ value <= P
          /\ P = value \/ P = p
          /\ p <= P
      BY <2>1, <2>4, <3>3, LargerIs
    <3> QED
      BY <3>1, <3>3, <3>4
  <2> QED
    BY <1>3, <2>3, <2>4, CarriedIs
<1> QED
  BY <1>0, <1>2, <1>3

(* Today's limit is that of the engine's scope or of one that observed before. *)
LEMMA LimitIs ==
    ASSUME ExactInv
    PROVE  /\ StrictestLimit \in Int /\ StrictestLimit <= Limit[scope]
           /\ Limit[scope] \in Int
           /\ \/ StrictestLimit = Limit[scope]
              \/ \E k \in On(Today) : StrictestLimit = Limit[log[k].scope]
           /\ \A k \in On(Today) : /\ k \in Observations
                                   /\ StrictestLimit <= Limit[log[k].scope]
<1>1. /\ Today \in Day
      /\ \A k \in On(Today) : /\ k \in Observations /\ log[k].day = Today
                              /\ Limit[log[k].scope] \in Int /\ days[Today] # None
  BY HistoryFacts DEF On
<1>2. Limit[scope] \in Int
  BY LimitType DEF ExactInv, RiskInv, DailyRiskTypeOK
<1>3. CASE days[Today] = None
  <2>1. StrictestLimit = Limit[scope] /\ On(Today) = {}
    BY <1>1, <1>3 DEF StrictestLimit
  <2> QED
    BY <1>2, <2>1
<1>4. CASE days[Today] # None
  <2>1. \A k \in On(Today) : days[Today].limit <= Limit[log[k].scope]
    BY <1>1 DEF ExactInv, RiskInv, RowsDominate
  <2>2. \E k \in On(Today) : days[Today].limit = Limit[log[k].scope]
    BY <1>1, <1>4 DEF ExactInv, RowsExact
  <2>3. PICK m \in Int : m = days[Today].limit
    BY <1>1, <2>2
  <2>4. StrictestLimit = Smaller(Limit[scope], m)
    BY <1>4, <2>3 DEF StrictestLimit
  <2>5. /\ StrictestLimit \in Int /\ StrictestLimit <= Limit[scope] /\ StrictestLimit <= m
        /\ StrictestLimit = Limit[scope] \/ StrictestLimit = m
    BY <1>2, <2>4 DEF Smaller
  <2>6. \A k \in On(Today) : StrictestLimit <= Limit[log[k].scope]
    BY <1>1, <2>1, <2>3, <2>5
  <2> QED
    BY <1>1, <1>2, <2>2, <2>3, <2>5, <2>6
<1> QED
  BY <1>3, <1>4

(* A ticket's row is the one that a carry would give. *)
LEMMA CarryUnneeded ==
    ASSUME ExactInv, held # None
    PROVE  Observed(held, FALSE) = Observed(held, TRUE)
<1>1. PICK l \in Observations : (\A k \in Observations : k <= l) /\ held = log[l].pnl
  BY DEF ExactInv, HeldIsLatest
<1>2. held \in Int
  BY <1>1, HistoryFacts
<1>3. Peak(held, FALSE) = Peak(held, TRUE)
  <2>1. CASE days[Today] # None
    BY <2>1 DEF Peak
  <2>2. CASE days[Today] = None
    <3>1. Peak(held, FALSE) = held /\ Peak(held, TRUE) = CarriedPeak(held)
      BY <2>2 DEF Peak
    <3>2. PICK v : v = held
      OBVIOUS
    <3>3. PICK m \in Observations : /\ \A k \in Observations : k <= m
                                    /\ CarriedPeak(v) = Larger(v, log[m].pnl)
      BY <1>1, <2>2, CarriedIs
    <3>4. m = l
      <4>1. m \in Int /\ l \in Int /\ m <= l /\ l <= m
        BY <1>1, <3>3, HistoryFacts
      <4> QED
        BY <4>1
    <3>5. CarriedPeak(held) = Larger(held, held)
      BY <1>1, <3>2, <3>3, <3>4
    <3> QED
      BY <1>2, <3>1, <3>5, LargerIs
  <2> QED
    BY <2>1, <2>2
<1> QED
  BY <1>3 DEF Observed

(* What an observation appends. *)
LEMMA RecordedCall ==
    ASSUME ExactInv, NEW kind \in {"observe", "buy"}, NEW value \in Pnl,
           Record(kind, value, TRUE)
    PROVE  LET n == Len(log)
               c == Event(kind, value)
           IN /\ c \in Call /\ log' = Append(log, c)
              /\ Len(log') = n + 1
              /\ Observations' = Observations \cup {n + 1} /\ n + 1 \notin Observations
              /\ log'[n + 1] = c
              /\ \A i \in 1..n : log'[i] = log[i]
              /\ \A d : On(d)' = IF d = Today THEN On(d) \cup {n + 1} ELSE On(d)
<1>1. now \in Time /\ scope \in Scope /\ Today \in Day /\ log \in Seq(Call)
  BY TodayIsADay DEF ExactInv, RiskInv, DailyRiskTypeOK
<1>2. PICK c : c = Event(kind, value)
  OBVIOUS
<1>3. c \in Call /\ c.kind # "ack" /\ c.day = Today
  BY <1>1, <1>2 DEF Event, Call
<1>4. log' = Append(log, c)
  BY <1>2 DEF Record
<1>5. /\ Len(log) \in Nat /\ Observations \subseteq 1..Len(log)
      /\ \A i \in Observations : log'[i] = log[i]
      /\ log'[Len(log) + 1] = c
      /\ Observations' = Observations \cup {Len(log) + 1}
  BY <1>1, <1>3, <1>4, AppendedCall
<1>6. Len(log') = Len(log) + 1 /\ \A i \in 1..Len(log) : log'[i] = log[i]
  BY <1>1, <1>3, <1>4
<1>7. \A d : On(d)' = {i \in Observations' : log'[i].day = d}
  BY DEF On
<1>8. \A d : d # Today => On(d)' = On(d)
  BY <1>3, <1>5, <1>7 DEF On
<1>9. \A d : d = Today => On(d)' = On(d) \cup {Len(log) + 1}
  BY <1>3, <1>5, <1>7 DEF On
<1> QED
  <2>1. \A d : On(d)' = IF d = Today THEN On(d) \cup {Len(log) + 1} ELSE On(d)
    BY <1>8, <1>9
  <2> QED
    BY <1>2, <1>3, <1>4, <1>5, <1>6, <2>1

LEMMA RowFields ==
    ASSUME NEW value, NEW carry
    PROVE  LET row == Observed(value, carry)
           IN /\ row.last = value /\ row.peak = Peak(value, carry)
              /\ row.limit = StrictestLimit
              /\ row.latched <=> \/ days[Today] # None /\ days[Today].latched
                                 \/ Peak(value, carry) - value >= StrictestLimit
  BY DEF Observed

(* The new observation is the latest, and the only one that is new. *)
LEMMA RecordedFields ==
    ASSUME ExactInv, NEW kind \in {"observe", "buy"}, NEW value \in Pnl,
           Record(kind, value, TRUE), NEW x, x = Len(log) + 1
    PROVE  /\ log'[x].pnl = value /\ log'[x].scope = scope /\ log'[x].day = Today
           /\ log'[x].kind = kind /\ log'[x].at = now
           /\ Observations' = Observations \cup {x}
           /\ \A i \in 1..Len(log) : log'[i] = log[i]
           /\ \A d : On(d)' = IF d = Today THEN On(d) \cup {x} ELSE On(d)
<1>1. PICK c : c = Event(kind, value)
  OBVIOUS
<1>2. c.pnl = value /\ c.scope = scope /\ c.day = Today /\ c.kind = kind /\ c.at = now
  BY <1>1 DEF Event
<1>3. /\ Observations' = Observations \cup {x}
      /\ log'[x] = c
      /\ \A i \in 1..Len(log) : log'[i] = log[i]
      /\ \A d : On(d)' = IF d = Today THEN On(d) \cup {x} ELSE On(d)
  BY <1>1, RecordedCall
<1> QED
  BY <1>2, <1>3

(* What the new observation is compared with. *)
LEMMA NewBests ==
    ASSUME ExactInv, NEW kind \in {"observe", "buy"}, NEW value \in Pnl,
           Record(kind, value, TRUE), NEW x, x = Len(log) + 1
    PROVE  /\ {k \in On(log[x].day) : k <= x}' = On(Today) \cup {x}
           /\ Before(x)' = BeforeDay(Today)
           /\ Bests(x)' = Seen(Today) \cup {x}
<1>1. /\ Observations' = Observations \cup {x}
      /\ log'[x].day = Today
      /\ \A i \in 1..Len(log) : log'[i] = log[i]
      /\ \A d : On(d)' = IF d = Today THEN On(d) \cup {x} ELSE On(d)
  BY RecordedFields
<1>2. /\ Today \in Nat /\ Len(log) \in Nat
      /\ \A i \in Observations : i \in 1..Len(log) /\ log[i].day \in Nat
      /\ On(Today) \subseteq Observations
  BY HistoryFacts
<1>3. {k \in On(log[x].day) : k <= x}' = On(Today) \cup {x}
  <2>1. PICK T : T = On(log[x].day)'
    OBVIOUS
  <2>2. T = On(Today) \cup {x}
    <3>1. T = {i \in Observations' : log'[i].day = log'[x].day}
      BY <2>1 DEF On
    <3>2. PICK d : d = Today
      OBVIOUS
    <3>3. On(d)' = {i \in Observations' : log'[i].day = d}
      BY DEF On
    <3>4. On(d)' = On(d) \cup {x}
      BY <1>1, <3>2
    <3> QED
      BY <1>1, <3>1, <3>2, <3>3, <3>4
  <2>3. \A k \in T : k <= x
    BY <1>2, <2>2
  <2>4. {k \in On(log[x].day) : k <= x}' = {k \in T : k <= x}
    BY <2>1
  <2> QED
    BY <2>2, <2>3, <2>4
<1>4. Before(x)' = BeforeDay(Today)
  <2> DEFINE S == {k \in Observations : log[k].day < Today}
  <2>1. {k \in Observations' : log'[k].day < log'[x].day} = S
    BY <1>1, <1>2
  <2>2. Before(x)' = Latest({k \in Observations' : log'[k].day < log'[x].day})
    BY DEF Before, Latest
  <2> QED
    BY <2>1, <2>2 DEF BeforeDay
<1>5. Bests(x)' = {k \in On(log[x].day) : k <= x}' \cup Before(x)'
  BY DEF Bests
<1> QED
  BY <1>3, <1>4, <1>5 DEF Seen

(* The new observation is a breach exactly when the new row's loss reaches
   its limit. *)
LEMMA NewBreach ==
    ASSUME ExactInv, NEW kind \in {"observe", "buy"}, NEW value \in Pnl,
           Record(kind, value, TRUE), NEW x, x = Len(log) + 1
    PROVE  Breach(x)' <=> Peak(value, TRUE) - value >= StrictestLimit
<1>0. PICK P : P = Peak(value, TRUE)
  OBVIOUS
<1>1. /\ log'[x].pnl = value /\ log'[x].scope = scope
      /\ \A i \in Observations : log'[i] = log[i]
  BY RecordedFields, HistoryFacts
<1>2. value \in Int
  BY PnlAssumption
<1>3. /\ P \in Int /\ value <= P
      /\ P = value \/ \E b \in Seen(Today) : P = log[b].pnl
      /\ \A b \in Seen(Today) : b \in Observations /\ log[b].pnl <= P
  BY <1>0, <1>2, PeakIs
<1>4. /\ StrictestLimit \in Int /\ StrictestLimit <= Limit[scope] /\ Limit[scope] \in Int
      /\ \/ StrictestLimit = Limit[scope]
         \/ \E k \in On(Today) : StrictestLimit = Limit[log[k].scope]
      /\ \A k \in On(Today) : k \in Observations /\ StrictestLimit <= Limit[log[k].scope]
  BY LimitIs
<1>5. \A i \in Observations : log[i].pnl \in Int /\ Limit[log[i].scope] \in Int
  BY HistoryFacts
<1>6. Breach(x)' <=> \E b \in Seen(Today) \cup {x} : \E k \in On(Today) \cup {x} :
                        log'[b].pnl - log'[x].pnl >= Limit[log'[k].scope]
  <2> DEFINE Early == {k \in On(log[x].day) : k <= x}
  <2>1. Breach(x)' <=> \E best \in Bests(x)' : \E k \in Early' :
                          log'[best].pnl - log'[x].pnl >= Limit[log'[k].scope]
    BY DEF Breach
  <2>2. Bests(x)' = Seen(Today) \cup {x} /\ Early' = On(Today) \cup {x}
    BY NewBests
  <2> HIDE DEF Early
  <2> QED
    BY <2>1, <2>2
<1>7. \A b \in Seen(Today) \cup {x} : log'[b].pnl \in Int /\ log'[b].pnl <= P
  BY <1>1, <1>2, <1>3, <1>5
<1>8. \E b \in Seen(Today) \cup {x} : log'[b].pnl = P
  BY <1>1, <1>3
<1>9. \A k \in On(Today) \cup {x} : /\ Limit[log'[k].scope] \in Int
                                     /\ StrictestLimit <= Limit[log'[k].scope]
  BY <1>1, <1>4, <1>5
<1>10. \E k \in On(Today) \cup {x} : Limit[log'[k].scope] = StrictestLimit
  BY <1>1, <1>4
<1>11. ASSUME Breach(x)' PROVE P - value >= StrictestLimit
  BY <1>1, <1>2, <1>3, <1>4, <1>6, <1>7, <1>9, <1>11
<1>12. ASSUME P - value >= StrictestLimit PROVE Breach(x)'
  BY <1>1, <1>6, <1>8, <1>10, <1>12
<1> QED
  BY <1>0, <1>11, <1>12

LEMMA OrderKept ==
    ASSUME ExactInv, NEW c \in Call, log' = Append(log, c), c.at = now, c.day = Today, now' = now
    PROVE  CallsInOrder'
<1>1. PICK x : x = Len(log) + 1
  OBVIOUS
<1>2. /\ \A i \in 1..Len(log) :
            log[i].at \in Time /\ log[i].day = Date(log[i].at) /\ log[i].at <= now
      /\ \A i, j \in 1..Len(log) : i <= j => log[i].at <= log[j].at
  BY DEF ExactInv, CallsInOrder
<1>3. now \in Time /\ now \in Int /\ now <= now /\ log \in Seq(Call) /\ Len(log) \in Nat
  BY DEF ExactInv, RiskInv, DailyRiskTypeOK, Time
<1>4. /\ \A i \in 1..Len(log') : i \in 1..Len(log) \/ i = x
      /\ \A i \in 1..Len(log) : log'[i] = log[i]
      /\ log'[x] = c
  BY <1>1, <1>3
<1>5. \A i \in 1..Len(log') :
         log'[i].at \in Time /\ log'[i].day = Date(log'[i].at) /\ log'[i].at <= now'
  <2> SUFFICES ASSUME NEW i \in 1..Len(log')
               PROVE  log'[i].at \in Time /\ log'[i].day = Date(log'[i].at) /\ log'[i].at <= now'
    OBVIOUS
  <2>1. CASE i \in 1..Len(log)
    BY <1>2, <1>4, <2>1
  <2>2. CASE i = x
    BY <1>3, <1>4, <2>2 DEF Today
  <2> QED
    BY <1>4, <2>1, <2>2
<1>6. \A i, j \in 1..Len(log') : i <= j => log'[i].at <= log'[j].at
  <2> SUFFICES ASSUME NEW i \in 1..Len(log'), NEW j \in 1..Len(log'), i <= j
               PROVE  log'[i].at <= log'[j].at
    OBVIOUS
  <2>1. CASE j \in 1..Len(log)
    <3>1. i \in 1..Len(log)
      BY <1>1, <1>3, <1>4, <2>1
    <3> QED
      BY <1>2, <1>4, <2>1, <3>1
  <2>2. CASE j = x
    BY <1>4, <1>5, <2>2
  <2> QED
    BY <1>4, <2>1, <2>2
<1> QED
  BY <1>5, <1>6 DEF CallsInOrder

LEMMA RecordExact ==
    ASSUME ExactInv, NEW kind \in {"observe", "buy"}, NEW value \in Pnl,
           Record(kind, value, TRUE), now' = now
    PROVE  /\ CallsInOrder' /\ RowsExact' /\ LatchIsDrawdown'
           /\ \E l \in Observations' :
                 (\A k \in Observations' : k <= l) /\ log'[l].pnl = value
<1> DEFINE c == Event(kind, value)
<1>1. PICK x : x = Len(log) + 1
  OBVIOUS
<1>2. /\ c \in Call /\ log' = Append(log, c)
      /\ Len(log') = x
      /\ Observations' = Observations \cup {x} /\ x \notin Observations
      /\ log'[x] = c
      /\ \A i \in 1..Len(log) : log'[i] = log[i]
      /\ \A d : On(d)' = IF d = Today THEN On(d) \cup {x} ELSE On(d)
  BY <1>1, RecordedCall
<1>3. c.at = now /\ c.day = Today /\ c.pnl = value /\ c.scope = scope
  BY DEF Event
<1>4. /\ Len(log) \in Nat /\ Today \in Day /\ Today \in Nat
      /\ \A i \in Observations :
            i \in 1..Len(log) /\ log[i].day \in Nat /\ log[i].day <= Today /\ log[i].pnl \in Int
      /\ \A d : On(d) \subseteq Observations /\ BeforeDay(d) \subseteq Observations
  BY HistoryFacts
<1>5. now \in Time
  BY DEF ExactInv, RiskInv, DailyRiskTypeOK
<1> HIDE DEF c
<1>6. CallsInOrder'
  BY <1>2, <1>3, OrderKept
<1>7. /\ \A d \in Day : d # Today => days'[d] = days[d]
      /\ days'[Today] = Observed(value, TRUE)
      /\ days'[Today] # None
  <2>1. days \in [Day -> DayRow \cup {None}] /\ DailyRiskTypeOK
    BY DEF ExactInv, RiskInv, DailyRiskTypeOK
  <2>2. Observed(value, TRUE) \in DayRow
    BY <2>1, ObservedRow
  <2> QED
    BY <1>4, <2>1, <2>2, NullAssumption DEF Record
<1>8. PICK row, carry : row = days'[Today] /\ carry = TRUE
  OBVIOUS
<1>9. /\ row.last = value /\ row.peak = Peak(value, carry) /\ row.limit = StrictestLimit
      /\ row.latched <=> \/ days[Today] # None /\ days[Today].latched
                         \/ Peak(value, carry) - value >= StrictestLimit
  <2>1. row = Observed(value, carry)
    BY <1>7, <1>8
  <2> QED
    BY <2>1, RowFields
<1>10. \A d \in Day : BeforeDay(d)' = BeforeDay(d) \/ ~(d <= Today)
  <2> SUFFICES ASSUME NEW d \in Day, d <= Today PROVE BeforeDay(d)' = BeforeDay(d)
    OBVIOUS
  <2> DEFINE S == {k \in Observations : log[k].day < d}
  <2>1. d \in Nat
    BY DateAssumption DEF Day
  <2>2. S' = S
    BY <1>2, <1>3, <1>4, <2>1
  <2>3. BeforeDay(d) = Latest(S) /\ BeforeDay(d)' = Latest(S')
    BY DEF BeforeDay, Latest
  <2> HIDE DEF S
  <2> QED
    BY <2>2, <2>3
<1>11. RowsExact'
  <2> SUFFICES ASSUME NEW d \in Day, days'[d] # None
               PROVE  /\ \E l \in On(d)' : (\A k \in On(d)' : k <= l) /\ days'[d].last = log'[l].pnl
                      /\ \E b \in Seen(d)' : days'[d].peak = log'[b].pnl
                      /\ \A b \in Seen(d)' : log'[b].pnl <= days'[d].peak
                      /\ \E k \in On(d)' : days'[d].limit = Limit[log'[k].scope]
    BY DEF RowsExact
  <2>1. CASE d # Today
    <3>1. On(d)' = On(d) /\ days'[d] = days[d]
      BY <1>2, <1>7, <2>1
    <3>2. /\ \E l \in On(d) : (\A k \in On(d) : k <= l) /\ days[d].last = log[l].pnl
          /\ \E b \in Seen(d) : days[d].peak = log[b].pnl
          /\ \A b \in Seen(d) : log[b].pnl <= days[d].peak
          /\ \E k \in On(d) : days[d].limit = Limit[log[k].scope]
      BY <3>1 DEF ExactInv, RowsExact
    <3>3. BeforeDay(d)' = BeforeDay(d)
      <4>1. PICK k \in On(d) : TRUE
        BY <3>2
      <4>2. k \in Observations /\ log[k].day = d
        BY <4>1 DEF On
      <4> QED
        BY <1>4, <1>10, <4>2
    <3>4. Seen(d)' = Seen(d) /\ Seen(d) \subseteq Observations /\ On(d) \subseteq Observations
      BY <1>4, <3>1, <3>3 DEF Seen
    <3>5. \A i \in Observations : log'[i] = log[i]
      BY <1>2, <1>4
    <3> QED
      BY <3>1, <3>2, <3>4, <3>5
  <2>2. CASE d = Today
    <3>0. PICK P : P = Peak(value, TRUE)
      OBVIOUS
    <3>1. On(d)' = On(d) \cup {x} /\ BeforeDay(d)' = BeforeDay(d)
      BY <1>2, <1>4, <1>10, <2>2
    <3>2. Seen(d)' = Seen(d) \cup {x}
      BY <3>1 DEF Seen
    <3>3. days'[d].last = value /\ days'[d].peak = P /\ days'[d].limit = StrictestLimit
      BY <1>8, <1>9, <2>2, <3>0
    <3>4. value \in Int
      BY PnlAssumption
    <3>5. /\ P \in Int /\ value <= P
          /\ P = value \/ \E b \in Seen(d) : P = log[b].pnl
          /\ \A b \in Seen(d) : b \in Observations /\ log[b].pnl <= P
      BY <2>2, <3>0, <3>4, PeakIs
    <3>6. /\ \/ StrictestLimit = Limit[scope]
             \/ \E k \in On(d) : StrictestLimit = Limit[log[k].scope]
      BY <2>2, LimitIs
    <3>7. \A i \in Observations : log'[i] = log[i] /\ i <= x
      BY <1>1, <1>2, <1>4
    <3>8. log'[x].pnl = value /\ log'[x].scope = scope /\ x <= x /\ On(d) \subseteq Observations
      BY <1>1, <1>2, <1>3, <1>4
    <3> QED
      BY <3>1, <3>2, <3>3, <3>5, <3>6, <3>7, <3>8
  <2> QED
    BY <2>1, <2>2
<1>12. LatchIsDrawdown'
  <2> SUFFICES ASSUME NEW d \in Day, days'[d] # None
               PROVE  days'[d].latched <=> \E i \in On(d)' : Breach(i)'
    BY DEF LatchIsDrawdown
  <2>1. \A i \in Observations : Breach(i)' = Breach(i)
    BY <1>2, <1>3, OldCalls
  <2>2. On(d) \subseteq Observations
    BY <1>4
  <2>3. CASE d # Today
    <3>1. On(d)' = On(d) /\ days'[d] = days[d]
      BY <1>2, <1>7, <2>3
    <3>2. days[d].latched <=> \E i \in On(d) : Breach(i)
      BY <3>1 DEF ExactInv, LatchIsDrawdown
    <3> QED
      BY <2>1, <2>2, <3>1, <3>2
  <2>4. CASE d = Today
    <3>1. On(d)' = On(d) \cup {x}
      BY <1>2, <2>4
    <3>2. Breach(x)' <=> Peak(value, TRUE) - value >= StrictestLimit
      BY <1>1, NewBreach
    <3>3. days'[d].latched <=> \/ days[d] # None /\ days[d].latched
                               \/ Peak(value, TRUE) - value >= StrictestLimit
      BY <1>8, <1>9, <2>4
    <3>4. (days[d] # None /\ days[d].latched) <=> \E i \in On(d) : Breach(i)
      <4>1. CASE days[d] # None
        BY <4>1 DEF ExactInv, LatchIsDrawdown
      <4>2. CASE days[d] = None
        <5>1. On(d) = {}
          BY <4>2, HistoryFacts DEF On
        <5> QED
          BY <4>2, <5>1
      <4> QED
        BY <4>1, <4>2
    <3> QED
      BY <2>1, <2>2, <3>1, <3>2, <3>3, <3>4
  <2> QED
    BY <2>3, <2>4
<1>13. x \in Observations' /\ (\A k \in Observations' : k <= x) /\ log'[x].pnl = value
  BY <1>1, <1>2, <1>3, <1>4
<1> QED
  BY <1>6, <1>11, <1>12, <1>13

-----------------------------------------------------------------------------
(* The steps that observe nothing *)

LEMMA ExactInit == Init => ExactInv
<1> SUFFICES ASSUME Init PROVE ExactInv
  OBVIOUS
<1>1. Observations = {} /\ Len(log) = 0 /\ 1..Len(log) = {}
  BY DEF Init, Observations
<1>2. \A d \in Day : days[d] = None
  BY DEF Init
<1>3. CallsInOrder
  BY <1>1 DEF CallsInOrder
<1>4. RowsExact /\ LatchIsDrawdown
  BY <1>2 DEF RowsExact, LatchIsDrawdown
<1>5. HeldIsLatest
  BY DEF Init, HeldIsLatest
<1> QED
  BY <1>3, <1>4, <1>5, RiskInit DEF ExactInv

LEMMA UnobservedExact ==
    ASSUME ExactInv, Observations' = Observations, days' = days,
           \A i \in Observations : log'[i] = log[i],
           held' = held \/ held' = None
    PROVE  RowsExact' /\ LatchIsDrawdown' /\ HeldIsLatest'
<1>1. \A d : On(d)' = On(d) /\ On(d) \subseteq Observations
  BY DEF On
<1>2. \A d : BeforeDay(d)' = BeforeDay(d)
  <2> SUFFICES ASSUME NEW d PROVE BeforeDay(d)' = BeforeDay(d)
    OBVIOUS
  <2> DEFINE S == {k \in Observations : log[k].day < d}
  <2>1. S' = S
    OBVIOUS
  <2>2. BeforeDay(d) = Latest(S) /\ BeforeDay(d)' = Latest(S')
    BY DEF BeforeDay, Latest
  <2> HIDE DEF S
  <2> QED
    BY <2>1, <2>2
<1>3. \A d : Seen(d)' = Seen(d) /\ Seen(d) \subseteq Observations
  BY <1>1, <1>2, HistoryFacts DEF Seen
<1>4. RowsExact'
  <2> SUFFICES ASSUME NEW d \in Day, days'[d] # None
               PROVE  /\ \E l \in On(d)' : (\A k \in On(d)' : k <= l) /\ days'[d].last = log'[l].pnl
                      /\ \E b \in Seen(d)' : days'[d].peak = log'[b].pnl
                      /\ \A b \in Seen(d)' : log'[b].pnl <= days'[d].peak
                      /\ \E k \in On(d)' : days'[d].limit = Limit[log'[k].scope]
    BY DEF RowsExact
  <2>1. /\ \E l \in On(d) : (\A k \in On(d) : k <= l) /\ days[d].last = log[l].pnl
        /\ \E b \in Seen(d) : days[d].peak = log[b].pnl
        /\ \A b \in Seen(d) : log[b].pnl <= days[d].peak
        /\ \E k \in On(d) : days[d].limit = Limit[log[k].scope]
    BY DEF ExactInv, RowsExact
  <2> QED
    BY <1>1, <1>3, <2>1
<1>5. \A i \in Observations : Breach(i)' <=> Breach(i)
  <2> SUFFICES ASSUME NEW i \in Observations PROVE Breach(i)' <=> Breach(i)
    OBVIOUS
  <2> DEFINE Early == {k \in On(log[i].day) : k <= i}
  <2>1. Early' = Early /\ Early \subseteq Observations
    BY DEF On
  <2>2. Before(i)' = Before(i) /\ Before(i) \subseteq Observations
    <3> DEFINE S == {k \in Observations : log[k].day < log[i].day}
    <3>1. S' = S
      OBVIOUS
    <3>2. Before(i) = Latest(S) /\ Before(i)' = Latest(S')
      BY DEF Before, Latest
    <3> HIDE DEF S
    <3> QED
      BY <3>1, <3>2, BeforeIs, HistoryFacts
  <2>3. Bests(i) = Early \cup Before(i) /\ Bests(i)' = Early' \cup Before(i)'
    BY DEF Bests
  <2>4. /\ Breach(i) <=> \E best \in Bests(i) : \E k \in Early :
                            log[best].pnl - log[i].pnl >= Limit[log[k].scope]
        /\ Breach(i)' <=> \E best \in Bests(i)' : \E k \in Early' :
                            log'[best].pnl - log'[i].pnl >= Limit[log'[k].scope]
    BY DEF Breach
  <2> HIDE DEF Early
  <2> QED
    BY <2>1, <2>2, <2>3, <2>4
<1>6. LatchIsDrawdown'
  <2> SUFFICES ASSUME NEW d \in Day, days'[d] # None
               PROVE  days'[d].latched <=> \E i \in On(d)' : Breach(i)'
    BY DEF LatchIsDrawdown
  <2>1. days[d].latched <=> \E i \in On(d) : Breach(i)
    BY DEF ExactInv, LatchIsDrawdown
  <2> QED
    BY <1>1, <1>5, <2>1
<1>7. HeldIsLatest'
  BY DEF ExactInv, HeldIsLatest
<1> QED
  BY <1>4, <1>6, <1>7

LEMMA ExactStep == ExactInv /\ [Next]_vars => ExactInv'
<1> SUFFICES ASSUME ExactInv, [Next]_vars PROVE ExactInv'
  OBVIOUS
<1> DEFINE Rest == CallsInOrder' /\ RowsExact' /\ LatchIsDrawdown' /\ HeldIsLatest'
<1>1. RiskInv' /\ DailyRiskTypeOK /\ DailyRiskTypeOK'
  BY RiskStep DEF ExactInv, RiskInv
<1>2. ASSUME NEW value \in Pnl, Snapshot(value) PROVE Rest
  <2>1. Record("observe", value, TRUE) /\ now' = now /\ held' = value
    BY <1>2 DEF Snapshot
  <2>2. PICK kind \in {"observe", "buy"} : kind = "observe"
    OBVIOUS
  <2>3. Record(kind, value, TRUE)
    BY <2>1, <2>2
  <2>4. /\ CallsInOrder' /\ RowsExact' /\ LatchIsDrawdown'
        /\ \E l \in Observations' :
              (\A k \in Observations' : k <= l) /\ log'[l].pnl = value
    BY <2>1, <2>3, RecordExact
  <2> QED
    BY <2>1, <2>4 DEF HeldIsLatest
<1>3. ASSUME NEW kind \in {"observe", "buy"}, Ticket(kind) PROVE Rest
  <2>1. PICK value \in Pnl : value = held
    BY <1>1, <1>3 DEF Ticket, DailyRiskTypeOK
  <2>2. Record(kind, held, FALSE) /\ now' = now /\ held' = None /\ held # None
    BY <1>3 DEF Ticket
  <2>3. Record(kind, held, TRUE)
    BY <2>2, CarryUnneeded DEF Record
  <2>4. CallsInOrder' /\ RowsExact' /\ LatchIsDrawdown'
    BY <2>1, <2>2, <2>3, RecordExact
  <2> QED
    BY <2>2, <2>4 DEF HeldIsLatest
<1>4. ASSUME Acknowledge PROVE Rest
  <2>1. PICK ack : ack = [kind |-> "ack", at |-> now, day |-> Today, pnl |-> None, scope |-> None]
    OBVIOUS
  <2>2. ack \in Call /\ ack.at = now /\ ack.day = Today /\ ack.kind = "ack"
    BY <1>1, <2>1, TodayIsADay DEF DailyRiskTypeOK, Call
  <2>3. log \in Seq(Call) /\ log' = Append(log, ack) /\ now' = now /\ days' = days /\ held' = held
    BY <1>1, <1>4, <2>1 DEF Acknowledge, DailyRiskTypeOK
  <2>4. CallsInOrder'
    BY <2>2, <2>3, OrderKept
  <2>5. Observations' = Observations /\ \A i \in Observations : log'[i] = log[i]
    BY <2>2, <2>3, AppendedCall
  <2> QED
    BY <2>3, <2>4, <2>5, UnobservedExact
<1>5. ASSUME log' = log, days' = days, held' = held \/ held' = None, now' = now \/ now' = now + 1
      PROVE  Rest
  <2>1. Observations' = Observations /\ \A i \in Observations : log'[i] = log[i]
    BY <1>5 DEF Observations
  <2>2. now \in Int /\ now' \in Int /\ now <= now'
    BY <1>1, <1>5 DEF DailyRiskTypeOK, Time
  <2>3. CallsInOrder'
    <3>1. \A i \in 1..Len(log) :
              log[i].at \in Time /\ log[i].day = Date(log[i].at) /\ log[i].at <= now
      BY DEF ExactInv, CallsInOrder
    <3>2. \A i \in 1..Len(log) : log[i].at \in Int
      BY <3>1 DEF Time
    <3>3. \A i \in 1..Len(log) : log[i].at <= now'
      BY <2>2, <3>1, <3>2
    <3> QED
      BY <1>5, <3>1, <3>3 DEF ExactInv, CallsInOrder
  <2> QED
    BY <1>5, <2>1, <2>3, UnobservedExact
<1>6. Rest
  <2> HIDE DEF Rest
  <2>1. ASSUME NEW s \in Scope, Restart(s) PROVE Rest
    BY <1>5, <2>1 DEF Restart
  <2>2. ASSUME Tick PROVE Rest
    BY <1>5, <2>2 DEF Tick
  <2>3. ASSUME UNCHANGED vars PROVE Rest
    BY <1>5, <2>3 DEF vars
  <2> QED
    BY <1>2, <1>3, <1>4, <2>1, <2>2, <2>3 DEF Next
<1> QED
  BY <1>1, <1>6 DEF ExactInv

THEOREM ExactInvariant == Spec => []ExactInv
  BY ExactInit, ExactStep, PTL DEF Spec

(* A day is latched exactly when the history shows a drawdown on it that
   reached the limit of a scope that had observed the day, measured from the
   best of the day or the last observation before it: no restart, scope,
   order of calls or second marking of the same quotes latches a day without
   one or loses one. *)
THEOREM LatchIsExact == Spec => []LatchIsDrawdown
<1>1. ExactInv => LatchIsDrawdown
  BY DEF ExactInv
<1> QED
  BY ExactInvariant, <1>1, PTL

-----------------------------------------------------------------------------
(* The recovery pause.  That entries keep out of a pause is a statement on
   the history; a step only reads the row on record.  The invariant ties the
   two: which stop began the row, and what has become of the pause of every
   stop that found none open. *)

(* A stop that found no earlier pause open. *)
Opening(i) == FirstStop(i) /\ \A e \in StopObservations : e < i => Over(e, i)

Deadline(i) == Until(log[i].at, log[i].scope)

(* The pause on record was begun by a stop, and an uncleared one is not over. *)
PauseOrigin ==
    pause # None =>
        \E e \in Observations :
            /\ Stopped(log[e].day, e) /\ pause.day = log[e].day
            /\ pause.eligible = Deadline(e)
            /\ ~pause.cleared => ~Over(e, Len(log) + 1)

(* A stop that opened a pause was acknowledged, is past its deadline, or is
   the pause in force. *)
OpeningsTracked ==
    \A i \in Observations :
        Opening(i) =>
            \/ \E k \in i..Len(log) : log[k].kind = "ack"
            \/ Deadline(i) # None /\ Deadline(i) <= now
            \/ pause # None /\ ~pause.cleared /\ pause.eligible = Deadline(i)

PauseInv == PauseOrigin /\ OpeningsTracked /\ PauseHolds

(* The row after a call, from the row before it. *)
LEMMA BegunIs ==
    ASSUME DailyRiskTypeOK, NEW latched \in BOOLEAN
    PROVE  /\ PauseBegins(latched) => /\ Begun(latched) \in PauseRow
                                      /\ Begun(latched).day = Today
                                      /\ Begun(latched).eligible = Until(now, scope)
                                      /\ ~Begun(latched).cleared
           /\ ~PauseBegins(latched) => Begun(latched) = pause
<1>1. Today \in Day /\ now \in Time /\ scope \in Scope
  BY TodayIsADay DEF DailyRiskTypeOK
<1>2. Until(now, scope) \in Nat \cup {None}
  BY <1>1, UntilAssumption
<1>3. PICK new : new = [scope |-> scope, day |-> Today, eligible |-> Until(now, scope), cleared |-> FALSE]
  OBVIOUS
<1>4. /\ new \in PauseRow /\ new.day = Today /\ new.eligible = Until(now, scope)
      /\ ~new.cleared
  BY <1>1, <1>2, <1>3 DEF PauseRow
<1>5. PauseBegins(latched) => Begun(latched) = new
  BY <1>3 DEF Begun
<1>6. ~PauseBegins(latched) => Begun(latched) = pause
  BY DEF Begun
<1> QED
  BY <1>4, <1>5, <1>6

LEMMA PausedIs ==
    ASSUME DailyRiskTypeOK, NEW latched \in BOOLEAN
    PROVE  LET row == Begun(latched)
           IN /\ row \in PauseRow \cup {None}
              /\ row = None => Paused(latched) = None
              /\ row # None => /\ Paused(latched) # None
                               /\ Paused(latched).day = row.day
                               /\ Paused(latched).eligible = row.eligible
                               /\ Paused(latched).cleared <=> row.cleared \/ Due(row)
<1>1. PICK row : row = Begun(latched)
  OBVIOUS
<1>2. row \in PauseRow \cup {None}
  BY <1>1, BegunIs DEF DailyRiskTypeOK
<1>3. Paused(latched) = IF row # None /\ ~row.cleared /\ Due(row)
                        THEN [row EXCEPT !.cleared = TRUE] ELSE row
  BY <1>1 DEF Paused
<1>4. ASSUME row # None
      PROVE  /\ Paused(latched) # None
             /\ Paused(latched).day = row.day
             /\ Paused(latched).eligible = row.eligible
             /\ Paused(latched).cleared <=> row.cleared \/ Due(row)
  <2>1. row \in PauseRow
    BY <1>2, <1>4
  <2>2. PICK over : over = [row EXCEPT !.cleared = TRUE]
    OBVIOUS
  <2>3. over \in PauseRow /\ over.day = row.day /\ over.eligible = row.eligible /\ over.cleared
    BY <2>1, <2>2 DEF PauseRow
  <2>4. over # None
    BY <2>3, NullAssumption
  <2>5. CASE ~row.cleared /\ Due(row)
    <3>1. Paused(latched) = over
      BY <1>3, <1>4, <2>2, <2>5
    <3> QED
      BY <2>3, <2>4, <2>5, <3>1
  <2>6. CASE ~(~row.cleared /\ Due(row))
    <3>1. Paused(latched) = row
      BY <1>3, <2>6
    <3> QED
      BY <1>4, <2>6, <3>1
  <2> QED
    BY <2>5, <2>6
<1>5. row = None => Paused(latched) = None
  BY <1>3
<1> QED
  BY <1>1, <1>2, <1>4, <1>5

(* A call that is appended changes nothing that the history says of an
   earlier stop and of its pause. *)
LEMMA OldStops ==
    ASSUME ExactInv, NEW c \in Call, log' = Append(log, c), c.at = now, c.day = Today,
           NEW i \in Observations
    PROVE  /\ log'[i] = log[i]
           /\ Stopped(log[i].day, i)' <=> Stopped(log[i].day, i)
           /\ FirstStop(i)' <=> FirstStop(i)
           /\ \A j \in 1..(Len(log) + 1) : Over(i, j)' <=> Over(i, j)
<1>1. /\ log \in Seq(Call) /\ Len(log) \in Nat
      /\ \A k \in 1..Len(log) : log'[k] = log[k]
  BY DEF ExactInv, RiskInv, DailyRiskTypeOK
<1>2. \A k \in Observations : log'[k] = log[k] /\ k \in 1..Len(log)
  BY <1>1 DEF Observations
<1>3. Observations \subseteq Observations'
  <2>1. \/ Observations' = Observations \cup {Len(log) + 1}
        \/ Observations' = Observations
    BY <1>1, AppendedCall
  <2> QED
    BY <2>1
<1>4. \A k \in Observations : Breach(k)' = Breach(k)
  BY OldCalls
<1> DEFINE Early == {k \in On(log[i].day) : k <= i}
<1>5. Early' = Early /\ Early \subseteq Observations
  <2>1. Early' = Early
    BY OldCalls
  <2> QED
    BY <2>1 DEF On
<1>6. Stopped(log[i].day, i)' <=> Stopped(log[i].day, i)
  <2>1. /\ Stopped(log[i].day, i) <=> \E k \in Early : Breach(k)
        /\ Stopped(log[i].day, i)' <=> \E k \in Early' : Breach(k)'
    BY DEF Stopped
  <2> HIDE DEF Early
  <2> QED
    BY <1>4, <1>5, <2>1
<1>7. FirstStop(i)' <=> FirstStop(i)
  <2>1. /\ FirstStop(i) <=> Breach(i) /\ \A k \in Early : k < i => ~Breach(k)
        /\ FirstStop(i)' <=> Breach(i)' /\ \A k \in Early' : k < i => ~Breach(k)'
    <3>1. \A k \in Nat : k < i => k <= i
      BY <1>2
    <3>2. On(log[i].day) \subseteq Nat
      BY <1>2 DEF On
    <3>3. On(log[i].day)' \subseteq Nat
      <4>1. Observations' \subseteq Nat
        BY DEF Observations
      <4> QED
        BY <4>1 DEF On
    <3> QED
      BY <1>3, <3>1, <3>2, <3>3 DEF FirstStop
  <2> HIDE DEF Early
  <2> QED
    BY <1>4, <1>5, <2>1
<1>8. \A j \in 1..(Len(log) + 1) : Over(i, j)' <=> Over(i, j)
  <2> SUFFICES ASSUME NEW j \in 1..(Len(log) + 1) PROVE Over(i, j)' <=> Over(i, j)
    OBVIOUS
  <2>1. \A k \in (i + 1)..(j - 1) : log'[k] = log[k]
    BY <1>1, <1>2
  <2>2. log'[i] = log[i]
    BY <1>2
  <2> QED
    BY <2>1, <2>2 DEF Over
<1> QED
  BY <1>2, <1>6, <1>7, <1>8

LEMMA OldOpenings ==
    ASSUME ExactInv, NEW c \in Call, log' = Append(log, c), c.at = now, c.day = Today,
           NEW i \in Observations
    PROVE  Opening(i)' <=> Opening(i)
<1>1. /\ log \in Seq(Call) /\ Len(log) \in Nat
      /\ Observations \subseteq 1..Len(log)
      /\ \/ Observations' = Observations \cup {Len(log) + 1}
         \/ Observations' = Observations
  <2>1. log \in Seq(Call)
    BY DEF ExactInv, RiskInv, DailyRiskTypeOK
  <2> QED
    BY <2>1, AppendedCall
<1>2. \A e \in Observations : e \in StopObservations <=> Stopped(log[e].day, e)
  BY DEF StopObservations
<1>3. \A e \in Observations' : e \in StopObservations' <=> Stopped(log[e].day, e)'
  BY DEF StopObservations
<1>4. /\ \A e \in Observations : Stopped(log[e].day, e)' <=> Stopped(log[e].day, e)
      /\ FirstStop(i)' <=> FirstStop(i)
  BY OldStops
<1>5. \A e \in Observations : Over(e, i)' <=> Over(e, i)
  <2>1. i \in 1..(Len(log) + 1)
    BY <1>1
  <2> QED
    BY <2>1, OldStops
<1>6. StopObservations \subseteq Observations /\ StopObservations' \subseteq Observations'
  BY DEF StopObservations
<1>7. \A e : e < i /\ e \in Observations' => e \in Observations
  BY <1>1
<1>8. \A e : e < i => (e \in StopObservations' <=> e \in StopObservations)
  BY <1>1, <1>2, <1>3, <1>4, <1>6, <1>7
<1>9. Opening(i)' <=> FirstStop(i)' /\ \A e \in StopObservations' : e < i => Over(e, i)'
  BY DEF Opening
<1> QED
  BY <1>4, <1>5, <1>6, <1>8, <1>9 DEF Opening

LEMMA RecordPause ==
    ASSUME ExactInv, PauseInv, NEW kind \in {"observe", "buy"}, NEW value \in Pnl,
           Record(kind, value, TRUE), now' = now,
           NEW latched \in BOOLEAN, latched = Observed(value, TRUE).latched,
           kind = "buy" => ~latched /\ ~RecoveryBlocked(latched)
    PROVE  PauseInv'
<1>1. PICK x : x = Len(log) + 1
  OBVIOUS
<1>2. PICK c : c = Event(kind, value)
  OBVIOUS
<1>3. c \in Call /\ log' = Append(log, c) /\ c.at = now /\ c.day = Today /\ Len(log') = x
  <2>1. c.at = now /\ c.day = Today
    BY <1>2 DEF Event
  <2> QED
    BY <1>1, <1>2, <2>1, RecordedCall
<1>4. /\ log'[x].pnl = value /\ log'[x].scope = scope /\ log'[x].day = Today
      /\ log'[x].kind = kind /\ log'[x].at = now
      /\ Observations' = Observations \cup {x}
      /\ \A i \in 1..Len(log) : log'[i] = log[i]
      /\ \A d : On(d)' = IF d = Today THEN On(d) \cup {x} ELSE On(d)
  BY <1>1, RecordedFields
<1>5. /\ Len(log) \in Nat /\ Today \in Day
      /\ \A i \in Observations : i \in 1..Len(log) /\ i < x /\ i <= x
      /\ x \in Nat
  BY <1>1, HistoryFacts
<1>6. DailyRiskTypeOK /\ now \in Nat /\ now <= now /\ scope \in Scope
  BY DEF ExactInv, RiskInv, DailyRiskTypeOK, Time
<1>7. /\ \A i \in Observations :
            /\ log'[i] = log[i]
            /\ Stopped(log[i].day, i)' <=> Stopped(log[i].day, i)
            /\ FirstStop(i)' <=> FirstStop(i)
            /\ \A j \in 1..x : Over(i, j)' <=> Over(i, j)
      /\ \A i \in Observations : Opening(i)' <=> Opening(i)
  BY <1>1, <1>3, OldStops, OldOpenings
<1>8. latched <=> \E k \in On(Today) \cup {x} : Breach(k)'
  <2>1. days'[Today] = Observed(value, TRUE) /\ days'[Today] # None
    <3>1. days \in [Day -> DayRow \cup {None}]
      BY <1>6 DEF DailyRiskTypeOK
    <3>2. Observed(value, TRUE) \in DayRow
      BY <1>6, ObservedRow
    <3> QED
      BY <1>5, <3>1, <3>2, NullAssumption DEF Record
  <2>2. LatchIsDrawdown'
    BY RecordExact
  <2>3. PICK d \in Day : d = Today
    BY <1>5
  <2>4. days'[d].latched <=> \E k \in On(d)' : Breach(k)'
    BY <2>1, <2>2, <2>3 DEF LatchIsDrawdown
  <2>5. On(d)' = On(Today) \cup {x}
    BY <1>4, <2>3
  <2> QED
    BY <2>1, <2>3, <2>4, <2>5
<1>9. /\ Stopped(log[x].day, x)' <=> latched
      /\ FirstStop(x)' => Breach(x)' /\ \A k \in On(Today) : ~Breach(k)'
  <2> DEFINE Early == {k \in On(log[x].day) : k <= x}
  <2>1. Early' = On(Today) \cup {x}
    BY <1>1, NewBests
  <2>2. Stopped(log[x].day, x)' <=> \E k \in Early' : Breach(k)'
    BY DEF Stopped
  <2>3. FirstStop(x)' => Breach(x)' /\ \A k \in Early' : k < x => ~Breach(k)'
    BY DEF FirstStop
  <2>4. \A k \in On(Today) : k < x
    BY <1>5 DEF On
  <2> HIDE DEF Early
  <2> QED
    BY <1>8, <2>1, <2>2, <2>3, <2>4
<1>10. PICK row : row = Begun(latched)
  OBVIOUS
<1>11. /\ PauseBegins(latched) => /\ row # None /\ row.day = Today
                                  /\ row.eligible = Until(now, scope) /\ ~row.cleared
       /\ ~PauseBegins(latched) => row = pause
  BY <1>6, <1>10, BegunIs, NullAssumption
<1>12. /\ row = None => pause' = None
       /\ row # None => /\ pause' # None /\ pause'.day = row.day
                        /\ pause'.eligible = row.eligible
                        /\ pause'.cleared <=> row.cleared \/ Due(row)
  <2>1. pause' = Paused(latched)
    BY DEF Record
  <2> QED
    BY <1>6, <1>10, <2>1, PausedIs
<1>13. Deadline(x)' = Until(now, scope) /\ \A i \in Observations : Deadline(i)' = Deadline(i)
  BY <1>4, <1>7 DEF Deadline
<1>14. PauseOrigin /\ OpeningsTracked /\ PauseHolds
  BY DEF PauseInv
<1>15. PauseOrigin'
  <2>1. \A e : Over(e, Len(log) + 1)' <=>
            \E k \in (e + 1)..x : \/ log'[k].kind = "ack"
                                  \/ Deadline(e)' # None /\ Deadline(e)' <= log'[k].at
    <3>1. (Len(log') + 1) - 1 = x
      BY <1>3, <1>5
    <3> QED
      BY <3>1 DEF Over, Deadline
  <2>2. ASSUME PauseBegins(latched), pause' # None
        PROVE  \E e \in Observations' :
                  /\ Stopped(log[e].day, e)' /\ pause'.day = log'[e].day
                  /\ pause'.eligible = Deadline(e)'
                  /\ ~pause'.cleared => ~Over(e, Len(log) + 1)'
    <3>1. latched
      BY <2>2 DEF PauseBegins
    <3>2. Stopped(log[x].day, x)' /\ pause'.day = log'[x].day /\ pause'.eligible = Deadline(x)'
      BY <1>4, <1>9, <1>11, <1>12, <1>13, <2>2, <3>1
    <3>3. ~Over(x, Len(log) + 1)'
      <4>1. (x + 1)..x = {}
        BY <1>5
      <4> QED
        BY <2>1, <4>1
    <3> QED
      BY <1>4, <3>2, <3>3
  <2>3. ASSUME ~PauseBegins(latched), pause' # None
        PROVE  \E e \in Observations' :
                  /\ Stopped(log[e].day, e)' /\ pause'.day = log'[e].day
                  /\ pause'.eligible = Deadline(e)'
                  /\ ~pause'.cleared => ~Over(e, Len(log) + 1)'
    <3>1. row = pause /\ pause # None
      BY <1>11, <1>12, <2>3
    <3>2. PICK e \in Observations :
            /\ Stopped(log[e].day, e) /\ pause.day = log[e].day
            /\ pause.eligible = Deadline(e)
            /\ ~pause.cleared => ~Over(e, Len(log) + 1)
      BY <1>14, <3>1 DEF PauseOrigin
    <3>3. /\ Stopped(log[e].day, e)' /\ pause'.day = log'[e].day
          /\ pause'.eligible = Deadline(e)'
      BY <1>7, <1>12, <1>13, <3>1, <3>2
    <3>4. ASSUME ~pause'.cleared PROVE ~Over(e, Len(log) + 1)'
      <4>1. ~pause.cleared /\ ~Due(pause)
        BY <1>12, <3>1, <3>4
      <4>2. ~Over(e, x)
        BY <1>1, <3>2, <4>1
      <4>3. ~Over(e, x)'
        BY <1>5, <1>7, <4>2
      <4>4. Over(e, x)' <=>
              \E k \in (e + 1)..(x - 1) : \/ log'[k].kind = "ack"
                                          \/ Deadline(e)' # None /\ Deadline(e)' <= log'[k].at
        BY DEF Over, Deadline
      <4>5. \A k \in (e + 1)..x : k \in (e + 1)..(x - 1) \/ k = x
        BY <1>5
      <4>6. log'[x].kind # "ack"
        BY <1>4
      <4>7. ~(Deadline(e)' # None /\ Deadline(e)' <= log'[x].at)
        BY <1>4, <1>13, <3>2, <4>1 DEF Due
      <4> QED
        BY <2>1, <4>3, <4>4, <4>5, <4>6, <4>7
    <3> QED
      BY <1>4, <3>3, <3>4
  <2> QED
    BY <2>2, <2>3 DEF PauseOrigin
<1>16. OpeningsTracked'
  <2> SUFFICES ASSUME NEW i \in Observations', Opening(i)'
               PROVE  \/ \E k \in i..Len(log') : log'[k].kind = "ack"
                      \/ Deadline(i)' # None /\ Deadline(i)' <= now'
                      \/ pause' # None /\ ~pause'.cleared /\ pause'.eligible = Deadline(i)'
    BY DEF OpeningsTracked
  <2>1. CASE i \in Observations
    <3>1. Opening(i) /\ Deadline(i)' = Deadline(i)
      BY <1>7, <1>13, <2>1
    <3>2. CASE \E k \in i..Len(log) : log[k].kind = "ack"
      <4>1. PICK k \in i..Len(log) : log[k].kind = "ack"
        BY <3>2
      <4>2. k \in 1..Len(log) /\ k \in i..Len(log')
        BY <1>1, <1>3, <1>5, <2>1
      <4> QED
        BY <1>4, <4>1, <4>2
    <3>3. CASE Deadline(i) # None /\ Deadline(i) <= now
      BY <3>1, <3>3
    <3>4. CASE pause # None /\ ~pause.cleared /\ pause.eligible = Deadline(i)
      <4>1. ~PauseBegins(latched)
        BY <3>4 DEF PauseBegins
      <4>2. row = pause
        BY <1>11, <4>1
      <4> QED
        BY <1>12, <3>1, <3>4, <4>2 DEF Due
    <3> QED
      BY <1>14, <2>1, <3>1, <3>2, <3>3, <3>4 DEF OpeningsTracked
  <2>2. CASE i = x
    <3>1. Breach(x)' /\ \A k \in On(Today) : ~Breach(k)'
      BY <1>9, <2>2 DEF Opening
    <3>2. latched
      BY <1>8, <3>1
    <3>3. ASSUME pause # None PROVE pause.cleared /\ pause.day # Today
      <4>1. PICK e \in Observations :
              /\ Stopped(log[e].day, e) /\ pause.day = log[e].day
              /\ ~pause.cleared => ~Over(e, Len(log) + 1)
        BY <1>14, <3>3 DEF PauseOrigin
      <4>2. e \in StopObservations'
        BY <1>4, <1>7, <4>1 DEF StopObservations
      <4>3. Over(e, x)'
        BY <1>5, <2>2, <4>2 DEF Opening
      <4>4. Over(e, x)
        BY <1>5, <1>7, <4>3
      <4>5. ASSUME pause.day = Today PROVE FALSE
        <5>1. PICK k \in On(Today) : Breach(k)
          BY <4>1, <4>5 DEF Stopped
        <5>2. Breach(k)' = Breach(k)
          <6>1. k \in Observations
            BY DEF On
          <6> QED
            BY <1>3, <6>1, OldCalls
        <5> QED
          BY <3>1, <5>1, <5>2
      <4> QED
        BY <1>1, <4>1, <4>4, <4>5
    <3>4. PauseBegins(latched)
      BY <3>2, <3>3 DEF PauseBegins
    <3>5. /\ pause' # None /\ pause'.eligible = Deadline(x)'
          /\ pause'.cleared <=> Due(row)
          /\ row.eligible = Deadline(x)'
      BY <1>11, <1>12, <1>13, <3>4
    <3> QED
      BY <2>2, <3>5 DEF Due
  <2> QED
    BY <1>4, <2>1, <2>2
<1>17. PauseHolds'
  <2> SUFFICES ASSUME NEW i \in Observations', NEW j \in Observations',
                      Opening(i)', log'[j].kind = "buy", i < j
               PROVE  \/ \E k \in i..j : log'[k].kind = "ack"
                      \/ Deadline(i)' # None /\ Deadline(i)' <= log'[j].at
    BY DEF PauseHolds, Opening, Deadline
  <2>1. i \in Observations
    BY <1>4, <1>5
  <2>2. Opening(i) /\ Deadline(i)' = Deadline(i)
    BY <1>7, <1>13, <2>1
  <2>3. CASE j \in Observations
    <3>1. \/ \E k \in i..j : log[k].kind = "ack"
          \/ Deadline(i) # None /\ Deadline(i) <= log[j].at
      BY <1>7, <1>14, <2>1, <2>2, <2>3 DEF PauseHolds, Opening, Deadline
    <3>2. \A k \in i..j : log'[k] = log[k]
      BY <1>4, <1>5, <2>1, <2>3
    <3>3. log'[j] = log[j]
      BY <1>7, <2>3
    <3> QED
      BY <2>2, <3>1, <3>2, <3>3
  <2>4. CASE j = x
    <3>1. ~latched /\ ~RecoveryBlocked(latched)
      BY <1>4, <2>4
    <3>2. row = pause /\ (pause # None /\ ~pause.cleared => Due(pause))
      <4>1. ~PauseBegins(latched)
        BY <3>1 DEF PauseBegins
      <4>2. row = pause
        BY <1>11, <4>1
      <4>3. ~(row # None /\ ~row.cleared /\ ~Due(row))
        BY <1>10, <3>1 DEF RecoveryBlocked
      <4> QED
        BY <4>2, <4>3
    <3>3. CASE \E k \in i..Len(log) : log[k].kind = "ack"
      <4>1. PICK k \in i..Len(log) : log[k].kind = "ack"
        BY <3>3
      <4>2. k \in 1..Len(log) /\ k \in i..j
        BY <1>1, <1>5, <2>1, <2>4
      <4> QED
        BY <1>4, <4>1, <4>2
    <3>4. CASE Deadline(i) # None /\ Deadline(i) <= now
      BY <1>4, <2>2, <2>4, <3>4
    <3>5. CASE pause # None /\ ~pause.cleared /\ pause.eligible = Deadline(i)
      BY <1>4, <2>2, <2>4, <3>2, <3>5 DEF Due
    <3> QED
      BY <1>14, <2>1, <2>2, <3>3, <3>4, <3>5 DEF OpeningsTracked
  <2> QED
    BY <1>4, <2>3, <2>4
<1> QED
  BY <1>15, <1>16, <1>17 DEF PauseInv

LEMMA PauseInit == Init => PauseInv
<1> SUFFICES ASSUME Init PROVE PauseInv
  OBVIOUS
<1>1. Observations = {} /\ pause = None
  BY DEF Init, Observations
<1> QED
  BY <1>1 DEF PauseInv, PauseOrigin, OpeningsTracked, PauseHolds

(* An acknowledgement clears the row and stands in the history. *)
LEMMA AcknowledgePause ==
    ASSUME ExactInv, PauseInv, Acknowledge
    PROVE  PauseInv'
<1>1. PICK x : x = Len(log) + 1
  OBVIOUS
<1>2. PICK ack : ack = [kind |-> "ack", at |-> now, day |-> Today, pnl |-> None, scope |-> None]
  OBVIOUS
<1>3. DailyRiskTypeOK
  BY DEF ExactInv, RiskInv
<1>4. ack \in Call /\ ack.at = now /\ ack.day = Today /\ ack.kind = "ack"
  BY <1>2, <1>3, TodayIsADay DEF DailyRiskTypeOK, Call
<1>5. log \in Seq(Call) /\ log' = Append(log, ack) /\ now' = now
  BY <1>2, <1>3 DEF Acknowledge, DailyRiskTypeOK
<1>6. /\ Observations' = Observations /\ log'[x] = ack /\ Len(log') = x /\ x \in Nat
      /\ \A i \in Observations : i \in 1..Len(log) /\ i <= x
      /\ Len(log) \in Nat
  BY <1>1, <1>4, <1>5, AppendedCall
<1>7. \A i \in 1..Len(log) : log'[i] = log[i]
  BY <1>4, <1>5
<1>8. \A i \in Observations :
         /\ log'[i] = log[i] /\ Deadline(i)' = Deadline(i)
         /\ Stopped(log[i].day, i)' <=> Stopped(log[i].day, i)
         /\ Opening(i)' <=> Opening(i)
  BY <1>4, <1>5, OldStops, OldOpenings DEF Deadline
<1>9. /\ pause # None /\ pause'.cleared
      /\ pause'.day = pause.day /\ pause'.eligible = pause.eligible
  BY <1>3 DEF Acknowledge, DailyRiskTypeOK, PauseRow
<1>10. PauseOrigin'
  <2>1. PICK e \in Observations :
          /\ Stopped(log[e].day, e) /\ pause.day = log[e].day
          /\ pause.eligible = Deadline(e)
    BY <1>9 DEF PauseInv, PauseOrigin
  <2>2. /\ Stopped(log[e].day, e)' /\ pause'.day = log'[e].day
        /\ pause'.eligible = Deadline(e)'
    BY <1>8, <1>9, <2>1
  <2> QED
    BY <1>6, <1>9, <2>2 DEF PauseOrigin
<1>11. OpeningsTracked'
  <2>1. \A i \in Observations' : x \in i..Len(log') /\ log'[x].kind = "ack"
    BY <1>4, <1>6
  <2> QED
    BY <2>1 DEF OpeningsTracked
<1>12. PauseHolds'
  <2> SUFFICES ASSUME NEW i \in Observations', NEW j \in Observations',
                      Opening(i)', log'[j].kind = "buy", i < j
               PROVE  \/ \E k \in i..j : log'[k].kind = "ack"
                      \/ Deadline(i)' # None /\ Deadline(i)' <= log'[j].at
    BY DEF PauseHolds, Opening, Deadline
  <2>1. /\ i \in Observations /\ j \in Observations /\ log[j].kind = "buy"
        /\ Opening(i) /\ Deadline(i)' = Deadline(i) /\ log'[j] = log[j]
    BY <1>6, <1>8
  <2>2. \/ \E k \in i..j : log[k].kind = "ack"
        \/ Deadline(i) # None /\ Deadline(i) <= log[j].at
    BY <2>1 DEF PauseInv, PauseHolds, Opening, Deadline
  <2>3. \A k \in i..j : log'[k] = log[k]
    BY <1>6, <1>7, <2>1
  <2> QED
    BY <2>1, <2>2, <2>3
<1> QED
  BY <1>10, <1>11, <1>12 DEF PauseInv

(* Nothing but a call or an acknowledgement changes what is open: time only
   passes deadlines. *)
LEMMA UntouchedPause ==
    ASSUME ExactInv, PauseInv, log' = log, pause' = pause, now' = now \/ now' = now + 1
    PROVE  PauseInv'
<1>1. \A i \in Observations : Deadline(i) # None /\ Deadline(i) <= now => Deadline(i) <= now'
  <2> SUFFICES ASSUME NEW i \in Observations, Deadline(i) # None, Deadline(i) <= now
               PROVE  Deadline(i) <= now'
    OBVIOUS
  <2>1. i \in 1..Len(log) /\ log[i].scope \in Scope
    BY HistoryFacts
  <2>2. log[i].at \in Time
    BY <2>1 DEF ExactInv, CallsInOrder
  <2>3. Deadline(i) \in Nat
    BY <2>1, <2>2, UntilAssumption DEF Deadline
  <2>4. now \in Nat
    BY DEF ExactInv, RiskInv, DailyRiskTypeOK, Time
  <2> QED
    BY <2>3, <2>4
<1>2. Observations' = Observations /\ StopObservations' = StopObservations
  BY DEF Observations, StopObservations, Stopped, Breach, Bests, Before, On
<1>3. \A i : /\ Opening(i)' <=> Opening(i)
             /\ Deadline(i)' = Deadline(i)
             /\ Stopped(log[i].day, i)' <=> Stopped(log[i].day, i)
  BY DEF Opening, Deadline, FirstStop, StopObservations, Over, Stopped, Breach, Bests,
         Before, On, Observations
<1>4. PauseOrigin'
  <2>1. \A e : Over(e, Len(log) + 1)' <=> Over(e, Len(log) + 1)
    BY DEF Over
  <2> QED
    BY <1>2, <1>3, <2>1 DEF PauseInv, PauseOrigin
<1>5. OpeningsTracked'
  BY <1>1, <1>2, <1>3 DEF PauseInv, OpeningsTracked
<1>6. PauseHolds'
  <2>1. \A i, j \in Observations :
           Opening(i) /\ log[j].kind = "buy" /\ i < j
           => \/ \E k \in i..j : log[k].kind = "ack"
              \/ Deadline(i) # None /\ Deadline(i) <= log[j].at
    BY DEF PauseInv, PauseHolds, Opening, Deadline
  <2>2. \A i, j \in Observations' :
           Opening(i)' /\ log'[j].kind = "buy" /\ i < j
           => \/ \E k \in i..j : log'[k].kind = "ack"
              \/ Deadline(i)' # None /\ Deadline(i)' <= log'[j].at
    BY <1>2, <1>3, <2>1
  <2> QED
    BY <2>2 DEF PauseHolds, Opening, Deadline
<1> QED
  BY <1>4, <1>5, <1>6 DEF PauseInv

LEMMA PauseStep == ExactInv /\ PauseInv /\ [Next]_vars => PauseInv'
<1> SUFFICES ASSUME ExactInv, PauseInv, [Next]_vars PROVE PauseInv'
  OBVIOUS
<1>1. DailyRiskTypeOK
  BY DEF ExactInv, RiskInv
<1>2. \A v \in Pnl : Observed(v, TRUE).latched \in BOOLEAN
  BY <1>1, ObservedRow, RowType
<1>3. ASSUME NEW value \in Pnl, Snapshot(value) PROVE PauseInv'
  <2>1. PICK kind \in {"observe", "buy"} : kind = "observe"
    OBVIOUS
  <2>2. PICK latched \in BOOLEAN : latched = Observed(value, TRUE).latched
    BY <1>2
  <2>3. Record(kind, value, TRUE) /\ now' = now
    BY <1>3, <2>1 DEF Snapshot
  <2> QED
    BY <2>1, <2>2, <2>3, RecordPause
<1>4. ASSUME NEW kind \in {"observe", "buy"}, Ticket(kind) PROVE PauseInv'
  <2>1. PICK value \in Pnl : value = held
    BY <1>1, <1>4 DEF Ticket, DailyRiskTypeOK
  <2>2. PICK latched \in BOOLEAN : latched = Observed(value, TRUE).latched
    BY <1>2
  <2>3. Observed(held, FALSE) = Observed(held, TRUE)
    BY <1>4, CarryUnneeded DEF Ticket
  <2>4. Record(kind, held, FALSE) /\ now' = now
    BY <1>4 DEF Ticket
  <2>5. Record(kind, value, TRUE)
    BY <2>1, <2>3, <2>4 DEF Record
  <2>6. kind = "buy" => ~latched /\ ~RecoveryBlocked(latched)
    BY <1>4, <2>1, <2>2, <2>3 DEF Ticket, Entry
  <2> QED
    BY <2>2, <2>4, <2>5, <2>6, RecordPause
<1>5. ASSUME NEW s \in Scope, Restart(s) PROVE PauseInv'
  BY <1>5, UntouchedPause DEF Restart
<1>6. ASSUME Tick PROVE PauseInv'
  BY <1>6, UntouchedPause DEF Tick
<1>7. ASSUME UNCHANGED vars PROVE PauseInv'
  BY <1>7, UntouchedPause DEF vars
<1> QED
  BY <1>3, <1>4, <1>5, <1>6, <1>7, AcknowledgePause DEF Next

(* A recovery pause holds: after a loss stop that found no earlier pause open
   there is no entry, on any day, before an acknowledgement or that stop's own
   deadline, whatever engines and scopes follow. *)
THEOREM PausesHold == Spec => []PauseHolds
<1>1. Init => ExactInv /\ PauseInv
  BY ExactInit, PauseInit
<1>2. (ExactInv /\ PauseInv) /\ [Next]_vars => (ExactInv /\ PauseInv)'
  BY ExactStep, PauseStep
<1>3. ExactInv /\ PauseInv => PauseHolds
  BY DEF PauseInv
<1> QED
  BY <1>1, <1>2, <1>3, PTL DEF Spec
=============================================================================
