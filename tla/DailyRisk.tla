------------------------------ MODULE DailyRisk ------------------------------
(***************************************************************************)
(* The daily loss stop and the recovery pause of one account: the tables   *)
(* mixed_daily_pnl and loss_recovery (persistence/execution_risk.py), and  *)
(* the calls the mixed engine makes on them.  An engine holds the lease,   *)
(* so that one of them runs at a time; it may be replaced by another,      *)
(* under another reviewed scope, at any point.  The profit or loss that    *)
(* the fills and the quotes amount to is an input.                         *)
(***************************************************************************)
EXTENDS Integers, Sequences, FiniteSetsExt

CONSTANTS
    Scope,          \* reviewed scopes
    Limit,          \* each scope's max_daily_loss_usd
    Until(_, _),    \* recovery_deadline of a pause begun at an instant, for a scope
    Date(_),        \* the Eastern date of an instant
    Pnl,            \* profits and losses since the account was opened
    None,
    Horizon,        \* bound: instants are 0..Horizon
    MaxLog          \* bound: the risk calls and acknowledgements of a behaviour

Time == 0..Horizon
Day == {Date(t) : t \in Time}

ASSUME PnlAssumption == Pnl \subseteq Int
ASSUME HorizonAssumption == Horizon \in Nat /\ MaxLog \in Nat
ASSUME LimitAssumption == Limit \in [Scope -> Nat \ {0}]
ASSUME DateAssumption == \A t \in Time : Date(t) \in Nat
ASSUME DateOrderAssumption == \A s, t \in Time : s <= t => Date(s) <= Date(t)
ASSUME UntilAssumption == \A t \in Time, s \in Scope : Until(t, s) \in Nat \cup {None}

VARIABLES
    now,
    days,       \* table mixed_daily_pnl, by date
    pause,      \* the account's row of loss_recovery
    legacy,     \* dates with placements recorded by the older route, which is retired
    scope,      \* the scope of the latest engine
    held,       \* the P/L of the snapshot that the engine's cycle holds
    log         \* history: the calls on the tables, in the order of their commits

vars == <<now, days, pause, legacy, scope, held, log>>

DayRow == [peak : Pnl, last : Pnl, limit : Nat \ {0}, latched : BOOLEAN]
PauseRow == [scope : Scope, day : Day, eligible : Nat \cup {None}, cleared : BOOLEAN]
Call == [kind : {"observe", "buy", "ack"}, at : Time, day : Day,
         pnl : Pnl \cup {None}, scope : Scope \cup {None}]

ASSUME NullAssumption == None \notin Int \cup Scope \cup DayRow \cup PauseRow

Today == Date(now)

Init ==
    /\ now = 0
    /\ days = [d \in Day |-> None]
    /\ pause = None
    /\ legacy \in {{}, {Today}}
    /\ scope \in Scope
    /\ held = None
    /\ log = <<>>

-----------------------------------------------------------------------------
(* The tables *)

Larger(x, y) == IF x >= y THEN x ELSE y
Smaller(x, y) == IF x <= y THEN x ELSE y

(* The last observation of the latest earlier date that has one. *)
Earlier == {d \in Day : d < Today /\ days[d] # None}
CarriedPeak(value) ==
    IF Earlier = {} THEN value
    ELSE LET latest == CHOOSE d \in Earlier : \A e \in Earlier : e <= d
         IN Larger(value, days[latest].last)

(* A new day starts from its own first observation. *)
PeakAfresh(value, carry) ==
    IF days[Today] # None THEN Larger(value, days[Today].peak) ELSE value

Peak(value, carry) ==
    IF days[Today] # None THEN Larger(value, days[Today].peak)
    ELSE IF carry THEN CarriedPeak(value) ELSE value

(* The latest scope's limit, not the day's strictest. *)
LatestLimit == Limit[scope]

StrictestLimit ==
    IF days[Today] = None THEN Limit[scope] ELSE Smaller(Limit[scope], days[Today].limit)

(* The row that record_mixed_daily_pnl writes for today. *)
Observed(value, carry) ==
    [peak |-> Peak(value, carry), last |-> value, limit |-> StrictestLimit,
     latched |-> \/ days[Today] # None /\ days[Today].latched
                 \/ Peak(value, carry) - value >= StrictestLimit]

(* _record_loss_pause: the row after its insert, and the row it leaves. *)
PauseBegins(latched) ==
    latched /\ (pause = None \/ (pause.cleared /\ pause.day # Today))

Begun(latched) ==
    IF PauseBegins(latched)
    THEN [scope |-> scope, day |-> Today, eligible |-> Until(now, scope), cleared |-> FALSE]
    ELSE pause

Due(row) == row.eligible # None /\ row.eligible <= now

Paused(latched) ==
    LET row == Begun(latched)
    IN IF row # None /\ ~row.cleared /\ Due(row) THEN [row EXCEPT !.cleared = TRUE] ELSE row

RecoveryBlocked(latched) ==
    LET row == Begun(latched) IN row # None /\ ~row.cleared /\ ~Due(row)

Event(kind, value) ==
    [kind |-> kind, at |-> now, day |-> Today, pnl |-> value, scope |-> scope]

Record(kind, value, carry) ==
    LET row == Observed(value, carry)
    IN /\ Len(log) < MaxLog
       /\ days' = [days EXCEPT ![Today] = row]
       /\ pause' = Paused(row.latched)
       /\ log' = Append(log, Event(kind, value))

-----------------------------------------------------------------------------
(* The engine.  With placements today a missing row is an error, and the
   exception ends the engine.  A placement of its own follows the row of its
   date in the same step, so the older route's are those that can be met. *)

HistoryMissing == Today \in legacy /\ days[Today] = None

(* The end of an engine, by a stop, a crash or an exception, and the start of
   the next one. *)
Restart(s) ==
    /\ scope' = s /\ held' = None
    /\ UNCHANGED <<now, days, pause, legacy, log>>

(* _snapshot marks the fills to the quotes it has just read. *)
Snapshot(value) ==
    /\ ~HistoryMissing
    /\ Record("observe", value, TRUE)
    /\ held' = value
    /\ UNCHANGED <<now, legacy, scope>>

(* cycle, after the eligibility call: the snapshot's quotes are marked again,
   perhaps on another date, and the ticket is assessed.  A loss stop blocks
   entries only; other reasons may block any ticket, and an exit or a blocked
   ticket leaves the same mark here.  The regular session, which an entry
   needs, is hours from midnight and a cycle lasts thirty seconds: its
   snapshot has already observed the date. *)
EntryLatchOnly == days[Today] # None /\ ~Observed(held, FALSE).latched

Entry ==
    LET row == Observed(held, FALSE)
    IN days[Today] # None /\ ~row.latched /\ ~RecoveryBlocked(row.latched)

Ticket(kind) ==
    /\ held # None /\ ~HistoryMissing
    /\ kind = "buy" => Entry
    /\ Record(kind, held, FALSE)
    /\ held' = None
    /\ UNCHANGED <<now, legacy, scope>>

(* recovery_ack: the user restarts trading by hand. *)
Acknowledge ==
    /\ pause # None /\ ~pause.cleared
    /\ Len(log) < MaxLog
    /\ pause' = [pause EXCEPT !.cleared = TRUE]
    /\ log' = Append(log, [kind |-> "ack", at |-> now, day |-> Today, pnl |-> None, scope |-> None])
    /\ UNCHANGED <<now, days, legacy, scope, held>>

Tick ==
    /\ now < Horizon
    /\ now' = now + 1
    /\ UNCHANGED <<days, pause, legacy, scope, held, log>>

Next ==
    \/ \E s \in Scope : Restart(s)
    \/ \E value \in Pnl : Snapshot(value)
    \/ \E kind \in {"observe", "buy"} : Ticket(kind)
    \/ Acknowledge
    \/ Tick

Spec == Init /\ [][Next]_vars

-----------------------------------------------------------------------------
(* What the history says *)

Observations == {i \in 1..Len(log) : log[i].kind # "ack"}
On(d) == {i \in Observations : log[i].day = d}

(* The loss at observation i, from the best the day had seen, the last
   observation before the day included. *)
Before(i) ==
    LET earlier == {k \in Observations : log[k].day < log[i].day}
    IN IF earlier = {} THEN {} ELSE {CHOOSE k \in earlier : \A m \in earlier : m <= k}
Bests(i) == {k \in On(log[i].day) : k <= i} \cup Before(i)

(* The day's loss limit was reached at observation i: some scope that had
   observed the day allowed no more than the loss from some earlier best. *)
Breach(i) ==
    \E best \in Bests(i) : \E k \in On(log[i].day) :
        k <= i /\ log[best].pnl - log[i].pnl >= Limit[log[k].scope]

Stopped(d, i) == \E k \in On(d) : k <= i /\ Breach(k)
FirstStop(i) == i \in Observations /\ Breach(i) /\ \A k \in On(log[i].day) : k < i => ~Breach(k)
StopObservations == {i \in Observations : Stopped(log[i].day, i)}

(* The pause that stop observation e began, if it began one, is over before i. *)
Over(e, i) ==
    \E c \in (e + 1)..(i - 1) :
        \/ log[c].kind = "ack"
        \/ LET due == Until(log[e].at, log[e].scope) IN due # None /\ due <= log[c].at

(* Type invariant. *)
DailyRiskTypeOK ==
    /\ now \in Time
    /\ days \in [Day -> DayRow \cup {None}]
    /\ pause \in PauseRow \cup {None}
    /\ legacy \subseteq Day
    /\ scope \in Scope
    /\ held \in Pnl \cup {None}
    /\ log \in Seq(Call)

(* The latch of a day is the drawdown of that day's history against the
   strictest limit in force, whichever engines, scopes and calls observed
   it, the loss since the previous day's last observation included
   ("A new grant cannot raise the day's strictest limit or erase a prior
   breach"). *)
LatchIsDrawdown ==
    \A d \in Day : days[d] # None => (days[d].latched <=> \E i \in On(d) : Breach(i))

(* No entry on a day after a scope's limit was reached on it, for any
   acknowledgement, deadline, restart or later scope with a higher limit. *)
NoEntryAfterBreach ==
    \A best, k, i, j \in Observations :
        /\ log[best].day = log[i].day /\ log[k].day = log[i].day /\ log[i].day = log[j].day
        /\ best <= i /\ k <= i /\ i <= j
        /\ log[j].kind = "buy"
        => log[best].pnl - log[i].pnl < Limit[log[k].scope]

(* After a loss stop that found no earlier pause open, no entry on any later
   day before that stop's own deadline or an acknowledgement: restarting, or
   another scope with a shorter delay, does not shorten the pause. *)
PauseHolds ==
    \A i, j \in Observations :
        /\ FirstStop(i)
        /\ \A e \in StopObservations : e < i => Over(e, i)
        /\ log[j].kind = "buy" /\ i < j
        => \/ \E k \in i..j : log[k].kind = "ack"
           \/ LET due == Until(log[i].at, log[i].scope) IN due # None /\ due <= log[j].at

(* What the user guide says of manual recovery: no entry after a loss stop
   under a scope with manual recovery until the user acknowledged it. *)
ManualStopNeedsAck ==
    \A i, j \in Observations :
        /\ FirstStop(i) /\ Until(log[i].at, log[i].scope) = None
        /\ log[j].kind = "buy" /\ i < j
        => \E k \in i..j : log[k].kind = "ack"

=============================================================================
