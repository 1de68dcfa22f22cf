------------------------------ MODULE BarReplay ------------------------------
(***************************************************************************)
(* The bar replay (research/bar_replay.py) and its virtual executions      *)
(* (research/sandbox_execution.py).  A pass of the loop over the frames is *)
(* one step: fills at the bar's open first, then marks, decisions and the  *)
(* flatten at the session's end, all on the completed bar.                 *)
(***************************************************************************)
EXTENDS CandidateRules

CONSTANTS
    Price,          \* opening and closing prices
    Volume,         \* volumes of a bar
    BarRange,       \* ranges of a bar, in basis points
    Minute,         \* minutes of a session at which bars start
    BarMinutes,
    Days,
    Scale,          \* volatility scales, in percent
    MaxBars         \* bound on the bars of a behaviour

VARIABLES sim, now, bars

vars == <<sim, now, bars>>

Day == 1..Days

Fresh ==
    [cash |-> Contract.cash, unsettled |-> 0, position |-> None, scheduled |-> None, day |-> 0,
     entries |-> [d \in Day |-> 0], start |-> [d \in Day |-> None], peak |-> [d \in Day |-> 0],
     count |-> [d \in Day |-> 0], last |-> [d \in Day |-> 0],
     paused |-> {}, losses |-> 0, range |-> 0, volume |-> None,
     partial |-> 0,     \* the result of the trade being closed
     closed |-> 0,      \* the sum of the closed trades' results
     flattened |-> FALSE]

Init == sim = Fresh /\ now = [day |-> 1, minute |-> -1] /\ bars = 0

Bar ==
    [day : Day, minute : Minute, open : Price, close : Price, volume : Volume, range : BarRange,
     regime : {"bullish", "bearish", "flat"}, scale : Scale, rejected : BOOLEAN]

-----------------------------------------------------------------------------
(* SandboxExecutionModel: a fill at the open knows the range and the volume
   of the bar before only, one at the close those of its own bar. *)

Reference(b, late) == IF late THEN b.close ELSE b.open
KnownRange(s, b, late) == IF late THEN b.range ELSE s.range
KnownVolume(s, b, late) == IF late /\ b.volume > 0 THEN b.volume ELSE s.volume

Result(s, complete, pnl, bought) == [state |-> s, complete |-> complete, pnl |-> pnl, bought |-> bought]

(* _sell *)
Sell(s, b, late) ==
    LET p == s.position
        spread == Spread(None, KnownRange(s, b, late))
        quantity == Fillable(p.quantity, KnownVolume(s, b, late))
        share == (p.cost * quantity) \div p.quantity
        proceeds == quantity * ExecutionPrice(Reference(b, late), "sell", spread) - Contract.commission
        rest == [p EXCEPT !.quantity = @ - quantity, !.cost = @ - share]
    IN  IF b.rejected \/ BeyondLimit(Reference(b, late), "sell", spread) \/ quantity = 0
        THEN Result(s, FALSE, None, FALSE)
        ELSE Result([s EXCEPT !.position = IF rest.quantity = 0 THEN None ELSE rest,
                              !.unsettled = IF Contract.t1 THEN @ + proceeds ELSE @,
                              !.cash = IF Contract.t1 THEN @ ELSE @ + proceeds],
                    rest.quantity = 0, proceeds - share, FALSE)

(* _buy: the equity for sizing is the money alone, as nothing is held. *)
Buy(s, b, target) ==
    LET spread == Spread(None, s.range)
        price == ExecutionPrice(b.open, "buy", spread)
        size == SizeEntry(s.cash + s.unsettled, s.cash, price, b.scale, s.volume)
        cost == size.fillable * price + Contract.commission
    IN  IF BeyondLimit(b.open, "buy", spread) THEN Result(s, FALSE, None, FALSE)
        ELSE IF size.requested = 0 THEN Result(s, TRUE, None, FALSE)
        ELSE IF b.rejected \/ size.fillable = 0 THEN Result(s, FALSE, None, FALSE)
        ELSE Result([s EXCEPT !.cash = @ - cost, !.entries[b.day] = @ + 1,
                              !.position = [symbol |-> target, quantity |-> size.fillable, entry |-> price,
                                            cost |-> cost, day |-> b.day, minute |-> b.minute]],
                    TRUE, None, TRUE)

MayEnter(s, day) == day \notin s.paused /\ s.entries[day] < Contract.maxEntries

(* transition, towards cash or from cash *)
Transition(s, b, target, late) ==
    IF s.position # None /\ s.position.symbol # target THEN Sell(s, b, late)
    ELSE IF target = None \/ s.position # None \/ ~MayEnter(s, b.day) THEN Result(s, TRUE, None, FALSE)
    ELSE Buy(s, b, target)

(* Mutant: the result of a closed trade is carried into the next one. *)
RecordedTwice(r, day) ==
    LET s == r.state
        total == s.partial + r.pnl
    IN  IF r.pnl = None THEN s
        ELSE [s EXCEPT !.partial = total, !.closed = IF s.position = None THEN @ + total ELSE @]

(* record_exits: partial sales are one trade until the position is closed. *)
Recorded(r, day) ==
    LET s == r.state
        total == s.partial + r.pnl
        losses == NextLosses(s.losses, total)
    IN  IF r.pnl = None THEN s
        ELSE IF s.position # None THEN [s EXCEPT !.partial = total]
        ELSE [s EXCEPT !.partial = 0, !.closed = @ + total, !.losses = losses,
                       !.paused = IF losses >= Contract.maxLosses THEN @ \cup {day} ELSE @]

Equity(s, price) ==
    s.cash + s.unsettled + (IF s.position = None THEN 0 ELSE s.position.quantity * price)

LossPaused(s, day, equity) ==
    IF DailyLossReached(s.start[day], s.peak[day], equity)
    THEN [s EXCEPT !.paused = @ \cup {day}] ELSE s

-----------------------------------------------------------------------------
(* A pass of the loop, in the order of its parts *)

Opened(s, day) ==
    IF s.day = day THEN s
    ELSE [s EXCEPT !.day = day, !.losses = 0, !.flattened = FALSE,
                   !.cash = IF Contract.t1 THEN @ + s.unsettled ELSE @,
                   !.unsettled = IF Contract.t1 THEN 0 ELSE @,
                   !.scheduled = IF Contract.gfd THEN None ELSE @]

(* The equity at the open, before the bar's close is known. *)
Began(s, b) ==
    LET equity == Equity(s, b.open)
        start == IF s.start[b.day] = None THEN equity ELSE s.start[b.day]
        peak == IF s.start[b.day] = None THEN equity ELSE Most(s.peak[b.day], equity)
    IN  LossPaused([s EXCEPT !.count[b.day] = @ + 1, !.start[b.day] = start, !.peak[b.day] = peak],
                   b.day, equity)

Leaving(s) == s.position # None /\ s.scheduled # None /\ s.scheduled.target # s.position.symbol

Due(s, b) ==
    /\ s.scheduled # None
    /\ bars >= s.scheduled.at
    /\ IF Leaving(s) THEN ExitWindow(b.minute) ELSE TradingWindow(b.minute)

Step(s, b, target) ==
    LET r == Transition(s, b, target, FALSE)
        recorded == Recorded(r, b.day)
    IN  [state |-> LossPaused(recorded, b.day, Equity(recorded, b.open)), complete |-> r.complete]

(* A rotation sells first; the loss of the sale may pause the purchase. *)
Worked(s, b) ==
    IF ~Due(s, b) THEN s
    ELSE LET target == s.scheduled.target
             first == Step(s, b, IF Leaving(s) THEN None ELSE target)
             goesOn == Leaving(s) /\ target # None /\ first.complete /\ b.day \notin first.state.paused
             last == IF goesOn THEN Step(first.state, b, target) ELSE first
         IN  [last.state EXCEPT !.scheduled =
                 IF last.complete THEN None ELSE [at |-> bars + 1, target |-> target]]

NextAt == bars + 1 + Contract.latency

CashExit(s) == s.position # None /\ s.scheduled # None /\ s.scheduled.target = None

(* The earlier of two cash exits stands. *)
ExitAt(s, keepRotation) ==
    [at |-> IF s.scheduled # None /\ (keepRotation \/ s.scheduled.target = None)
            THEN Least(NextAt, s.scheduled.at) ELSE NextAt,
     target |-> None]

Risked(s, b) ==
    LET equity == Equity(s, b.close)
        paused == LossPaused([s EXCEPT !.peak[b.day] = Most(@, equity)], b.day, equity)
    IN  IF b.day \in paused.paused /\ paused.position # None
        THEN [paused EXCEPT !.scheduled = ExitAt(paused, FALSE)]
        ELSE paused

HeldMinutes(p, b) == (b.day - p.day) * 1440 + b.minute - p.minute

(* Mutant: a new decision replaces the scheduled exit. *)
RescheduledAlways(s, current, target) ==
    IF target = current THEN [s EXCEPT !.scheduled = None]
    ELSE IF s.scheduled = None \/ s.scheduled.target # target
         THEN [s EXCEPT !.scheduled = [at |-> NextAt, target |-> target]]
    ELSE s

(* A scheduled cash exit is finished before another direction is taken. *)
Rescheduled(s, current, target) ==
    IF CashExit(s) THEN s
    ELSE IF target = current THEN [s EXCEPT !.scheduled = None]
    ELSE IF s.position # None /\ target = None THEN [s EXCEPT !.scheduled = ExitAt(s, TRUE)]
    ELSE IF s.scheduled = None \/ s.scheduled.target # target
         THEN [s EXCEPT !.scheduled = [at |-> NextAt, target |-> target]]
    ELSE s

Decided(s, b) ==
    LET p == s.position
        target == IF p = None THEN Decide(b.regime, b.minute, FALSE, 0, None, 0)
                  ELSE Decide(b.regime, b.minute, TRUE, p.entry, b.close, HeldMinutes(p, b))
        current == IF p = None THEN None ELSE p.symbol
        open == IF p = None THEN TradingWindow(b.minute) ELSE ExitWindow(b.minute)
        asked == [s EXCEPT !.last[b.day] = s.count[b.day]]
    IN  IF ~DecisionDue(s.count[b.day], s.last[b.day]) \/ b.day \in s.paused THEN s
        ELSE IF open THEN Rescheduled(asked, current, target) ELSE asked

(* The flatten at the session's end may be rejected or partial too, and
   nothing stays scheduled after it. *)
Flattened(s, b) ==
    IF s.position # None /\ Contract.flat /\ b.minute + BarMinutes >= Contract.session
    THEN [Recorded(Sell(s, b, TRUE), b.day) EXCEPT !.scheduled = None, !.flattened = TRUE]
    ELSE s

Observed(s, b) == [s EXCEPT !.range = b.range, !.volume = IF b.volume > 0 THEN b.volume ELSE None]

Later(b) == b.day > now.day \/ (b.day = now.day /\ b.minute > now.minute)

OnBar ==
    /\ bars < MaxBars
    /\ \E b \in Bar :
          LET filled == Worked(Began(Opened(sim, b.day), b), b)
          IN  /\ Later(b)
              /\ sim' = Observed(Flattened(Decided(Risked(filled, b), b), b), b)
              /\ now' = [day |-> b.day, minute |-> b.minute]
    /\ bars' = bars + 1

Next == OnBar

Spec == Init /\ [][Next]_vars

-----------------------------------------------------------------------------
(* Properties *)

(* The money adds up over partial sales, rotations and settlements: cash and
   unsettled cash with the cost of what is held are the starting cash, the
   closed trades' results and the one being closed; cash is never overdrawn. *)
MoneyAddsUp ==
    /\ sim.cash + sim.unsettled + (IF sim.position = None THEN 0 ELSE sim.position.cost)
          = Contract.cash + sim.closed + sim.partial
    /\ sim.cash >= 0

(* A scheduled cash exit is finished, not withdrawn: while the day lasts the
   position shrinks to nothing or the exit stays scheduled, whatever the
   later signals say (bar_replay.py run: "Finish a scheduled cash exit before
   accepting a new direction"). *)
ExitsAreFinished ==
    [][CashExit(sim) /\ now'.day = now.day =>
          CashExit(sim') \/ sim'.position = None \/ sim'.flattened]_vars

=============================================================================
