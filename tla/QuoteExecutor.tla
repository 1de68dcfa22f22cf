---------------------------- MODULE QuoteExecutor ----------------------------
(***************************************************************************)
(* The virtual quote executor (strategy/quote_simulation.py) with the      *)
(* checks its checkpoint has to pass to be restored                        *)
(* (strategy/shadow_checkpoint.py).                                        *)
(*                                                                         *)
(* A call of on_causal_quote is one step.  Its inputs are a frame: the     *)
(* time, the quotes, of which any may be missing, the signal, the          *)
(* volatility scale and whether the modelled venue rejects the order.      *)
(***************************************************************************)
EXTENDS CandidateRules, Sequences

CONSTANTS
    Price,      \* mid prices
    Minute,     \* minutes of a session at which frames arrive
    Days,       \* sessions
    Scale,      \* volatility scales, in percent
    MaxFrames   \* bound on the frames of a behaviour

VARIABLES
    sim,        \* the executor
    now,        \* day and minute of the latest frame
    frames      \* how many there were

vars == <<sim, now, frames>>

Day == 1..Days

Fresh ==
    [cash |-> Contract.cash, unsettled |-> 0, equity |-> Contract.cash,
     position |-> None, pending |-> None, session |-> 0,
     analyses |-> 0, count |-> 0, last |-> 0,
     entries |-> [d \in Day |-> 0], start |-> [d \in Day |-> None], peak |-> [d \in Day |-> 0],
     paused |-> {}, losses |-> 0, active |-> TRUE,
     realized |-> 0]    \* the sum of the fills' realized results

Init == sim = Fresh /\ now = [day |-> 1, minute |-> -1] /\ frames = 0

Frame ==
    [day : Day, minute : Minute, mid : Price \cup {None}, spread : {0},
     regime : {"bullish", "bearish", "flat"}, scale : Scale, rejected : BOOLEAN]

-----------------------------------------------------------------------------
(* Money *)

Value(s, mid) ==
    s.cash + s.unsettled
      + (IF s.position # None /\ mid # None THEN s.position.quantity * mid ELSE 0)

Marked(s, f) == [s EXCEPT !.equity = Value(s, f.mid)]

(* _record_realized *)
Booked(s, day, result) ==
    LET losses == NextLosses(s.losses, result) IN
    [s EXCEPT !.losses = losses, !.realized = @ + result,
              !.paused = IF losses >= Contract.maxLosses THEN @ \cup {day} ELSE @]

Stay(s, complete) == [state |-> s, complete |-> complete]

SellQuantity(s, force) ==
    IF force THEN s.position.quantity ELSE Fillable(s.position.quantity, None)

(* The selling half of _transition; what is left keeps its share of the cost. *)
Sell(s, f, target, force) ==
    LET p == s.position
        spread == Spread(f.spread, 0)
        quantity == SellQuantity(s, force)
        share == (p.cost * quantity) \div p.quantity
        proceeds == quantity * ExecutionPrice(f.mid, "sell", spread) - Contract.commission
        rest == [p EXCEPT !.quantity = @ - quantity, !.cost = @ - share]
    IN  IF \/ f.mid = None
           \/ ~force /\ (f.rejected \/ BeyondLimit(f.mid, "sell", spread))
           \/ quantity = 0
        THEN Stay(s, FALSE)
        ELSE Stay(Booked([s EXCEPT !.position = IF rest.quantity = 0 THEN None ELSE rest,
                                   !.unsettled = IF Contract.t1 THEN @ + proceeds ELSE @,
                                   !.cash = IF Contract.t1 THEN @ ELSE @ + proceeds],
                         f.day, proceeds - share),
                  target = None /\ rest.quantity = 0)

Blocked(s, day) == EntryBlocked(s.entries[day], s.losses, day \in s.paused)

(* The buying half of _transition. *)
Buy(s, f, target) ==
    LET spread == Spread(f.spread, 0)
        price == ExecutionPrice(f.mid, "buy", spread)
        size == SizeEntry(s.equity, s.cash, price, f.scale, None)
        cost == size.fillable * price + Contract.commission
    IN  CASE Blocked(s, f.day) -> Stay(s, TRUE)
          [] ~Blocked(s, f.day) /\ (f.mid = None \/ BeyondLimit(f.mid, "buy", spread)) -> Stay(s, FALSE)
          [] OTHER ->
               IF size.requested = 0 THEN Stay(s, TRUE)
               ELSE IF f.rejected \/ size.fillable = 0 THEN Stay(s, FALSE)
               ELSE Stay([s EXCEPT !.cash = @ - cost,
                                   !.position = [symbol |-> target, quantity |-> size.fillable, entry |-> price,
                                                 day |-> f.day, minute |-> f.minute, cost |-> cost],
                                   !.entries[f.day] = @ + 1],
                         TRUE)

(* _transition *)
Transition(s, f, target, force) ==
    IF s.position # None
    THEN IF target = s.position.symbol THEN Stay(s, TRUE) ELSE Sell(s, f, target, force)
    ELSE IF target = None THEN Stay(s, TRUE) ELSE Buy(s, f, target)

Pending(target, due, day) == [target |-> target, due |-> due, session |-> day]

(* The order goes on with the next analysis until the transition is complete. *)
Attempt(s, f, target) ==
    LET r == Transition(s, f, target, FALSE) IN
    [r.state EXCEPT !.pending = IF r.complete THEN None ELSE Pending(target, s.analyses + 1, f.day)]

-----------------------------------------------------------------------------
(* _advance, in the order of its parts *)

(* Mutant: the decision count of the day before survives. *)
OpenedCounting(s, day) ==
    IF s.session = day THEN s
    ELSE [s EXCEPT !.session = day, !.count = 0, !.losses = 0,
                   !.cash = IF Contract.t1 THEN @ + s.unsettled ELSE @,
                   !.unsettled = IF Contract.t1 THEN 0 ELSE @]

(* A new session settles the sales and begins its own counts. *)
Opened(s, day) ==
    IF s.session = day THEN s
    ELSE [s EXCEPT !.session = day, !.count = 0, !.last = 0, !.losses = 0,
                   !.cash = IF Contract.t1 THEN @ + s.unsettled ELSE @,
                   !.unsettled = IF Contract.t1 THEN 0 ELSE @]

Counted(s, day) ==
    [s EXCEPT !.analyses = @ + 1, !.count = @ + 1,
              !.pending = IF @ # None /\ Contract.gfd /\ @.session # day THEN None ELSE @]

(* The daily loss pauses the session and schedules the way out. *)
Paused(s, day) ==
    LET start == IF s.start[day] = None THEN s.equity ELSE s.start[day]
        peak == IF s.start[day] = None THEN s.equity ELSE Most(s.peak[day], s.equity)
        lost == DailyLossReached(start, peak, s.equity)
    IN  [s EXCEPT !.start[day] = start, !.peak[day] = peak,
                  !.paused = IF lost THEN @ \cup {day} ELSE @,
                  !.pending = IF lost /\ s.position # None /\ @ = None
                              THEN Pending(None, s.analyses + 1 + Contract.latency, day) ELSE @]

Due(s, f) ==
    /\ s.pending # None
    /\ s.analyses >= s.pending.due
    /\ IF s.position # None /\ s.pending.target # s.position.symbol
       THEN ExitWindow(f.minute) ELSE TradingWindow(f.minute)

Worked(s, f) == IF Due(s, f) THEN Attempt(s, f, s.pending.target) ELSE s

HeldMinutes(p, f) == (f.day - p.day) * 1440 + f.minute - p.minute

Decided(s, f) ==
    LET p == s.position
        target == IF p = None THEN Decide(f.regime, f.minute, FALSE, 0, None, 0)
                  ELSE Decide(f.regime, f.minute, TRUE, p.entry, f.mid, HeldMinutes(p, f))
        current == IF p = None THEN None ELSE p.symbol
        open == IF p = None THEN TradingWindow(f.minute) ELSE ExitWindow(f.minute)
        due == s.analyses + Contract.latency
        asked == [s EXCEPT !.last = s.count]
    IN  IF ~DecisionDue(s.count, s.last) THEN s
        ELSE IF \/ ~open
                \/ target = current
                \/ s.pending # None
                \/ p = None /\ Blocked(s, f.day)
             THEN asked
        ELSE IF Contract.latency = 0 THEN Attempt(asked, f, target)
        ELSE [asked EXCEPT !.pending = Pending(target, due, f.day)]

Later(f) == f.day > now.day \/ (f.day = now.day /\ f.minute > now.minute)

(* on_causal_quote *)
Advanced(s, f) ==
    LET counted == Counted(Opened(s, f.day), f.day)
        paused == Paused(Marked(counted, f), f.day)
    IN  Marked(Decided(Worked(paused, f), f), f)

OnQuote ==
    /\ sim.active /\ frames < MaxFrames
    /\ \E f \in Frame :
          /\ Later(f)
          /\ sim' = Advanced(sim, f)
          /\ now' = [day |-> f.day, minute |-> f.minute]
    /\ frames' = frames + 1

(* stop, with the forced way out at the session's end; its result is not
   booked into the session's losses. *)
Stopped(s, f, flatten) ==
    LET r == IF flatten /\ s.position # None THEN Sell(s, f, None, TRUE) ELSE Stay(s, TRUE)
    IN  Marked([r.state EXCEPT !.active = FALSE, !.pending = None,
                               !.losses = s.losses, !.paused = s.paused], f)

Stop ==
    /\ sim.active /\ sim.session # 0
    /\ \E f \in Frame, flatten \in BOOLEAN :
          /\ f.day = now.day /\ f.minute = now.minute
          /\ sim' = Stopped(sim, f, flatten)
    /\ UNCHANGED <<now, frames>>

Next == OnQuote \/ Stop

Spec == Init /\ [][Next]_vars

-----------------------------------------------------------------------------
(* restore: what a checkpoint of the executor has to satisfy.  The identity,
   the types and the instruments are left out. *)
Restorable(s) ==
    /\ s.cash >= 0 /\ s.unsettled >= 0 /\ s.equity >= 0
    /\ Contract.t1 \/ s.unsettled = 0
    /\ s.position # None => s.position.quantity > 0 /\ s.position.entry > 0 /\ s.position.cost > 0
    /\ s.count <= s.analyses /\ s.last <= s.count
    /\ s.analyses > 0 => s.session # 0
    /\ s.pending # None => s.pending.session # 0

(* Properties *)

(* Whatever an executor went through, partial fills, pauses, missing quotes
   and changes of session included, its checkpoint is one that restore
   accepts: a run can always be continued (shadow_checkpoint.py restore). *)
CheckpointRestores == sim.active => Restorable(sim)

(* The money adds up: cash, unsettled cash and the cost of what is held are
   the starting cash and the realized results, through every partial sale. *)
MoneyAddsUp ==
    sim.cash + sim.unsettled + (IF sim.position = None THEN 0 ELSE sim.position.cost)
      = Contract.cash + sim.realized

(* A paused session that still holds something is on its way out: an order
   to leave the position is pending, through partial fills, rejections and
   missing quotes (quote_simulation.py _advance, _transition). *)
PausedLeaves ==
    sim.active /\ sim.session \in sim.paused /\ sim.position # None =>
        sim.pending # None /\ sim.pending.target # sim.position.symbol

=============================================================================
