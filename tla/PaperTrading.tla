----------------------------- MODULE PaperTrading -----------------------------
(***************************************************************************)
(* The paper simulation: its durable ledger (research/paper/ledger.py),    *)
(* the adaptive rule and the limits (strategy/paper.py), the two market    *)
(* workers of a cycle (research/agent_runtime.py) and what a reader of the *)
(* journal demands (research/paper/journal.py).  Only the broker-quote     *)
(* source is followed; the demo consumes the same way, once per cycle.     *)
(*                                                                         *)
(* A worker consumes its decisions in the step in which its quotes arrive: *)
(* nothing between the two waits.  Screening, news and indicators are the  *)
(* observation's status and trend.  Money is an integer; slippage is an    *)
(* amount per unit.                                                        *)
(***************************************************************************)
EXTENDS Integers, Sequences, FiniteSets, SequencesExt, FiniteSetsExt

CONSTANTS
    Market,         \* a function from market to its instruments
    Family,         \* QQQ, TQQQ and SQQQ
    Reading,        \* what an arriving quote may say: its lag, bid, trend and status
    InitialCash, TradeCash, Slip,
    StopPct, TargetPct, TrailPct, MaxHold, Cooldown, IntentLife, DrawdownPct, ExposurePct,
    Limit,          \* position limits a user may set
    MaxTime, MaxRuns, MaxSessions,
    None

ASSUME PaperAssumption ==
    /\ InitialCash \in Nat \ {0} /\ TradeCash \in 1..InitialCash
    /\ Slip \in Nat /\ \A r \in Reading : r.status # "blocked" => r.bid \in Nat /\ r.bid > Slip
    /\ \A r \in Reading : r.lag \in Nat
    /\ \A m \in DOMAIN Market : IsFiniteSet(Market[m])
    /\ \A m, n \in DOMAIN Market : m # n => Market[m] \cap Market[n] = {}
    /\ IsFiniteSet(DOMAIN Market) /\ Limit \subseteq Nat

(* NULL is no position and no intent. *)
ASSUME PaperNoneAssumption ==
    /\ None \notin [quantity : Int, cost : Int, bid : Int, opened : Int, high : Int]
    /\ None \notin [side : {"buy", "sell"}, signal : Int, run : Int]

VARIABLES
    ledger,     \* PaperLedger.state in memory; None while no process is up
    disk,       \* its saved session and the rows of paper_fills
    run,        \* the agent's run and its two workers
    clock,
    traded      \* history: every fill made in memory, with its signal

vars == <<ledger, disk, run, clock, traded>>

Key == UNION {Market[m] : m \in DOMAIN Market}
NoIntents == [k \in Key |-> None]

Session(id) ==
    [id |-> id, cash |-> InitialCash, positions |-> [k \in Key |-> None], pending |-> NoIntents,
     quoted |-> [k \in Key |-> -1], sold |-> [k \in Key |-> None],
     count |-> 0, fills |-> <<>>, realized |-> 0, peak |-> InitialCash, drawdown |-> 0]

Stopped == [on |-> FALSE, worker |-> [m \in DOMAIN Market |-> "idle"], limit |-> 0, paused |-> FALSE, number |-> 0]

Init ==
    /\ ledger = Session(0)
    /\ disk = [session |-> Session(0), rows |-> {}]
    /\ run = Stopped /\ clock = 0 /\ traded = {}

-----------------------------------------------------------------------------
(* The ledger *)

(* Held and reserved instruments. *)
Held(s) == {k \in Key : s.positions[k] # None}
Buying(s) == {k \in Key : s.pending[k] # None /\ s.pending[k].side = "buy"}
Occupied(s) == Held(s) \cup Buying(s)

Equity(s) ==
    s.cash + MapThenSumSet(LAMBDA k : s.positions[k].quantity * s.positions[k].bid, Held(s))

(* _save: the session, and the fills that are new since the state in memory. *)
NewFills(s) ==
    LET old == IF ledger.id = s.id THEN ledger.count ELSE 0
    IN  {s.fills[i] : i \in old + 1..s.count}

SaveOf(s) == [session |-> s, rows |-> disk.rows \cup NewFills(s)]

(* A fill is inserted, and its key must be new; a save that fails leaves the
   file as it was. *)
Insertable(s) ==
    \A f \in NewFills(s) : ~\E r \in disk.rows : r.session = f.session /\ r.number = f.number

Save(s) == Insertable(s) /\ disk' = SaveOf(s)

Commit(s) == ledger' = s /\ Save(s)

(* cancel_pending: nothing to cancel is nothing to save; what is cancelled is
   gone from memory even if it cannot be saved. *)
Discarded == [ledger EXCEPT !.pending = NoIntents]
CancelPending ==
    IF ledger.pending = NoIntents THEN UNCHANGED <<ledger, disk>> ELSE Commit(Discarded)
DiscardIntents == CancelPending \/ (ledger' = Discarded /\ UNCHANGED disk)

Fill(s, k, side, quantity, price, at, pnl) ==
    [session |-> s.id, number |-> s.count + 1, key |-> k, side |-> side, quantity |-> quantity,
     price |-> price, at |-> at, pnl |-> pnl]

(* The money that a fill moves. *)
Flow(f) == IF f.side = "buy" THEN -(f.quantity * f.price) ELSE f.quantity * f.price

Filled(s, f) ==
    [s EXCEPT !.count = @ + 1, !.fills = Append(@, f), !.realized = @ + f.pnl, !.cash = @ + Flow(f)]

(* _fill *)
Buy(s, k, q) ==
    LET price == q.bid + Slip
        quantity == TradeCash \div price
    IN  IF s.positions[k] # None \/ s.cash < TradeCash \/ quantity = 0 THEN s
        ELSE [Filled(s, Fill(s, k, "buy", quantity, price, q.at, 0)) EXCEPT
                !.positions[k] = [quantity |-> quantity, cost |-> quantity * price, bid |-> q.bid,
                                  opened |-> q.at, high |-> q.bid]]

Sell(s, k, q) ==
    LET p == s.positions[k]
        price == q.bid - Slip
    IN  IF p = None THEN s
        ELSE [Filled(s, Fill(s, k, "sell", p.quantity, price, q.at, p.quantity * price - p.cost)) EXCEPT
                !.positions[k] = None, !.sold[k] = q.at]

Marked(s, k, q) ==
    IF s.positions[k] = None THEN s
    ELSE [s EXCEPT !.positions[k].bid = q.bid, !.positions[k].high = Max({@, q.bid})]

Outdated(s, k, q) == q.at <= s.quoted[k]

Fillable(intent, d) ==
    /\ intent # None /\ d.status = "passed"
    /\ intent.side = "sell" \/ d.buyAllowed
    /\ intent.signal < d.at /\ clock - intent.signal <= IntentLife

(* The pass of consume over one decision. *)
Consumed(s, k, d) ==
    LET seen == Marked([s EXCEPT !.quoted[k] = d.at, !.pending[k] = None], k, d)
        intent == s.pending[k]
        done == IF ~Fillable(intent, d) THEN seen
                ELSE IF intent.side = "buy" THEN Buy(seen, k, d) ELSE Sell(seen, k, d)
        side == IF d.action = "buy" /\ d.buyAllowed /\ done.positions[k] = None THEN "buy"
                ELSE IF d.action = "exit" /\ done.positions[k] # None THEN "sell" ELSE None
    IN  IF d.status = "blocked" THEN [s EXCEPT !.pending[k] = None]
        ELSE IF Outdated(s, k, d) THEN s
        ELSE IF d.status = "passed" /\ side # None /\ (side = "sell" \/ done.cash >= TradeCash)
             THEN [done EXCEPT !.pending[k] = [side |-> side, signal |-> d.at, run |-> run.number]]
             ELSE done

Valued(s) ==
    LET peak == Max({s.peak, Equity(s)})
    IN  [s EXCEPT !.peak = peak, !.drawdown = Max({@, (100 * (peak - Equity(s))) \div peak})]

-----------------------------------------------------------------------------
(* The adaptive rule *)

(* adaptive_decision for a holding: exits do not wait for the warm-up. *)
Leaves(p, o) ==
    LET proceeds == p.quantity * (o.bid - Slip)
        high == Max({p.high, o.bid})
    IN  \/ 100 * (proceeds - p.cost) <= -(StopPct * p.cost)
        \/ 100 * (proceeds - p.cost) >= TargetPct * p.cost
        \/ 100 * (high - o.bid) >= TrailPct * high
        \/ clock - p.opened >= MaxHold
        \/ o.status = "passed" /\ o.trend = "down"

CoolingDown(s, k) == s.sold[k] # None /\ clock - s.sold[k] < Cooldown

Enters(s, k, o) ==
    /\ o.status = "passed" /\ o.trend = "up"
    /\ ~CoolingDown(s, k)
    /\ s.pending[k] = None \/ s.pending[k].side = "buy"

Decision(s, k, o) ==
    LET action == IF s.positions[k] # None THEN (IF Leaves(s.positions[k], o) THEN "exit" ELSE "hold")
                  ELSE IF Enters(s, k, o) THEN "buy" ELSE "hold"
    IN  [key |-> k, at |-> o.at, bid |-> o.bid, action |-> action, buyAllowed |-> action = "buy",
         status |-> IF o.status # "blocked" /\ (action = "exit" \/ s.positions[k] # None) THEN "passed" ELSE o.status]

Reserved(s, taken, k) == (Occupied(s) \cup taken) \ {k}

CostOf(s, k) == IF s.positions[k] = None THEN TradeCash ELSE s.positions[k].cost

(* limit_entries for one decision after those that were allowed before it. *)
Allowed(s, taken, k) ==
    LET others == Reserved(s, taken, k) IN
    /\ s.drawdown < DrawdownPct
    /\ Cardinality(others) < run.limit
    /\ k \in Family => others \cap Family = {}
    /\ 100 * (MapThenSumSet(LAMBDA j : CostOf(s, j), others) + TradeCash) <= ExposurePct * InitialCash

Withdrawn(d) == [d EXCEPT !.action = IF @ = "buy" THEN "hold" ELSE @, !.buyAllowed = FALSE]

Wants(d) == d.action = "buy" /\ d.buyAllowed

(* limit_entries and pause_entries over the batch, in its order; an entry
   that was let through counts for those behind it. *)
Limited(s, batch) ==
    LET taken(before) == {d.key : d \in {x \in Range(before) : Wants(x)}}
        lets(before, d) == Wants(d) => ~run.paused /\ Allowed(s, taken(before), d.key)
        limited[i \in 0..Len(batch)] ==
            IF i = 0 THEN <<>>
            ELSE LET before == limited[i - 1]
                     d == batch[i]
                 IN  Append(before, IF lets(before, d) THEN d ELSE Withdrawn(d))
    IN  limited[Len(batch)]

ConsumedAll(s, batch) ==
    LET after[i \in 0..Len(batch)] ==
            IF i = 0 THEN s ELSE Consumed(after[i - 1], batch[i].key, batch[i])
    IN  after[Len(batch)]

-----------------------------------------------------------------------------
(* The agent's run *)

Up == ledger # None
Working(m) == run.worker[m] = "asking"
Running(limit, paused) ==
    [Stopped EXCEPT !.on = TRUE, !.limit = limit, !.paused = paused, !.number = run.number + 1]

(* start_paper; the run does not begin if the second save fails. *)
Start ==
    /\ Up /\ ~run.on /\ run.number < MaxRuns /\ ledger.id < MaxSessions
    /\ Commit(Session(ledger.id + 1))
    /\ \E limit \in Limit, paused, begins \in BOOLEAN :
          run' = IF begins THEN Running(limit, paused) ELSE run
    /\ UNCHANGED <<clock, traded>>

(* Mutant: intents of the interrupted run are kept. *)
ResumeKeeping ==
    /\ Up /\ ~run.on /\ run.number < MaxRuns
    /\ \E limit \in Limit, paused \in BOOLEAN :
          run' = Running(limit, paused)
    /\ UNCHANGED <<ledger, disk, clock, traded>>

(* resume_paper; what waited for its fill before is never filled.  A
   cancellation that cannot be saved, or a start that is refused (no
   connection, a run still ending), is the end of it. *)
Resume ==
    /\ Up /\ ~run.on /\ run.number < MaxRuns
    /\ \/ CancelPending /\ \E limit \in Limit, paused \in BOOLEAN : run' = Running(limit, paused)
       \/ DiscardIntents /\ UNCHANGED run
    /\ UNCHANGED <<clock, traded>>

(* cycle asks for the quotes of both markets; it ends when both workers have. *)
Cycle ==
    /\ Up /\ run.on /\ \A m \in DOMAIN Market : ~Working(m)
    /\ run' = [run EXCEPT !.worker = [m \in DOMAIN Market |-> "asking"]]
    /\ UNCHANGED <<ledger, disk, clock, traded>>

Observation ==
    {[at |-> clock - r.lag, bid |-> r.bid, trend |-> r.trend, status |-> r.status] :
        r \in {x \in Reading : x.lag <= clock}}

(* The order in which a worker goes through its quotes. *)
Listed == [m \in DOMAIN Market |-> SetToSeq(Market[m])]

(* A worker's quotes arrive: decisions, limits, pause, consume and save; if
   the save fails the error ends the run. *)
WorkerConsumes(m) ==
    /\ Up /\ run.on /\ Working(m)
    /\ \/ \E o \in [Market[m] -> Observation] :
             LET order == Listed[m]
                 batch == Limited(ledger, [i \in DOMAIN order |-> Decision(ledger, order[i], o[order[i]])])
                 s == Valued(ConsumedAll(ledger, batch))
                 new == {[key |-> f.key, side |-> f.side, at |-> f.at, session |-> f.session,
                          signal |-> ledger.pending[f.key].signal, from |-> ledger.pending[f.key].run,
                          in |-> run.number] : f \in {s.fills[i] : i \in ledger.count + 1..s.count}}
             IN  /\ Commit(s) /\ traded' = traded \cup new
                 /\ run' = [run EXCEPT !.worker[m] = "idle"]
       \/ DiscardIntents /\ run' = [Stopped EXCEPT !.number = run.number] /\ UNCHANGED traded
    /\ UNCHANGED clock

(* A worker that fails or is out of time; the other one goes on. *)
WorkerFails(m) ==
    /\ Up /\ run.on /\ Working(m)
    /\ run' = [run EXCEPT !.worker[m] = "idle"]
    /\ UNCHANGED <<ledger, disk, clock, traded>>

(* stop, a disconnect or an interrupted task. *)
Stop ==
    /\ Up /\ run.on
    /\ DiscardIntents
    /\ run' = [Stopped EXCEPT !.number = run.number]
    /\ UNCHANGED <<clock, traded>>

Crash ==
    /\ Up /\ ledger' = None /\ run' = [Stopped EXCEPT !.number = run.number]
    /\ UNCHANGED <<disk, clock, traded>>

(* A new process: PaperLedger.__init__ takes the latest session, and no run is on. *)
Reopen ==
    /\ ~Up /\ ledger' = disk.session /\ run' = [Stopped EXCEPT !.number = run.number]
    /\ UNCHANGED <<disk, clock, traded>>

Tick == clock < MaxTime /\ clock' = clock + 1 /\ UNCHANGED <<ledger, disk, run, traded>>

Next ==
    \/ Start \/ Resume \/ Cycle \/ Stop \/ Crash \/ Reopen \/ Tick
    \/ \E m \in DOMAIN Market : WorkerConsumes(m) \/ WorkerFails(m)

Spec == Init /\ [][Next]_vars

-----------------------------------------------------------------------------
(* Properties *)

(* A fill follows its signal: it is priced by a later quote, it belongs to
   the run whose rules gave the signal, and the fills of an instrument come
   in the order of their quotes, buy and sell in turn, over both workers,
   stops, crashes and resumed sessions (paper/ledger.py consume). *)
FillsFollowSignals ==
    \A f \in traded :
        /\ f.signal < f.at /\ f.from = f.in
        /\ \A g \in traded :
              g.key = f.key /\ g.session = f.session /\ g # f =>
                  f.at # g.at /\ (f.at < g.at =>
                      f.side # g.side \/ \E h \in traded : /\ h.key = f.key /\ h.session = f.session
                                                           /\ f.at < h.at /\ h.at < g.at)

(* The journal is complete: whatever saves failed and whenever the process
   died, the saved session's fills are exactly its rows; added up in their
   order they give its cash, which no fill overdrew, and its profit or loss
   (paper/journal.py read_journal). *)
JournalComplete ==
    LET s == disk.session
        rows == {r \in disk.rows : r.session = s.id}
        row(n) == CHOOSE r \in rows : r.number = n
        balance[n \in 0..s.count] == IF n = 0 THEN InitialCash ELSE balance[n - 1] + Flow(row(n))
        gain[n \in 0..s.count] == IF n = 0 THEN 0 ELSE gain[n - 1] + row(n).pnl
    IN  /\ {r.number : r \in rows} = 1..s.count /\ Cardinality(rows) = s.count
        /\ \A n \in 0..s.count : balance[n] >= 0
        /\ s.cash = balance[s.count] /\ s.realized = gain[s.count]

(* The two markets together stay within one set of limits: an entry is only
   taken when everything held or waiting, of either market, leaves room for
   it (strategy/paper.py limit_entries). *)
EntersWithinLimits ==
    Up /\ ledger' # None /\ run.on /\ run'.on =>
        \A k \in Occupied(ledger') \ Occupied(ledger) :
            /\ Cardinality(Occupied(ledger')) <= run.limit
            /\ k \in Family => Occupied(ledger') \cap Family = {k}
            /\ ~run.paused

EntriesWithinLimits == [][EntersWithinLimits]_vars

=============================================================================
