--------------------------- MODULE PortfolioReplay ---------------------------
(***************************************************************************)
(* The mixed portfolio: the allocation of plan                             *)
(* (strategy/mixed_portfolio.py) and the causal replay over it             *)
(* (research/portfolio_replay.py).  One frame of the replay is one step:   *)
(* settle, mark, latch, trade the targets of the frame before, plan anew.  *)
(*                                                                         *)
(* Money and quantities are integers, weights are in thousandths, and      *)
(* divisions round down.  A frame that the code rejects ends a replay and  *)
(* is not offered; a fee is charged in basis points.                       *)
(***************************************************************************)
EXTENDS Integers, Sequences, FiniteSets, SequencesExt

CONSTANTS
    Universe,       \* the symbols, in alphabetical order
    Sector,         \* the sector of each stock
    Policy,         \* AllocationPolicy
    Cash, LossLimit, MaxDelay, HalfSpread, FeeBps,
    Tape,           \* mid prices of all symbols at a time
    Theses,         \* the symbols with a valid thesis at a time
    Signals,        \* the stocks' scores, 0 if a screen or the risk excludes one, and the
                    \* fund that the regime qualifies with its score, or None
    Moment,         \* times of frames, in minutes, over all days
    DayMinutes,
    MaxFrames,
    None

Etf == {"TQQQ", "SQQQ"}
Symbols == {Universe[i] : i \in DOMAIN Universe}
Stock == Symbols \ Etf

PortfolioAssumption ==
    /\ \A f \in {"invested", "stock", "etf", "single", "sector", "leverage"} : Policy[f] \in 1..1000
    /\ Cash \in Nat /\ LossLimit \in Nat \ {0} /\ HalfSpread \in Nat /\ FeeBps \in 0..9999

VARIABLES
    book,       \* settled cash, sales to settle by day, holdings
    pending,    \* the plan of the frame before
    guard,      \* the day, its peak and its latch, the last value seen
    now,
    frames,
    seen        \* history: the highest value since the last one of the day before,
                \* whether the day fell by the limit from it, and a purchase after that

vars == <<book, pending, guard, now, frames, seen>>

Day(t) == t \div DayMinutes
Sum3(f, S) == FoldSet(LAMBDA s, n : n + f[s], 0, S)
Smaller(a, b) == IF a < b THEN a ELSE b
Larger(a, b) == IF a > b THEN a ELSE b

Init ==
    /\ book = [cash |-> Cash, unsettled |-> [d \in {} |-> 0], held |-> [s \in Symbols |-> 0],
               opened |-> [s \in Symbols |-> 0]]
    /\ pending = None
    /\ guard = [day |-> None, peak |-> Cash, latched |-> FALSE, last |-> Cash]
    /\ now = None /\ frames = 0
    /\ seen = [highest |-> Cash, fell |-> FALSE, breach |-> FALSE]

-----------------------------------------------------------------------------
(* plan *)

(* A holding whose thesis failed or whose horizon is over has to be left. *)
Horizon(s) == IF s \in Etf THEN Policy.etfDays ELSE Policy.stockDays
Leaving(b, valid, t) ==
    {s \in Symbols : b.held[s] > 0 /\ (s \notin valid \/ t - b.opened[s] >= Horizon(s) * DayMinutes)}

(* The scored candidates and the qualified fund; what must be left is not
   bought again in the same plan. *)
Scores(score, leaving) == [s \in Stock |-> IF s \in leaving THEN 0 ELSE score[s]]
FundScore(fund, leaving) == IF fund.symbol = None \/ fund.symbol \in leaving THEN 0 ELSE fund.score

Ranked(score) ==
    SetToSortSeq({i \in DOMAIN Universe : Universe[i] \in Stock /\ score[Universe[i]] > 0},
                 LAMBDA i, j : \/ score[Universe[i]] > score[Universe[j]]
                               \/ score[Universe[i]] = score[Universe[j]] /\ i < j)

(* Mutant: every stock has the sector's room to itself. *)
RoomEach(sectors, s) == Policy.sector

Room(sectors, s) == Larger(0, Policy.sector - sectors[Sector[s]])

(* The stocks' budget, shared by score; each limited alone and by sector. *)
StockWeights(score, budget) ==
    LET total == Sum3(score, Stock)
        Add(acc, i) ==
            LET s == Universe[i]
                w == Smaller(Smaller((budget * score[s]) \div total, Policy.single), Room(acc.sectors, s))
            IN  [weights |-> [acc.weights EXCEPT ![s] = w],
                 sectors |-> [acc.sectors EXCEPT ![Sector[s]] = @ + w]]
    IN  FoldLeft(Add, [weights |-> [s \in Symbols |-> 0],
                       sectors |-> [k \in {Sector[s] : s \in Stock} |-> 0]], Ranked(score)).weights

(* The average of the stocks' scores competes with the fund's score. *)
Weights(score, fund, fundScore) ==
    LET chosen == {s \in Stock : score[s] > 0}
        total == Sum3(score, Stock)
        n == Larger(1, Cardinality(chosen))
        all == total + n * fundScore
        stockBudget == IF all = 0 THEN 0 ELSE Smaller(Policy.stock, (Policy.invested * total) \div all)
        etfBudget == IF all = 0 THEN 0 ELSE Smaller(Policy.etf, (Policy.invested * n * fundScore) \div all)
        stocks == StockWeights(score, stockBudget)
    IN  IF fundScore > 0 THEN [stocks EXCEPT ![fund.symbol] = etfBudget] ELSE stocks

Leverage(s) == IF s \in Etf THEN 3 ELSE 1
Gross(w) == Sum3([s \in Symbols |-> w[s] * Leverage(s)], Symbols)

(* Weights beyond the gross leverage are scaled down together. *)
Targets(w, capital) ==
    LET over == Larger(Gross(w), Policy.leverage)
    IN  [s \in Symbols |-> (capital * w[s] * Policy.leverage) \div (over * 1000)]

Distance(a, b) == IF a > b THEN a - b ELSE b - a

Planned(b, f, capital) ==
    LET leaving == Leaving(b, f.valid, f.at)
        fundScore == FundScore(f.signal.fund, leaving)
        targets == Targets(Weights(Scores(f.signal.score, leaving), f.signal.fund, fundScore), capital)
    IN  [at |-> f.at, targets |-> targets,
         review |-> {s \in Symbols :
                       /\ b.held[s] > 0 \/ targets[s] > 0
                       /\ \/ s \in leaving
                          \/ Distance(targets[s], b.held[s] * f.mid[s]) * 1000 >= capital * Policy.band}]

-----------------------------------------------------------------------------
(* replay *)

Value(b, mid) ==
    b.cash + Sum3(b.unsettled, DOMAIN b.unsettled)
      + Sum3([s \in Symbols |-> b.held[s] * mid[s]], Symbols)

Settled(b, day) ==
    LET ready == {d \in DOMAIN b.unsettled : d <= day} IN
    [b EXCEPT !.cash = @ + Sum3(b.unsettled, ready),
              !.unsettled = [d \in DOMAIN @ \ ready |-> b.unsettled[d]]]

(* Mutant: the first frame of a day starts from its own value. *)
MarkedAfresh(g, day, value) ==
    LET h == IF g.day = day THEN g
             ELSE [g EXCEPT !.day = day, !.peak = value, !.latched = FALSE]
        peak == Larger(h.peak, value)
    IN  [h EXCEPT !.peak = peak, !.latched = @ \/ peak - value >= LossLimit]

Latched(g, value) ==
    LET peak == Larger(g.peak, value)
    IN  [g EXCEPT !.peak = peak, !.latched = @ \/ peak - value >= LossLimit]

(* A new day goes on from the last value seen: "a gap cannot reset away the
   loss" (portfolio_replay.py:105). *)
Marked(g, day, value) ==
    Latched(IF g.day = day THEN g
            ELSE [g EXCEPT !.day = day, !.peak = Larger(g.last, value), !.latched = FALSE], value)

Needed(b) == {s \in Symbols : b.held[s] > 0 \/ (pending # None /\ pending.targets[s] > 0)}

(* Targets are traded on quotes observed after they were made, and not late. *)
Tradable(f) == pending # None /\ f.at - pending.at <= MaxDelay /\ f.causal

(* Mutant: the proceeds of a sale can be spent at once. *)
ProceedsSettled(b, day, proceeds) == [b EXCEPT !.cash = @ + proceeds]

(* The proceeds of a sale settle on the next trading day. *)
Proceeds(b, day, proceeds) ==
    [b EXCEPT !.unsettled = [d \in DOMAIN @ \cup {day + 1} |->
        (IF d \in DOMAIN b.unsettled THEN b.unsettled[d] ELSE 0) + (IF d = day + 1 THEN proceeds ELSE 0)]]

Fee(notional) == (notional * FeeBps) \div 10000

Sell(b, f, s) ==
    LET target == pending.targets[s]
        price == f.mid[s] - HalfSpread
        excess == b.held[s] * f.mid[s] - target
        shares == IF target = 0 THEN b.held[s] ELSE Smaller(b.held[s], excess \div price)
    IN  IF excess <= 0 \/ shares = 0 THEN b
        ELSE [Proceeds(b, Day(f.at), shares * price - Fee(shares * price)) EXCEPT !.held[s] = @ - shares]

Buy(b, f, s) ==
    LET price == f.mid[s] + HalfSpread
        missing == pending.targets[s] - b.held[s] * f.mid[s]
        shares == Smaller(missing, (b.cash * 10000) \div (10000 + FeeBps)) \div price
    IN  IF missing <= 0 \/ shares <= 0 THEN b
        ELSE [b EXCEPT !.cash = @ - shares * price - Fee(shares * price), !.held[s] = @ + shares,
                       !.opened[s] = IF b.held[s] = 0 THEN f.at ELSE @]

Reviewed(s) == s \in pending.review

(* One symbol of one of the two rounds; the latch is looked at after each fill. *)
Traded(st, f, side, s) ==
    LET b == IF ~Reviewed(s) THEN st.book
             ELSE IF side = "sell" THEN Sell(st.book, f, s)
             ELSE IF st.guard.latched \/ s \notin f.valid THEN st.book
             ELSE Buy(st.book, f, s)
    IN  IF b = st.book THEN st ELSE [book |-> b, guard |-> Latched(st.guard, Value(b, f.mid))]

(* Every sale before any purchase, each in the order of the symbols. *)
Executed(st, f) ==
    LET orders == SelectSeq(Universe, LAMBDA s : s \in Needed(st.book))
        round(start, side) == FoldLeft(LAMBDA acc, s : Traded(acc, f, side, s), start, orders)
    IN  IF Tradable(f) THEN round(round(st, "sell"), "buy") ELSE st

Frame ==
    [at : {t \in Moment : now = None \/ t > now}, mid : Tape, valid : Theses, causal : BOOLEAN,
     signal : Signals]

(* History: what the values of the frames say of the day so far. *)
Noted(f, before, value, after) ==
    LET today == guard.day = Day(f.at)
        top == Larger(IF today THEN seen.highest ELSE guard.last, before)
        fell == (today /\ seen.fell) \/ top - before >= LossLimit
        bought == \E s \in Symbols : after.held[s] > book.held[s]
    IN  [highest |-> Larger(top, value), fell |-> fell \/ Larger(top, value) - value >= LossLimit,
         breach |-> seen.breach \/ (fell /\ bought)]

(* A pass over one frame; a portfolio without value ends the replay. *)
Pass(f) ==
    LET settled == Settled(book, Day(f.at))
        before == Value(settled, f.mid)
        marked == Marked(guard, Day(f.at), before)
        done == Executed([book |-> settled, guard |-> marked], f)
        value == Value(done.book, f.mid)
    IN  /\ value > 0
        /\ book' = done.book
        /\ guard' = [done.guard EXCEPT !.last = value]
        /\ pending' = Planned(done.book, f, value)
        /\ now' = f.at
        /\ seen' = Noted(f, before, value, done.book)

Step == frames < MaxFrames /\ frames' = frames + 1 /\ \E f \in Frame : Pass(f)

Next == Step

Spec == Init /\ [][Next]_vars

-----------------------------------------------------------------------------
(* Properties *)

(* After a loss nothing is bought: neither within the day nor on the next
   day after a gap, whatever was sold, settled or marked in between
   (portfolio_replay.py replay, the day's peak and latch). *)
NoPurchaseAfterLoss == ~seen.breach

(* Sales pay for nothing on their own day: over any number of frames the
   cash of a day is what had settled by its start, less what was bought. *)
UnsettledIsNotSpent ==
    [][/\ book'.cash >= 0
       /\ book'.cash <= book.cash
            + Sum3(book.unsettled, {d \in DOMAIN book.unsettled : d <= Day(now')})
       /\ \A d \in DOMAIN book'.unsettled : d > Day(now')]_vars

(* However scores, sectors and the fund combine, a plan stays inside every
   limit of its policy at once (mixed_portfolio.py plan). *)
PlanWithinPolicy ==
    pending # None =>
        LET capital == guard.last
            t == pending.targets
            sector(k) == Sum3(t, {s \in Stock : Sector[s] = k})
        IN  /\ \A s \in Stock : t[s] * 1000 <= capital * Policy.single
            /\ \A s \in Stock : sector(Sector[s]) * 1000 <= capital * Policy.sector
            /\ Sum3(t, Stock) * 1000 <= capital * Policy.stock
            /\ Sum3(t, Etf \cap Symbols) * 1000 <= capital * Policy.etf
            /\ Sum3(t, Symbols) * 1000 <= capital * Policy.invested
            /\ Gross(t) * 1000 <= capital * Policy.leverage

=============================================================================
