---------------------------- MODULE MCCalculations ----------------------------
(***************************************************************************)
(* The calculating parts of the program, side by side: recovery deadlines, *)
(* the exchange's calendar, the strategy rules, the two executors, the     *)
(* replay of recorded observations and the replay of a portfolio.  They    *)
(* share no state.  A behaviour picks one part and runs it; the others     *)
(* stay where they begin.                                                  *)
(***************************************************************************)
EXTENDS LossRecovery, TLC

CONSTANT None

VARIABLES
    part,                               \* the part that runs
    asked,                              \* LossRecovery: the latest question
    year,                               \* MarketCalendar
    memory, signal, rated, since,       \* Strategies
    quoter, quoted, quotes,             \* QuoteExecutor
    replay, replayed, bars,             \* BarReplay
    session, observed, observations, run,   \* RuntimeReplay
    book, pending, guard, at, frames, seen  \* PortfolioReplay

strategyVars == <<memory, signal, rated, since>>
quoteVars == <<quoter, quoted, quotes>>
barVars == <<replay, replayed, bars>>
runtimeVars == <<session, observed, observations, run>>
portfolioVars == <<book, pending, guard, at, frames, seen>>
vars == <<part, asked, year, strategyVars, quoteVars, barVars, runtimeVars, portfolioVars>>

Parts == {"deadlines", "calendar", "strategies", "quotes", "bars", "runtime", "portfolio"}

-----------------------------------------------------------------------------
(* LossRecovery: every start, delay and unit of a calendar of twelve days in
   four months, asked one after the other. *)

MCMonthDays == <<4, 2, 4, 3, 4, 4, 3, 4>>
Starts == 0..(12 * DayHours - 1)
Delays == 1..2
Question(unit) == [start |-> 0, delay |-> 1, unit |-> unit]
Answer(q) == Deadline(q.start, q.delay, q.unit)

LaterStart == asked.start + 1 \in Starts /\ asked' = [asked EXCEPT !.start = @ + 1]
LongerDelay == asked.delay + 1 \in Delays /\ asked' = [asked EXCEPT !.delay = @ + 1]

(* MarketCalendar: every year of its rules' reach. *)
Calendar == INSTANCE MarketCalendar WITH FirstYear <- 1950, LastYear <- 2100

(* Strategies: two days of five bars, windows of one to three bars. *)
Lengths ==
    [fast |-> 1, slow |-> 2, momentum |-> 1, warmup |-> 4, short |-> 1, medium |-> 2, long |-> 3,
     trend |-> 2, close |-> 3, buffer |-> 1, votes |-> 2, opening |-> 10]
RisesThroughout(closes) == \A i \in 1..(Len(closes) - 1) : closes[i + 1] > closes[i]
Hurdle(closes) ==
    IF RisesThroughout(closes) THEN "bullish" ELSE IF closes[1] # closes[2] THEN "bearish" ELSE "flat"
Strategy == INSTANCE Strategies WITH
    Config <- Lengths, Shape <- {[open |-> 100, close |-> 104], [open |-> 104, close |-> 100]},
    Minute <- {0, 5, 10, 20, 25}, Days <- 2, FirstHalf <- 10, CloseStart <- 20, SessionEnd <- 30,
    MaxBars <- 5, bars <- rated
ASSUME Strategy!StrategyAssumption

(* The executors: one contract, half of an order filled at a time, two
   entries and two losses a session. *)
Terms(latency) ==
    [cash |-> 100000, notional |-> 60000, slip |-> 100, spread |-> 0, widening |-> 0,
     commission |-> 100, latency |-> latency, fillPct |-> 50, participation |-> 100, riskPct |-> 5,
     exposurePct |-> 80, lossPct |-> 4, stride |-> 1, stopPct |-> 5, takePct |-> 8, maxHold |-> 20,
     maxEntries |-> 2, maxLosses |-> 2, openGap |-> 5, closeGap |-> 5, session |-> 30, offset |-> 50,
     limit |-> FALSE, gfd |-> TRUE, t1 |-> TRUE, flat |-> TRUE]
QuoteTerms == Terms(1)
BarTerms == Terms(0)
Prices == {10000, 9000}
Quotes == INSTANCE QuoteExecutor WITH
    Contract <- QuoteTerms, Price <- Prices, Minute <- {5, 10, 20, 29}, Days <- 2,
    Scale <- {100}, MaxFrames <- 6, sim <- quoter, now <- quoted, frames <- quotes
Bars == INSTANCE BarReplay WITH
    Contract <- BarTerms, Price <- Prices, Minute <- {5, 10, 15, 25}, Days <- 2,
    Scale <- {100}, Volume <- {0, 2}, BarRange <- {0}, BarMinutes <- 5, MaxBars <- 5,
    sim <- replay, now <- replayed
Runtime == INSTANCE RuntimeReplay WITH
    Contract <- BarTerms, Price <- Prices, Minute <- {10, 20, 30}, Days <- 2, Scale <- {100},
    MaxFrames <- 4, Stream <- {1, 2}, sim <- session, now <- observed, frames <- observations
ASSUME Quotes!ContractAssumption /\ Bars!ContractAssumption /\ Runtime!ContractAssumption

(* PortfolioReplay: two stocks of a sector and a leveraged fund, four frames
   over two days. *)
Allocation ==
    [invested |-> 600, stock |-> 500, etf |-> 200, single |-> 300, sector |-> 400, leverage |-> 800,
     stockDays |-> 2, etfDays |-> 1, band |-> 30]
Traded == <<"AAA", "BBB", "TQQQ">>
Mids(a, b, t) == "AAA" :> a @@ "BBB" :> b @@ "TQQQ" :> t
Scores(a, b) == "AAA" :> a @@ "BBB" :> b
NoFund == [symbol |-> None, score |-> 0]
Bull == [symbol |-> "TQQQ", score |-> 1]
Opinions ==
    {[score |-> Scores(2, 1), fund |-> NoFund], [score |-> Scores(1, 0), fund |-> Bull],
     [score |-> Scores(1, 1), fund |-> Bull], [score |-> Scores(0, 0), fund |-> NoFund]}
Markets == {Mids(20, 20, 20), Mids(15, 20, 15), Mids(15, 15, 20)}
OneSector == [s \in {"AAA", "BBB"} |-> "tech"]
Portfolio == INSTANCE PortfolioReplay WITH
    Universe <- Traded, Sector <- OneSector, Policy <- Allocation,
    Cash <- 1000, LossLimit <- 60, MaxDelay <- 10, HalfSpread <- 1, FeeBps <- 10,
    Tape <- Markets, Theses <- {{"AAA", "BBB", "TQQQ"}, {"BBB", "TQQQ"}}, Signals <- Opinions,
    Moment <- {0, 5, 10, 35, 40}, DayMinutes <- 30, MaxFrames <- 4, now <- at
ASSUME Portfolio!PortfolioAssumption

-----------------------------------------------------------------------------
Init ==
    /\ part \in Parts
    /\ \E unit \in (IF part = "deadlines" THEN Unit \ {"manual"} ELSE {"hours"}) : asked = Question(unit)
    /\ Calendar!Init /\ Strategy!Init /\ Quotes!Init /\ Bars!Init
    /\ Runtime!ReplayInit /\ Portfolio!Init

Ask ==
    /\ part = "deadlines"
    /\ LaterStart \/ LongerDelay
    /\ UNCHANGED <<part, year, strategyVars, quoteVars, barVars, portfolioVars, runtimeVars>>
CalendarNext ==
    /\ part = "calendar" /\ Calendar!Next
    /\ UNCHANGED <<part, asked, strategyVars, quoteVars, barVars, portfolioVars, runtimeVars>>
StrategyNext ==
    /\ part = "strategies" /\ Strategy!Next
    /\ UNCHANGED <<part, asked, year, quoteVars, barVars, portfolioVars, runtimeVars>>
QuotesNext ==
    /\ part = "quotes" /\ Quotes!Next
    /\ UNCHANGED <<part, asked, year, strategyVars, barVars, portfolioVars, runtimeVars>>
BarsNext ==
    /\ part = "bars" /\ Bars!Next
    /\ UNCHANGED <<part, asked, year, strategyVars, quoteVars, portfolioVars, runtimeVars>>
PortfolioNext ==
    /\ part = "portfolio" /\ Portfolio!Next
    /\ UNCHANGED <<part, asked, year, strategyVars, quoteVars, barVars, runtimeVars>>
RuntimeNext ==
    /\ part = "runtime" /\ Runtime!ReplayNext
    /\ UNCHANGED <<part, asked, year, strategyVars, quoteVars, barVars, portfolioVars>>

Next ==
    \/ Ask \/ CalendarNext \/ StrategyNext \/ QuotesNext \/ BarsNext \/ RuntimeNext
    \/ PortfolioNext

Spec == Init /\ [][Next]_vars

-----------------------------------------------------------------------------
(* Deadlines *)

IsCalendar(q) == q.unit # "hours"
IsMonthly(q) == q.unit \in {"months", "years"}

(* The pause ends at the wall-clock time at which it began, whatever the
   clocks did meanwhile, except where that time was skipped; then an hour
   later (domain/loss_recovery.py:42). *)
KeepsWallClock ==
    IsCalendar(asked) =>
        LET from == Wall(asked.start) % DayHours
            to == Wall(Answer(asked)) % DayHours
        IN to = from \/ (Answer(asked) = DstStart /\ to = (from + 1) % DayHours)

(* A pause of months ends on the day of the month on which it began, or on
   the last day of a month that has no such day, so many months later. *)
KeepsDayOfMonth ==
    IsMonthly(asked) =>
        LET from == EasternDate(asked.start)
            to == EasternDate(Answer(asked))
            day(d) == d - FirstOf[MonthOf(d)] + 1
            months == asked.delay * (IF asked.unit = "years" THEN YearMonths ELSE 1)
        IN /\ MonthOf(to) = MonthOf(from) + months
           /\ \/ day(to) = day(from)
              \/ day(to) < day(from) /\ day(to) = MonthDays[MonthOf(to)]

(* The date and the time of day of a deadline are both the promised ones. *)
KeepsDateAndTime == part = "deadlines" => KeepsWallClock /\ KeepsDayOfMonth

(* From one hour to the next a loss stop's deadline does not move back, and
   by less than a day where month ends coincide; a longer delay ends later
   (domain/loss_recovery.py:36). *)
LaterStopsEndLater ==
    IF asked'.delay > asked.delay THEN Answer(asked') > Answer(asked)
    ELSE IF IsMonthly(asked) THEN Answer(asked') + DayHours > Answer(asked)
    ELSE Answer(asked') >= Answer(asked)

(* A loss stop ends at the promised date and time, and a later one later. *)
DeadlinesKeepTheirWord == [][KeepsDateAndTime /\ KeepsDateAndTime' /\ LaterStopsEndLater]_asked

-----------------------------------------------------------------------------
(* The calendar answers for every year as the exchange's rules do
   (domain/market_calendar.py:71). *)
CalendarHolds == part = "calendar" => Calendar!CalendarHolds

(* What a rule says depends on its own session's bars as its words promise:
   the memory of a day ends with it, and a trend is one of unbroken bars
   (strategy/core.py:339, strategy/core.py:242). *)
StrategiesRemember == part = "strategies" => Strategy!SessionMemory /\ Strategy!TrendIsUnbroken

(* Both executors account for every cent over partial fills, rotations and
   settlements, a quote executor's checkpoint can always be restored, and an
   exit once decided is carried out: by the quote executor for a paused
   session, by the bar replay for a scheduled cash exit.  A replay of several
   sessions puts their fills and equity together without loss or repetition
   (strategy/quote_simulation.py:91, strategy/shadow_checkpoint.py:107,
   research/bar_replay.py:106, research/runtime_replay.py:70). *)
ExecutorsKeepTrack ==
    /\ [](part = "quotes" => Quotes!MoneyAddsUp /\ Quotes!CheckpointRestores /\ Quotes!PausedLeaves)
    /\ [](part = "bars" => Bars!MoneyAddsUp)
    /\ Bars!ExitsAreFinished
    /\ [](part = "runtime" => Runtime!ReplayKept)

(* A plan stays within its policy, nothing is bought after the day's loss,
   and unsettled proceeds are not spent (strategy/mixed_portfolio.py:58,
   research/portfolio_replay.py:98). *)
PlansWithinMeans ==
    /\ [](part = "portfolio" => Portfolio!PlanWithinPolicy /\ Portfolio!NoPurchaseAfterLoss)
    /\ Portfolio!UnsettledIsNotSpent

=============================================================================
