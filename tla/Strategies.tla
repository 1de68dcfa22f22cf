------------------------------ MODULE Strategies ------------------------------
(***************************************************************************)
(* The strategy rules (strategy/core.py) over one stream of completed      *)
(* bars.  A bar is given to every rule in one step; the ensemble votes     *)
(* over the signals of its components, which see the same bars.  Returns   *)
(* are compared in percent by cross multiplication; minutes count from     *)
(* the session's opening.  Confidence and reasons are left out.            *)
(***************************************************************************)
EXTENDS Integers, Sequences, SequencesExt, FiniteSetsExt

CONSTANTS
    Config,         \* StrategyConfig
    Shape,          \* opening and closing prices of a bar
    Minute, Days, FirstHalf, CloseStart, SessionEnd,
    Hurdle(_),      \* the direction of a full window against its cost and noise hurdle
    MaxBars,
    None

(* StrategyConfig.validate *)
StrategyAssumption ==
    /\ Config.fast \in Nat \ {0} /\ Config.fast < Config.slow
    /\ Config.momentum \in Nat \ {0} /\ Config.warmup >= Config.slow + 2
    /\ 0 < Config.short /\ Config.short < Config.medium /\ Config.medium < Config.long
    /\ Config.trend > 0 /\ Config.close > 0 /\ Config.buffer >= 0
    /\ Config.votes \in 1..4

VARIABLES
    memory,     \* what the rules remember
    signal,     \* each rule's last signal
    bars,       \* history: the bars since the last full reset
    since       \* history: how many of them came before the last intraday reset

vars == <<memory, signal, bars, since>>

Rules == {"momentum", "trend", "costAware", "close", "firstHalf", "opening", "ensemble"}

Blank ==
    [window |-> <<>>,                                   \* momentum and trend
     tight |-> <<>>, cadence |-> None,                  \* cost aware
     closeDay |-> None, sessionOpen |-> None,
     day |-> None, previous |-> None, first |-> None, mark |-> None,
     rangeDay |-> None, high |-> None, low |-> None]

Init ==
    /\ memory = Blank /\ signal = [r \in Rules |-> "flat"]
    /\ bars = <<>> /\ since = 0

-----------------------------------------------------------------------------
(* Rules on the last closes *)

Larger(a, b) == IF a > b THEN a ELSE b
Smaller(a, b) == IF a < b THEN a ELSE b
Recent(seq, n) == SubSeq(seq, Larger(1, Len(seq) - n + 1), Len(seq))
Direction(up, down) == IF up THEN "bullish" ELSE IF down THEN "bearish" ELSE "flat"
Back(window, n) == window[Len(window) - n].close

(* ema, as a fraction: with alpha = 2 / (period + 1). *)
Ema(window, period) ==
    FoldLeft(LAMBDA r, b : [num |-> 2 * b.close * r.den + (period - 1) * r.num, den |-> r.den * (period + 1)],
             [num |-> Head(window).close, den |-> 1], Tail(window))

(* MomentumStrategy.on_bar *)
Momentum(window) ==
    LET recent == Recent(window, 3 * Config.slow)
        fast == Ema(recent, Config.fast)
        slow == Ema(recent, Config.slow)
        apart == 100 * (fast.num * slow.den - slow.num * fast.den)
        hurdle == Config.trend * slow.num * fast.den
        move == Back(window, 0) - Back(window, Config.momentum)
    IN  IF Len(window) < Larger(Config.warmup, Config.momentum + 1) THEN "flat"
        ELSE Direction(apart >= hurdle /\ move > 0, apart <= -hurdle /\ move < 0)

(* MultiHorizonTrendStrategy.on_bar *)
Trend(window) ==
    LET horizons == {Config.short, Config.medium, Config.long}
        gain(h) == 100 * (Back(window, 0) - Back(window, h))
        hurdle(h) == Config.trend * Back(window, h)
    IN  IF Len(window) < Larger(Config.warmup, Config.long + 1) THEN "flat"
        ELSE Direction(\A h \in horizons : gain(h) >= hurdle(h), \A h \in horizons : gain(h) <= -hurdle(h))

(* CostAwareTrendStrategy.on_bar: a new day, or a gap of more than one and a
   half times the first distance of the window, starts the window again. *)
Needed == Larger(Config.warmup, Config.long + 1)
Time(b) == b.day * 1440 + b.minute

(* Mutant: only a new day starts the window again. *)
BrokenByDay(m, b) == m.tight # <<>> /\ Last(m.tight).day # b.day

Broken(m, b) ==
    /\ m.tight # <<>>
    /\ \/ Last(m.tight).day # b.day
       \/ m.cadence # None /\ 2 * (Time(b) - Time(Last(m.tight))) > 3 * m.cadence

CostAware(m, b) ==
    IF m.tight = <<>> \/ Broken(m, b)
    THEN [m EXCEPT !.tight = <<b>>, !.cadence = IF m.tight = <<>> THEN @ ELSE None]
    ELSE [m EXCEPT !.tight = Recent(Append(@, b), Needed),
                   !.cadence = IF @ = None THEN Time(b) - Time(Last(m.tight)) ELSE @]

CostAwareSignal(m) ==
    IF Len(m.tight) < Needed THEN "flat" ELSE Hurdle([i \in DOMAIN m.tight |-> m.tight[i].close])

-----------------------------------------------------------------------------
(* Rules on the session *)

Moved(from, to, percent) ==
    Direction(100 * (to - from) >= percent * from, 100 * (to - from) <= -(percent * from))

Closing(b) == CloseStart <= b.minute /\ b.minute < SessionEnd

(* CloseMomentumStrategy.on_bar *)
CloseRule(m, b) ==
    IF m.closeDay = b.day THEN m ELSE [m EXCEPT !.closeDay = b.day, !.sessionOpen = b.open]
CloseSignal(m, b) == IF Closing(b) THEN Moved(m.sessionOpen, b.close, Config.close) ELSE "flat"

(* Mutant: the first half-hour of the day before is kept. *)
FirstHalfKept(m, b) ==
    [m EXCEPT !.day = b.day,
              !.previous = IF m.day \notin {None, b.day} THEN m.mark ELSE @,
              !.first = IF b.minute < FirstHalf THEN b.close ELSE @,
              !.mark = b.close]

(* FirstHalfHourMomentumStrategy.on_bar *)
FirstHalfRule(m, b) ==
    [m EXCEPT !.day = b.day,
              !.previous = IF m.day \notin {None, b.day} THEN m.mark ELSE @,
              !.first = IF b.minute < FirstHalf THEN b.close ELSE IF m.day = b.day THEN @ ELSE None,
              !.mark = b.close]

FirstHalfSignal(m, b) ==
    IF m.previous = None \/ m.first = None \/ ~Closing(b) THEN "flat"
    ELSE Moved(m.previous, m.first, Config.close)

(* OpeningRangeBreakoutStrategy.on_bar *)
OpeningRule(m, b) ==
    LET d == IF m.rangeDay = b.day THEN m ELSE [m EXCEPT !.rangeDay = b.day, !.high = None, !.low = None]
    IN  IF b.minute >= Config.opening THEN d
        ELSE [d EXCEPT !.high = IF @ = None THEN b.high ELSE Larger(@, b.high),
                       !.low = IF @ = None THEN b.low ELSE Smaller(@, b.low)]
OpeningSignal(m, b) ==
    IF b.minute < Config.opening \/ m.high = None \/ b.minute >= SessionEnd THEN "flat"
    ELSE Direction(100 * b.close > m.high * (100 + Config.buffer), 100 * b.close < m.low * (100 - Config.buffer))

(* ConservativeEnsembleStrategy.on_bar *)
Votes(s, regime) == Quantify({"momentum", "trend", "firstHalf", "opening"}, LAMBDA r : s[r] = regime)
Ensemble(s) ==
    LET up == Votes(s, "bullish")
        down == Votes(s, "bearish")
    IN  Direction(up >= Config.votes /\ up > down, down >= Config.votes /\ down > up)

-----------------------------------------------------------------------------
(* One bar for every rule; bars are chronological, a rule that is given an
   older one raises and ends the replay. *)

Bar == {[day |-> d, minute |-> t, open |-> s.open, close |-> s.close,
         high |-> Larger(s.open, s.close), low |-> Smaller(s.open, s.close)] :
           d \in 1..Days, t \in Minute, s \in Shape}

OnBar ==
    /\ Len(bars) < MaxBars
    /\ \E b \in Bar :
          LET m == OpeningRule(FirstHalfRule(CloseRule(CostAware(
                     [memory EXCEPT !.window = Append(@, b)], b), b), b), b)
              s == [r \in Rules |->
                      CASE r = "momentum" -> Momentum(m.window)
                        [] r = "trend" -> Trend(m.window)
                        [] r = "costAware" -> CostAwareSignal(m)
                        [] r = "close" -> CloseSignal(m, b)
                        [] r = "firstHalf" -> FirstHalfSignal(m, b)
                        [] r = "opening" -> OpeningSignal(m, b)
                        [] OTHER -> "flat"]
          IN  /\ bars # <<>> => Time(b) > Time(Last(bars))
              /\ memory' = m
              /\ signal' = [s EXCEPT !["ensemble"] = Ensemble(s)]
              /\ bars' = Append(bars, b)
    /\ UNCHANGED since

(* reset_intraday_strategy: everything but the rule that compares sessions. *)
ResetIntraday ==
    /\ memory' = [Blank EXCEPT !.day = memory.day, !.previous = memory.previous,
                               !.first = memory.first, !.mark = memory.mark]
    /\ signal' = [r \in Rules |-> IF r \in {"firstHalf", "ensemble"} THEN signal[r] ELSE "flat"]
    /\ since' = Len(bars)
    /\ UNCHANGED bars

(* reset *)
Reset ==
    /\ memory' = Blank /\ signal' = [r \in Rules |-> "flat"]
    /\ bars' = <<>> /\ since' = 0

Next == OnBar \/ ResetIntraday \/ Reset

Spec == Init /\ [][Next]_vars

-----------------------------------------------------------------------------
(* Properties *)

Today == Last(bars).day
Before == {i \in DOMAIN bars : bars[i].day # Today}
Fresh == {i \in DOMAIN bars : bars[i].day = Today /\ i > since}
Ranging == {i \in Fresh : bars[i].minute < Config.opening}
Halves == {i \in DOMAIN bars : bars[i].day = Today /\ bars[i].minute < FirstHalf}

(* What the session rules remember is what the stream says of the present
   day, over days without an opening bar, gaps and resets: the day's opening
   price and opening range come from its bars since the last reset, the prior
   close and the first half-hour survive an intraday reset and nothing else
   of an earlier day does (strategy/core.py reset_intraday_strategy). *)
SessionMemory ==
    bars # <<>> =>
        /\ Fresh # {} =>
             /\ memory.sessionOpen = bars[Min(Fresh)].open
             /\ memory.high = IF Ranging = {} THEN None ELSE Max({bars[i].high : i \in Ranging})
             /\ memory.low = IF Ranging = {} THEN None ELSE Min({bars[i].low : i \in Ranging})
        /\ memory.previous = IF Before = {} THEN None ELSE bars[Max(Before)].close
        /\ memory.first = IF Halves = {} THEN None ELSE bars[Max(Halves)].close

(* A cost-aware signal rests on one unbroken run of bars: so many in a row
   of one day, since the last reset, with no bar skipped between them by
   more than half of the run's first distance. *)
TrendIsUnbroken ==
    signal["costAware"] # "flat" =>
        \E i \in since + 1..Len(bars) :
            LET run == SubSeq(bars, i, Len(bars))
                step(k) == Time(run[k + 1]) - Time(run[k])
            IN  /\ Len(run) >= Needed
                /\ \A k \in 1..Len(run) - 1 : run[k].day = Today /\ 2 * step(k) <= 3 * step(1)

=============================================================================
