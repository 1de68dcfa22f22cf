--------------------------- MODULE CandidateRules ---------------------------
(***************************************************************************)
(* The rules a candidate contract fixes (execution/candidate_execution.py) *)
(* and the decision policy (domain/policy.py): sizing, prices, pauses,     *)
(* windows and targets, shared by every simulation.                        *)
(*                                                                         *)
(* Money and quantities are integers: a unit of quantity is a whole share, *)
(* or the smallest fraction an order may have.  Fractions are in percent,  *)
(* costs in basis points, times in minutes after the session's opening.    *)
(***************************************************************************)
EXTENDS Integers, FiniteSets, FiniteSetsExt

CONSTANTS Contract, None

(* CandidateExecutionContract.validate *)
Valid(k) ==
    /\ k.notional \in 1..k.cash
    /\ {k.slip, k.spread, k.commission, k.latency, k.offset, k.widening} \subseteq Nat
    /\ {k.fillPct, k.participation} \subseteq 1..100
    /\ {k.riskPct, k.exposurePct, k.lossPct} \subseteq 1..100
    /\ k.stride \in 1..120
    /\ {k.stopPct, k.takePct, k.maxHold, k.maxEntries, k.maxLosses} \subseteq Nat \ {0}
    /\ {k.openGap, k.closeGap} \subseteq Nat /\ k.openGap + k.closeGap < k.session
    /\ {k.limit, k.gfd, k.t1, k.flat} \subseteq BOOLEAN
    /\ k.limit \/ k.gfd       \* ExecutionProfile.validate

ContractAssumption == Valid(Contract)

Least(a, b) == Min({a, b})
Most(a, b) == Max({a, b})

-----------------------------------------------------------------------------
(* Quantities and prices *)

(* fillable_quantity: part of the request, and of the volume if it is known. *)
Fillable(requested, volume) ==
    LET share == (requested * Contract.fillPct) \div 100
    IN  IF volume \in {None, 0} THEN share
        ELSE Least(share, (volume * Contract.participation) \div 100)

(* size_entry, with the volatility scale in percent. *)
SizeEntry(equity, settled, price, scale, volume) ==
    LET risk == (equity * Contract.riskPct) \div Contract.stopPct
        exposure == (equity * Contract.exposurePct) \div 100
        wanted == (Min({Contract.notional, risk, exposure}) * scale) \div 100
        budget == Most(0, Least(wanted, settled - Contract.commission))
        requested == budget \div price
    IN  [requested |-> requested, fillable |-> Fillable(requested, volume)]

(* effective_spread_bps *)
Spread(quoted, range) ==
    LET modelled == Contract.spread + (range * Contract.widening) \div 100
    IN  IF quoted = None THEN modelled ELSE Most(modelled, quoted)

(* execution_price: half the spread and the slippage on the worse side. *)
ExecutionPrice(reference, side, spread) ==
    LET impact == 2 * Contract.slip + spread
    IN  (reference * (20000 + (IF side = "buy" THEN impact ELSE -impact))) \div 20000

(* Whether a limit order priced off the modelled quote would not be filled. *)
BeyondLimit(reference, side, spread) ==
    LET price == ExecutionPrice(reference, side, spread)
        quote(sign) == (reference * (20000 + sign * spread)) \div 20000
        limit(sign) == (quote(sign) * (10000 + sign * Contract.offset)) \div 10000
    IN  /\ Contract.limit
        /\ IF side = "buy" THEN price > limit(1) ELSE price < limit(-1)

-----------------------------------------------------------------------------
(* Cadence and pauses *)

DecisionDue(count, last) == count - last >= Contract.stride

(* daily_loss_reached: the drawdown from the session's peak, against the
   equity it started with; balances below zero count as any loss. *)
DailyLossReached(start, peak, now) ==
    /\ start > 0
    /\ peak < 0 \/ now < 0 \/ Most(0, peak - now) * 100 >= start * Contract.lossPct

(* entry_block_reason *)
EntryBlocked(entries, losses, paused) ==
    paused \/ losses >= Contract.maxLosses \/ entries >= Contract.maxEntries

NextLosses(losses, pnl) == IF pnl < 0 THEN losses + 1 ELSE 0

-----------------------------------------------------------------------------
(* DecisionPolicy, for a session of Contract.session minutes *)

Window(minute, afterOpen, beforeClose) ==
    afterOpen <= minute /\ minute <= Contract.session - beforeClose

TradingWindow(minute) == Window(minute, Contract.openGap, Contract.closeGap)
ExitWindow(minute) == Window(minute, 0, 0)

Symbol == {"TQQQS", "SQQQS"}
Target(regime) ==
    CASE regime = "bullish" -> "TQQQS" [] regime = "bearish" -> "SQQQS" [] OTHER -> None

(* The stop or the profit target, if the position's mark is known. *)
PriceExit(entry, mark) ==
    /\ mark # None
    /\ \/ (mark - entry) * 100 <= -(entry * Contract.stopPct)
       \/ (mark - entry) * 100 >= entry * Contract.takePct

(* decide: the regime's symbol, or cash near the close and for every exit
   rule of the position held. *)
Decide(regime, minute, held, entry, mark, minutes) ==
    IF \/ minute >= Contract.session - Contract.closeGap
       \/ held /\ (PriceExit(entry, mark) \/ minutes >= Contract.maxHold)
    THEN None ELSE Target(regime)

=============================================================================
