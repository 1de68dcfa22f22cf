----------------------------- MODULE MCDailyRisk -----------------------------
(***************************************************************************)
(* The daily risk of the mixed engine and, beside it, the order records    *)
(* and risk history of the retired route.  They share no state.  A         *)
(* behaviour picks one part and runs it; the other stays as it begins.     *)
(***************************************************************************)
EXTENDS DailyRisk, TLC

VARIABLES
    part,                                   \* the part that runs
    intents, executions, orders, filled     \* LegacyOrders

orderVars == <<intents, executions, orders, filled>>
riskVars == <<part, vars, orderVars>>

-----------------------------------------------------------------------------
(* DailyRisk *)

CONSTANTS timed, manual     \* a scope with a delay of one day, one with manual recovery

MCScope == {timed, manual}
MCLimit == (timed :> 1) @@ (manual :> 2)
MCStrictLimit == (timed :> 1) @@ (manual :> 1)
MCPnl == -2..0

(* Days of DayTicks instants; no month ends, no change of the clocks. *)
CONSTANTS DayTicks, TimedDelay, TimedUnit
Calendar == INSTANCE LossRecovery WITH
    DayHours <- DayTicks, WeekDays <- 7, YearMonths <- 12, MonthDays <- <<31>>,
    DstStart <- 31 * DayTicks, DstEnd <- 31 * DayTicks

Dates == [t \in Time |-> Calendar!EasternDate(t)]
Deadlines == [t \in Time |-> Calendar!Deadline(t, TimedDelay, TimedUnit)]

MCDate(t) == Dates[t]
MCUntil(t, s) == IF s = manual THEN None ELSE Deadlines[t]

-----------------------------------------------------------------------------
(* LegacyOrders: orders of two shares, which may cost as much as one share at
   each of the prices; these divide by the holdings. *)
CONSTANT Ref

Legacy == INSTANCE LegacyOrders WITH
    Nobody <- None, Price <- {2, 3}, Size <- 2, Authorized <- 5, MaxFills <- 3
ASSUME Legacy!LegacyAssumption

-----------------------------------------------------------------------------
RiskInit ==
    /\ part \in {"risk", "orders"}
    /\ Init /\ (part = "orders" => legacy = {} /\ scope = timed)
    /\ Legacy!Init

RiskNext ==
    \/ part = "risk" /\ Next /\ UNCHANGED <<part, orderVars>>
    \/ part = "orders" /\ Legacy!Next /\ UNCHANGED <<part, vars>>

RiskSpec == RiskInit /\ [][RiskNext]_riskVars

(* An order of the retired route has one intent, an execution is counted once
   and for one order, reports take nothing back, recorded executions cost what
   was authorized, and holdings that reconcile have their age
   (persistence/execution_orders.py:187, persistence/execution_risk.py:104). *)
OrdersOnRecord ==
    /\ [](part = "orders" => /\ Legacy!OneIntentPerOrder
                           /\ Legacy!ExecutionsCountedOnce
                           /\ Legacy!HoldingStartKnown)
    /\ [][Legacy!ReportsOnlyAdd /\ Legacy!WithinAuthorized]_orderVars

(* The references of intents are not told apart. *)
RefSymmetry == Permutations(Ref)
=============================================================================
