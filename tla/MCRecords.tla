------------------------------ MODULE MCRecords ------------------------------
(* The record keepers of StoreParts on small instances. *)
EXTENDS StoreParts

(* PaperTrading: a family of two funds and one coin, as long as it takes to
   buy and sell. *)
Two == {"QQQ", "TQQQ"}
Markets == [m \in {"equity", "crypto"} |-> IF m = "equity" THEN Two ELSE {"BTC"}]
Says(lag, bid, trend, status) == [lag |-> lag, bid |-> bid, trend |-> trend, status |-> status]
Readings == {Says(0, 10, "down", "passed"), Says(0, 12, "up", "passed")}

(* And one coin for as long as it takes to buy it again, at a cost, in two
   sessions, with quotes that arrive late or are refused; the limits on
   drawdown and the pause after a sale bind. *)
OneCoin == [m \in {"crypto"} |-> {"BTC"}]
AllReadings == Readings \cup {Says(1, 12, "up", "passed"), Says(0, 0, "flat", "blocked")}
Coin == INSTANCE PaperTrading WITH
    Market <- OneCoin, Family <- {}, Reading <- AllReadings, Slip <- 1, StopPct <- 20,
    TrailPct <- 20, Cooldown <- 2, Limit <- {1}, MaxTime <- 7, MaxSessions <- 2
ASSUME Coin!PaperAssumption /\ Coin!PaperNoneAssumption

(* EvidenceLab: a block, one that shares its last date and is of poor
   quality, and a dataset that cannot be sealed; every candidate alone. *)
Dataset(start, end, sealed, clean) == [start |-> start, end |-> end, sealed |-> sealed, clean |-> clean]
Datasets == {Dataset(2, 3, TRUE, TRUE), Dataset(3, 4, TRUE, FALSE), Dataset(0, 5, FALSE, TRUE)}
Alone == [c \in Fingerprint |-> {c}]

(* StoreSchema: two columns are missing. *)
Lacking == <<"stream_id", "batch_id">>

(* StrategySelection: datasets around each of its thresholds, and moving
   averages down to the shortest that are allowed. *)
Rules == <<"ema", "multi", "opening", "cost">>
LabSizes == {10, 14, 15, 16, 20, 21, 22, 28, 35, 36, 37, 45, 60, 141, 161}
CompareSizes == {29, 30, 33, 70, 90}
Settings ==
    {k \in [fast : {1, 2, 4, 5}, slow : {2, 5, 8, 13}, warmup : {4, 10, 15}, threshold : {1, 2, 5}] :
        k.fast < k.slow /\ k.warmup >= k.slow + 2}

(* RuntimeTrace: a day of four bars, the market closed during the last, books
   ahead of the clock and behind it, two envelopes, a batch that is not exact. *)
Batched(step, age, other, envelope, exact) ==
    [step |-> step, age |-> age, other |-> other, envelope |-> envelope, exact |-> exact]
Arrivals ==
    {Batched(1, 0, 0, 1, TRUE), Batched(1, 1, 0, 1, TRUE), Batched(3, -1, 1, 1, TRUE),
     Batched(8, 0, 0, 1, TRUE), Batched(1, 0, 0, 0, TRUE), Batched(1, 1, 1, 1, FALSE)}

(* EarningsStore: a worker that has no commands beside it and requests enough
   to see a consensus before and a result after an announcement. *)
Lone == INSTANCE EarningsStore WITH
    Client <- {Worker}, Budget <- 3, Day <- BudgetDay, MaxTime <- LastTime, at <- refresh
ASSUME Lone!EarningsAssumption

-----------------------------------------------------------------------------
(* The parts of StoreParts, the coin and the worker alone. *)
StartCoin == part = "coin" /\ Coin!Init /\ StoresInit /\ Earnings!Init
StartLone == part = "lone" /\ Init /\ StoresInit /\ Lone!Init

CoinNext ==
    /\ part = "coin" /\ Coin!Next
    /\ UNCHANGED <<part, labVars, auditVars, upgradeVars, schemaVars,
                   chainVars, searchVars, traceVars, earningsVars>>

LoneNext ==
    /\ part = "lone" /\ Lone!Next
    /\ UNCHANGED <<part, vars, labVars, auditVars, upgradeVars, schemaVars,
                   chainVars, searchVars, traceVars>>

MCInit == RecordsInit \/ StartCoin \/ StartLone
MCNext == RecordsNext \/ CoinNext \/ LoneNext
MCSpec == MCInit /\ [][MCNext]_recordsVars

=============================================================================
