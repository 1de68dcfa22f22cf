CONSTANTS
    None = None
    Lab = {l1, l2}
    Fingerprint = {f1, f2}
    Bundle <- Datasets
    Grid <- Alone
    Certified = TRUE
    Thread = {t1, t2}
    Alert = {a1, a2, a3}
    MaxDepth = 3
    Row = {r1, r2, r3}
    Opener = {o1, o2}
    NewColumns <- Lacking
    Batch = {b1, b2}
    Writer = {w1, w2}
    Run = {x1}
    MaxSeq = 3
    MaxDamage = 1
    Shortlist <- Rules
    LabSize <- LabSizes
    CompareSize <- CompareSizes
    Base <- Settings
    Stream = {s1, s2}
    Arrival <- Arrivals
    BarTicks = 3
    DayTicks = 12
    MarketTicks = 9
    MaxBatches = 4
    Client = {worker, command}
    Worker = worker
    Budget = 2
    BudgetDay = 2
    CacheAge = 1
    Lag = 1
    LastTime = 2
    Market <- Markets
    Family <- Two
    Reading <- Readings
    InitialCash = 100
    TradeCash = 40
    Slip = 0
    StopPct = 5
    TargetPct = 15
    TrailPct = 10
    MaxHold = 2
    Cooldown = 1
    IntentLife = 1
    DrawdownPct = 10
    ExposurePct = 80
    Limit = {1, 2}
    MaxTime = 3
    MaxRuns = 2
    MaxSessions = 1
SPECIFICATION MCSpec
INVARIANTS SealedEvidence EarningsInTime
PROPERTIES PaperKeepsItsRules StoresStayWhole
CHECK_DEADLOCK FALSE
