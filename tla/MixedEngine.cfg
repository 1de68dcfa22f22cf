SPECIFICATION Spec
CONSTANTS
    Engine = {e1, e2}
    Acct = acct
    Ref = {r1, r2, r3}
    None = None
    TTL = 1
    Lot = 1
    MaxOrders = 1
INVARIANTS SingleExposure SellsCovered DailyOrderCap
PROPERTIES ImplementsOrderFate
CHECK_DEADLOCK FALSE
SYMMETRY EngineSymmetry
