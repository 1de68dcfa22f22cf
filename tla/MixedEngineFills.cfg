SPECIFICATION Spec
CONSTANTS
    Engine = {e1, e2}
    Acct = acct
    Ref = {r1}
    None = None
    TTL = 2
    Lot = 2
    MaxOrders = 1
INVARIANTS LedgerTellsTruth
CHECK_DEADLOCK FALSE
SYMMETRY EngineSymmetry
