SPECIFICATION LedgerSpec
CONSTANTS
    Account = {a1, a2}
    Ref = {r1, r2}
    OrderId = {o1, o2}
    Exec = {x1, x2}
    Qty = {1, 2}
    Payload = {p1, p2}
    Owner = {e1, e2}
    None = None
    TTL = 2
INVARIANTS OnePendingPerAccount CountedOnce
PROPERTIES UsageComplete HistoryFinal OnlyEvidenceResolves LeaseHandover
SYMMETRY LedgerSymmetry
