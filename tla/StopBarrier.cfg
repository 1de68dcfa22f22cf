SPECIFICATION Spec
CONSTANTS
    Engine = {e1}
    Acct = acct
    Ref = {r1}
    None = None
    TTL = 1
    Lot = 1
    MaxOrders = 1
PROPERTIES StopBlocksSubmissions
CHECK_DEADLOCK FALSE
