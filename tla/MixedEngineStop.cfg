SPECIFICATION FairSpec
CONSTANTS
    Engine = {e1, e2}
    Acct = acct
    Ref = {r1}
    None = None
    TTL = 1
    Lot = 1
    MaxOrders = 1
PROPERTIES FencedEnginesEnd
CHECK_DEADLOCK FALSE
