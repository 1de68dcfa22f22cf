CONSTANTS
    None = None
    Ref = {r1, r2}
    timed = timed
    manual = manual
    Scope <- MCScope
    Limit <- MCLimit
    Until <- MCUntil
    Date <- MCDate
    Pnl <- MCPnl
    DayTicks = 2
    TimedDelay = 1
    TimedUnit = "days"
    Horizon = 2
    MaxLog = 4
SPECIFICATION RiskSpec
INVARIANTS LatchIsDrawdown NoEntryAfterBreach PauseHolds
PROPERTIES OrdersOnRecord
CHECK_DEADLOCK FALSE
SYMMETRY RefSymmetry
