CONSTANTS
    None = None
    Ref = {r1, r2}
    timed = timed
    manual = manual
    Scope <- MCScope
    Limit <- MCStrictLimit
    Until <- MCUntil
    Date <- MCDate
    Pnl <- MCPnl
    DayTicks = 1
    TimedDelay = 2
    TimedUnit = "days"
    Horizon = 2
    MaxLog = 5
SPECIFICATION RiskSpec
INVARIANTS ManualStopNeedsAck
CHECK_DEADLOCK FALSE
