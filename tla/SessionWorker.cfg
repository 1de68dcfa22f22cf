SPECIFICATION FairSpec
CONSTANTS
    Scope = {s1, s2}
    NoScope = NoScope
    Client = {c1, c2}
    Main = Main
    Requests = 5
    Restarts = 2
INVARIANTS RunningHasRunner RunningScopeApproved
PROPERTIES FencedRunnersEnd ShutdownCompletes StopExcludesLaunch StartIsExact SupersededRunnerIsHarmless
CHECK_DEADLOCK FALSE
