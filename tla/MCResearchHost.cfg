SPECIFICATION HostSpec
CONSTANTS
    Client = {c1, c2}
    Request = {q1}
    Nobody = Nobody
    Closer = Closer
    None = None
    Intent = {i1}
    Identity = {u1, u2}
    Item = {r1, r2, r3, r4}
    Runner = runner
    Scope = {scope}
    NoScope = NoScope
    Sessions = 2
    MaxPending = 1
    Batch = 1
    Commands = 3
    Runs = 2
    MaxBrokers = 2
    MaxWorkers = 2
    MaxCalls = 3
    Binding <- Accounts
    Life = 1
    MaxTime = 2
    MaxLinks = 2
    MaxReviews = 2
    PageSize = 1
    MaxPages = 4
    Habits <- Buttons
    MaxGeneration = 3
    MaxFaults = 1
INVARIANTS ResearchYields OneWorkerOneBroker
PROPERTIES HandledOnce
CHECK_DEADLOCK FALSE
SYMMETRY Interchangeable
