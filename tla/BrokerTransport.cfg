CONSTANTS
    None = None
    Call = {r1, r2}
    Gen = {1, 2, 3}
SPECIFICATION FairSpec
INVARIANTS OneQuietOwner NoOrphans UnsentIsTrue
PROPERTIES EveryCallEnds TeardownEnds
CHECK_DEADLOCK FALSE
