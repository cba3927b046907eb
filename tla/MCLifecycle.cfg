SPECIFICATION FairSpec
CONSTANTS
    Handlers = {h1, h2}
    Fetchers = {f1, f2}
    PoolSize = 2
INVARIANTS
    BackgroundStopsFirst
    SuccessMeansServed
PROPERTIES
    ProcessEnds
CHECK_DEADLOCK FALSE
