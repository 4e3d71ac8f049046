SPECIFICATION FairSpec
CONSTANTS
    c1 = c1
    c2 = c2
    Consumers <- TwoConsumers
    Size = 7
    BatchSize = 2
    Prefetches = {0, 2}
INVARIANTS InOrder ReadAheadBounded
PROPERTIES HasNextKept NextReturns DestructorReturns IsSequentialLoader
