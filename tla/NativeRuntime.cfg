SPECIFICATION FairSpec
CONSTANTS
    Main = main
    Workers = {w1}
    CounterCount = 2
    MaxCount = 2
    Targets <- MCTargets
    HitBudget = 2
    TierMaxBytes = 128
INVARIANTS
    TypeOK
    CountersExact
    PublishedBetween
    PublishedWellFormed
    JoinedIsExact
    RequiredPublishes
    NoLitter
    ForkHandled
PROPERTIES
    FlushEnds
