CONSTANTS
    Poll = 1
    MaxCycle = 1
    StaleAfter = 3
    Hour = 2
    PruneEvery = 2
    Retention = 4
    SampleRetention = 2
    MaxTime = 11
    MaxUpsets = 2
SPECIFICATION Spec
VIEW WithoutSamples
INVARIANTS IngestorInv BlindnessShows SourcesAreIndependent OutageIsAnnounced FeedIsSwept
CHECK_DEADLOCK FALSE
