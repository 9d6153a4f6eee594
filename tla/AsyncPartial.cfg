SPECIFICATION FairSpec
VIEW StateView
CONSTANTS
    Consumers = {"trainer"}
    MaxQueueSize = 2
    TotalSamples = 5
    RequiredSamples = 1
    TriggerStep = 1
    StaleNum = 1
    StaleDen = 1
    MaxConcurrent = 2
    PendingSize = 3
    PartialRollout = TRUE
    MaxFailures = 1
    TestFreq = 2
INVARIANTS TypeOK EachSampleOnce OutstandingBound GenerationNearStamp ProcessorSurvives BoundedStaleness
PROPERTIES ImplementsWeightSync EndsUnlessStarved
