SPECIFICATION FairSpec
CONSTANTS
    Consumers = {"trainer"}
    MaxQueueSize = 3
    TotalSamples = 6
    RequiredSamples = 1
    TriggerStep = 2
    StaleNum = 1
    StaleDen = 2
    MaxConcurrent = 1
    PendingSize = 3
    PartialRollout = TRUE
    MaxFailures = 0
    TestFreq = 2
PROPERTY InterruptedContinue
