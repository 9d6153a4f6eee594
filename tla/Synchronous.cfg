SPECIFICATION Spec
CONSTANTS
    Consumers = {"trainer"}
    MaxQueueSize = 2
    TotalSamples = 5
    RequiredSamples = 1
    TriggerStep = 2
    StaleNum = 0
    StaleDen = 2
    MaxConcurrent = 2
    PendingSize = 3
    PartialRollout = FALSE
    MaxFailures = 1
    TestFreq = 2
INVARIANTS SynchronousTraining NothingLost 
