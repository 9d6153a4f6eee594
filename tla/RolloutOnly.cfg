SPECIFICATION Spec
CONSTANTS
    Keep = 0
    TrainSamples = 1
    Isotropic = FALSE
    Prompts = 2
    GroupSize = 2
    Chunks = 1
    M3poM = 1
    DecoupledSamples = 1
    RolloutOnly = TRUE
    MiniBatches = 1
    EssSchedule = TRUE
    CriticWarmup = 0
    ValBeforeTrain = TRUE
    TestFreq = 2
    SaveFreq = 2
    TotalSteps = 2
    MaxNonFinite = 0
    MaxCrashes = 0
INVARIANTS StepNeverRaises
