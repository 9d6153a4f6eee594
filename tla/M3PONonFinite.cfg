SPECIFICATION Spec
CONSTANTS
    Keep = 0
    TrainSamples = 2
    Isotropic = FALSE
    Prompts = 2
    GroupSize = 2
    Chunks = 1
    M3poM = 2
    DecoupledSamples = 1
    RolloutOnly = FALSE
    MiniBatches = 1
    EssSchedule = TRUE
    CriticWarmup = 0
    ValBeforeTrain = TRUE
    TestFreq = 2
    SaveFreq = 2
    TotalSteps = 2
    MaxNonFinite = 1
    MaxCrashes = 0
INVARIANTS NonFiniteNeverApplied
