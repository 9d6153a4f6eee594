SPECIFICATION Spec
CONSTANTS
    Keep = 0
    TrainSamples = 2
    Isotropic = TRUE
    Prompts = 2
    GroupSize = 2
    Chunks = 1
    M3poM = 2
    DecoupledSamples = 1
    RolloutOnly = FALSE
    MiniBatches = 1
    EssSchedule = FALSE
    CriticWarmup = 0
    ValBeforeTrain = TRUE
    TestFreq = 2
    SaveFreq = 2
    TotalSteps = 6
    MaxNonFinite = 0
    MaxCrashes = 0
INVARIANTS GradientAtRolloutWeights SamplesPerStep
