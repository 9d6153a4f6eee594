SPECIFICATION Spec
CONSTANTS
    Keep = 2
    TrainSamples = 1
    Isotropic = FALSE
    Prompts = 2
    GroupSize = 4
    Chunks = 2
    M3poM = 1
    DecoupledSamples = 1
    RolloutOnly = FALSE
    MiniBatches = 2
    EssSchedule = TRUE
    CriticWarmup = 0
    ValBeforeTrain = TRUE
    TestFreq = 2
    SaveFreq = 2
    TotalSteps = 4
    MaxNonFinite = 1
    MaxCrashes = 2
INVARIANTS TrainingTypeOK RestoresMean MeanOnly GroupSplit StepHasItsSample EachStepOnce TrackerComplete RecoveryPoint
