--------------------------- MODULE PerturbedTraining ---------------------------
(***************************************************************************)
(* The training loop of RayPPOTrainer.fit with the IVON optimizer, that is *)
(* B3PO (one perturbation a step), M3PO (m3po_m of them, one after the     *)
(* other), C3PO (a group is generated in c3po_n chunks, each under its own *)
(* perturbation) and the decoupled variant (decoupled_mc_samples gradients *)
(* of one batch).  The driver calls the actor worker and the rollout       *)
(* engine one after the other; a crash, in the middle of a save too,       *)
(* restarts it from the checkpoint the tracker file names.                 *)
(***************************************************************************)
EXTENDS Ivon, CheckpointFiles

CONSTANTS Prompts, GroupSize,      \* prompts of a batch, rollout.n
          Chunks,                  \* rollout.c3po_n
          M3poM, DecoupledSamples, \* m3po_m, decoupled_mc_samples
          RolloutOnly,             \* use_ivon_rollout_only
          MiniBatches,             \* most mini batches of update_policy, times ppo_epochs
          EssSchedule,             \* ess_schedule is not "constant"
          CriticWarmup, ValBeforeTrain, TestFreq, SaveFreq, TotalSteps,
          MaxNonFinite, MaxCrashes \* bounds: non-finite gradients, crashes

ASSUME TrainingAssumption ==
    /\ Prompts \in Nat \ {0} /\ Chunks \in Nat \ {0}
    /\ GroupSize \in Nat \ {0} /\ GroupSize % Chunks = 0
    /\ M3poM \in Nat \ {0} /\ DecoupledSamples \in Nat \ {0}
    /\ M3poM = 1 \/ DecoupledSamples = 1
    /\ TrainSamples = IF M3poM > 1 THEN M3poM ELSE DecoupledSamples
    /\ RolloutOnly \in BOOLEAN /\ EssSchedule \in BOOLEAN /\ ValBeforeTrain \in BOOLEAN
    /\ MiniBatches \in Nat \ {0}
    /\ CriticWarmup \in Nat /\ TestFreq \in Nat \ {0} /\ SaveFreq \in Nat \ {0}
    /\ TotalSteps \in Nat \ {0}
    /\ MaxNonFinite \in Nat /\ MaxCrashes \in Nat

VARIABLES pc, global_steps,
          mc, chunk, decoupled, miniBatch,   \* the four loop counters
          miniBatches,  \* how many mini batches this job has
          batch,        \* the rows generated: the prompt, and the engine's weights
          engine,       \* the weights the rollout engine holds, none while it sleeps
          applied,      \* the values of p.grad averaged by the last optimizer step
          skipped,      \* the steps whose update was skipped
          nonFinite, crashes

counterVars == <<mc, chunk, decoupled, miniBatch, miniBatches>>
historyVars == <<applied, skipped, nonFinite, crashes>>
vars == <<ivonVars, fileVars, pc, global_steps, counterVars, batch, engine, historyVars>>

PerIter == GroupSize \div Chunks     \* n_per_iter

\* what save_checkpoint writes: the parameters and the optimizer's state_dict
Checkpoint == [mean |-> mean, offset |-> offset, scale |-> scale, count |-> count, avg |-> avg]

\* what a job without a checkpoint starts from
Scratch == [mean |-> <<>>, offset |-> {}, scale |-> 0, count |-> 0, avg |-> <<>>]

Init == /\ IvonInit /\ FilesInit
        /\ pc = "start" /\ global_steps = 0
        /\ mc = 1 /\ chunk = 1 /\ decoupled = 1 /\ miniBatch = 1
        /\ miniBatches \in 1..MiniBatches
        /\ batch = <<>> /\ engine = {}
        /\ applied = <<>> /\ skipped = {} /\ nonFinite = 0 /\ crashes = 0

Goto(from, to) == pc = from /\ pc' = to

-----------------------------------------------------------------------------
(* Around the steps: the start, the next step, validation *)

Start ==
    /\ Goto("start", IF ValBeforeTrain THEN "test" ELSE "next")
    /\ UNCHANGED <<ivonVars, global_steps, counterVars, batch, engine, fileVars, historyVars>>

\* mutant: the engine keeps the weights of the last rollout
TestStale ==
    /\ Goto("test", "validate")
    /\ UNCHANGED <<ivonVars, global_steps, counterVars, batch, engine, fileVars, historyVars>>

\* update_weights before _validate
Test ==
    /\ Goto("test", "validate")
    /\ engine' = {Weights}
    /\ UNCHANGED <<ivonVars, global_steps, counterVars, batch, fileVars, historyVars>>

Validate ==
    /\ Goto("validate", "next")
    /\ engine' = {}
    /\ UNCHANGED <<ivonVars, global_steps, counterVars, batch, fileVars, historyVars>>

NextStep ==
    /\ Goto("next", IF global_steps >= TotalSteps THEN "done" ELSE "noise")
    /\ global_steps' = global_steps + 1
    /\ mc' = 1 /\ chunk' = 1 /\ batch' = <<>>
    /\ UNCHANGED <<ivonVars, decoupled, miniBatch, miniBatches, engine, fileVars, historyVars>>

-----------------------------------------------------------------------------
(* The rollouts of a step *)

NoiseActor ==
    /\ Goto("noise", "sync")
    /\ SampleParams
    /\ UNCHANGED <<global_steps, counterVars, batch, engine, fileVars, historyVars>>

\* mutant: the engine gets the mean
SyncWeightsMean ==
    /\ Goto("sync", "generate")
    /\ engine' = {[mean |-> mean, offset |-> {}]}
    /\ UNCHANGED <<ivonVars, global_steps, counterVars, batch, fileVars, historyVars>>

\* update_weights: the engine gets the perturbed parameters
SyncWeights ==
    /\ Goto("sync", "generate")
    /\ engine' = {Weights}
    /\ UNCHANGED <<ivonVars, global_steps, counterVars, batch, fileVars, historyVars>>

\* generate_sequences: PerIter rows of each prompt in turn; then the engine sleeps
Generate ==
    /\ Goto("generate", "denoise")
    /\ batch' = batch \o [i \in 1..(Prompts * PerIter) |->
                             [prompt |-> (i - 1) \div PerIter, weights |-> engine]]
    /\ engine' = {}
    /\ UNCHANGED <<ivonVars, global_steps, counterVars, fileVars, historyVars>>

DenoiseActor ==
    /\ Goto("denoise", IF chunk < Chunks THEN "noise" ELSE "union")
    /\ IF RolloutOnly \/ Chunks > 1 THEN RestoreParamAverage(FALSE) ELSE UNCHANGED ivonVars
    /\ chunk' = chunk + 1
    /\ UNCHANGED <<global_steps, mc, decoupled, miniBatch, miniBatches, batch, engine, fileVars, historyVars>>

\* mutant: the chunks are dealt out as if they were prompts
RowOfSwapped(k) == LET p == k \div GroupSize
                       c == (k % GroupSize) \div PerIter
                   IN  p * (Chunks * PerIter) + c * PerIter + (k % PerIter)

\* where reorder_indices takes row k of the batch from, both counted from 0
RowOf(k) == LET p == k \div GroupSize
                c == (k % GroupSize) \div PerIter
            IN  c * (Prompts * PerIter) + p * PerIter + (k % PerIter)

\* concat, reorder and the union with the prompts, each repeated rollout.n times
Union ==
    /\ Goto("union", "noiseAgain")
    /\ batch' = [k \in 1..Len(batch) |-> batch[RowOf(k - 1) + 1]]
    /\ decoupled' = 1 /\ miniBatch' = 1
    /\ UNCHANGED <<ivonVars, global_steps, mc, chunk, miniBatches, engine, fileVars, historyVars>>

-----------------------------------------------------------------------------
(* The update: noise_actor once more, then update_actor *)

NoiseAgain ==
    /\ Goto("noiseAgain", IF CriticWarmup <= global_steps THEN "backward" ELSE "save")
    /\ IF Chunks > 1 \/ DecoupledSamples > 1 THEN SampleParams ELSE UNCHANGED ivonVars
    /\ UNCHANGED <<global_steps, counterVars, batch, engine, fileVars, historyVars>>

IsMcSample == M3poM > 1 \/ DecoupledSamples > 1              \* is_mc_sample_ivon
TakesStep == mc = M3poM /\ decoupled = DecoupledSamples      \* should_take_step

\* the gradient of the batch at the weights of the moment, finite or not
Gradient(finite) == [step |-> global_steps, at |-> Weights, finite |-> finite,
                     rows |-> {batch[i].weights : i \in DOMAIN batch}]

\* zero_grad unless samples are collected, and the backward passes of a mini batch
Backward(finite) ==
    /\ Goto("backward", "restore")
    /\ ~finite => nonFinite < MaxNonFinite
    /\ nonFinite' = IF finite THEN nonFinite ELSE nonFinite + 1
    /\ grad' = Append(IF IsMcSample THEN grad ELSE <<>>, Gradient(finite))
    /\ UNCHANGED <<noiseVars, mean, scale, statVars, global_steps, counterVars, batch, engine,
                   fileVars, applied, skipped, crashes>>

Restore ==
    /\ Goto("restore", IF TakesStep THEN "step" ELSE "loop")
    /\ RestoreParamAverage(TRUE)
    /\ UNCHANGED <<global_steps, counterVars, batch, engine, fileVars, historyVars>>

GradFinite == \A i \in DOMAIN grad : grad[i].finite

\* _optimizer_step: the update is skipped if the norm of p.grad is not finite
OptimizerStep ==
    \/ /\ GradFinite
       /\ Step(global_steps)
       /\ applied' = Collected
       /\ pc' = "loop"
       /\ UNCHANGED skipped
    \/ /\ GradFinite /\ ~CanUpdate
       /\ pc' = "raised"
       /\ UNCHANGED <<ivonVars, applied, skipped>>
    \/ /\ ~GradFinite
       /\ grad' = <<>>
       /\ skipped' = skipped \union {global_steps}
       /\ pc' = "loop"
       /\ UNCHANGED <<noiseVars, mean, scale, statVars, applied>>

TakeStep ==
    /\ pc = "step"
    /\ OptimizerStep
    /\ UNCHANGED <<global_steps, counterVars, batch, engine, fileVars, nonFinite, crashes>>

NextMiniBatch ==
    /\ Goto("loop", "backward")
    /\ miniBatch < miniBatches
    /\ miniBatch' = miniBatch + 1
    /\ UNCHANGED <<ivonVars, global_steps, mc, chunk, decoupled, miniBatches, batch, engine,
                   fileVars, historyVars>>

\* mutant: the gradients of a step are still there in the next
UpdateActorDoneKeepsGrad ==
    /\ pc = "loop" /\ miniBatch = miniBatches
    /\ scale' = IF TakesStep /\ EssSchedule THEN scale + 1 ELSE scale
    /\ miniBatch' = 1
    /\ decoupled' = decoupled + 1
    /\ pc' = IF decoupled < DecoupledSamples THEN "noiseAgain" ELSE "save"
    /\ UNCHANGED <<noiseVars, mean, grad, statVars, global_steps, mc, chunk, miniBatches, batch, engine,
                   fileVars, historyVars>>

\* update_actor returns: zero_grad, and the schedule sets ess, if a step was due
UpdateActorDone ==
    /\ pc = "loop" /\ miniBatch = miniBatches
    /\ grad' = IF TakesStep THEN <<>> ELSE grad
    /\ scale' = IF TakesStep /\ EssSchedule THEN scale + 1 ELSE scale
    /\ miniBatch' = 1
    /\ decoupled' = decoupled + 1
    /\ pc' = IF decoupled < DecoupledSamples THEN "noiseAgain" ELSE "save"
    /\ UNCHANGED <<noiseVars, mean, statVars, global_steps, mc, chunk, miniBatches, batch, engine,
                   fileVars, historyVars>>

-----------------------------------------------------------------------------
(* The end of a step *)

\* mutant: only the last step and the schedule count
SaveDueLast(esi) == global_steps >= TotalSteps \/ esi

\* esi: the training instance is about to expire
SaveDue(esi) == esi \/ global_steps >= TotalSteps \/ global_steps % SaveFreq = 0

\* mutant: the checkpoint is named after the step to come
CheckpointStepAhead == global_steps + 1

\* global_step_{global_steps}
CheckpointStep == global_steps

SaveBegin ==
    /\ pc = "save"
    /\ \E esi \in BOOLEAN :
          \/ /\ SaveDue(esi)
             /\ MakeRoom
             /\ pc' = "open"
          \/ /\ ~SaveDue(esi)
             /\ UNCHANGED fileVars
             /\ pc' = "saved"
    /\ UNCHANGED <<ivonVars, global_steps, counterVars, batch, engine, historyVars>>

\* mutant: the tracker file comes before the files it leads to
SaveFilesTrackerFirst ==
    \/ Goto("open", "truncate") /\ OpenFolder(CheckpointStep)
    \/ Goto("truncate", "track") /\ EmptyTheTracker
    \/ Goto("track", "write") /\ WriteTracker(CheckpointStep)
    \/ Goto("write", "register") /\ WriteFolder(CheckpointStep, Checkpoint)
    \/ Goto("register", "saved") /\ Register(CheckpointStep)

\* save_checkpoint of the workers, then the tracker
SaveFiles ==
    \/ Goto("open", "write") /\ OpenFolder(CheckpointStep)
    \/ Goto("write", "register") /\ WriteFolder(CheckpointStep, Checkpoint)
    \/ Goto("register", "truncate") /\ Register(CheckpointStep)
    \/ Goto("truncate", "track") /\ EmptyTheTracker
    \/ Goto("track", "saved") /\ WriteTracker(CheckpointStep)

SaveStep == /\ SaveFiles
            /\ UNCHANGED <<ivonVars, global_steps, counterVars, batch, engine, historyVars>>

\* the metrics of update_actor are read whether or not it was ever called
EndStep ==
    /\ Goto("saved", IF CriticWarmup > global_steps THEN "unbound" ELSE "sampled")
    /\ engine' = IF global_steps >= TotalSteps THEN {Weights} ELSE engine
    /\ UNCHANGED <<ivonVars, global_steps, counterVars, batch, fileVars, historyVars>>

NextSample ==
    /\ Goto("sampled", "noise")
    /\ mc < M3poM
    /\ mc' = mc + 1 /\ chunk' = 1 /\ batch' = <<>>
    /\ UNCHANGED <<ivonVars, global_steps, decoupled, miniBatch, miniBatches, engine, fileVars, historyVars>>

StepDone ==
    /\ Goto("sampled", IF global_steps >= TotalSteps \/ global_steps % TestFreq = 0
                       THEN "test" ELSE "next")
    /\ mc = M3poM
    /\ UNCHANGED <<ivonVars, global_steps, counterVars, batch, engine, fileVars, historyVars>>

Dead == {"done", "raised", "unbound", "unloadable"}

\* the job starts again after step, from what checkpoint has, with a new generator:
\* neither p.grad nor the generator's state is in a checkpoint
Resume(step, checkpoint) ==
    /\ pc' = "start"
    /\ global_steps' = step
    /\ mean' = checkpoint.mean /\ offset' = checkpoint.offset /\ scale' = checkpoint.scale
    /\ count' = checkpoint.count /\ avg' = checkpoint.avg
    /\ noised' = FALSE /\ genState' = 0 /\ grad' = <<>>
    /\ mc' = 1 /\ chunk' = 1 /\ decoupled' = 1 /\ miniBatch' = 1
    /\ batch' = <<>> /\ engine' = {} /\ applied' = <<>>

\* _load_checkpoint with resume_mode = "auto"
Load ==
    \/ tracker = NoTracker /\ Resume(0, Scratch)
    \/ \E checkpoint \in Latest : Resume(tracker, checkpoint)
    \/ /\ tracker # NoTracker /\ Latest = {}
       /\ pc' = "unloadable"
       /\ UNCHANGED <<noiseVars, mean, scale, grad, statVars, global_steps, mc, chunk, decoupled,
                      miniBatch, batch, engine, applied>>

Crash ==
    /\ pc \notin Dead \union {"start"}
    /\ crashes < MaxCrashes
    /\ crashes' = crashes + 1
    /\ Load
    /\ paths' = <<>>
    /\ UNCHANGED <<drawn, miniBatches, disk, tracker, skipped, nonFinite>>

Ended == pc \in Dead /\ UNCHANGED vars

Next == \/ Start \/ Test \/ Validate \/ NextStep
        \/ NoiseActor \/ SyncWeights \/ Generate \/ DenoiseActor \/ Union
        \/ NoiseAgain \/ (\E finite \in BOOLEAN : Backward(finite)) \/ Restore \/ TakeStep
        \/ NextMiniBatch \/ UpdateActorDone
        \/ SaveBegin \/ SaveStep \/ EndStep \/ NextSample \/ StepDone
        \/ Crash \/ Ended

Spec == Init /\ [][Next]_vars

-----------------------------------------------------------------------------
\* Every variable holds a value of its kind; the counters stay in their loops.
TrainingTypeOK ==
    /\ IvonTypeOK
    /\ pc \in {"start", "test", "validate", "next", "noise", "sync", "generate", "denoise",
               "union", "noiseAgain", "backward", "restore", "step", "loop", "save", "open", "write",
               "register", "truncate", "track", "saved", "sampled"} \union Dead
    /\ global_steps \in 0..(TotalSteps + 1)
    /\ mc \in 1..M3poM /\ chunk \in 1..(Chunks + 1)
    /\ decoupled \in 1..(DecoupledSamples + 1) /\ miniBatch \in 1..miniBatches /\ miniBatches \in 1..MiniBatches
    /\ Cardinality(engine) <= 1
    /\ DOMAIN disk \subseteq 1..TotalSteps /\ Range(paths) \subseteq 1..TotalSteps
    /\ tracker \in -1..TotalSteps
    /\ \A step \in DOMAIN disk : Cardinality(disk[step]) <= 1
    /\ skipped \subseteq 1..TotalSteps

\* Restoring takes away exactly what was added: unless noised the parameters are
\* the mean, and while noised they carry the one vector that the generator state,
\* ess and the Hessian of now would produce again.
RestoresMean == offset = IF noised THEN {<<genState, scale>>} ELSE {}

\* Noise serves rollouts and gradients only: a checkpoint holds the mean, and
\* validation runs with the mean of the moment.
MeanOnly == /\ \A step \in DOMAIN disk : \A checkpoint \in disk[step] : checkpoint.offset = {}
            /\ pc = "validate" => engine = {[mean |-> mean, offset |-> {}]}

\* Each group of rollout.n rows is of one prompt, and split evenly over c3po_n
\* distinct perturbations of one mean.
GroupSplit ==
    pc = "noiseAgain" =>
        \A p \in 0..(Prompts - 1) :
            LET group == {i \in DOMAIN batch : (i - 1) \div GroupSize = p}
                used == {batch[i].weights : i \in group}
            IN  /\ Cardinality(group) = GroupSize
                /\ \A i \in group : batch[i].prompt = p
                /\ Cardinality(used) = Chunks
                /\ \A u \in used : /\ Cardinality({i \in group : batch[i].weights = u}) = PerIter
                                   /\ \A w \in u : w.mean = mean /\ w.offset # {}

\* B3PO and M3PO with one mini batch: every gradient is taken at the very perturbation its rollouts
\* were generated with.
GradientAtRolloutWeights == miniBatches = 1 => \A i \in DOMAIN grad : grad[i].rows = {{grad[i].at}}

\* No optimizer step is made from a gradient that is not finite.
NonFiniteNeverApplied ==
    \A i \in DOMAIN applied : \A j \in DOMAIN applied[i] : applied[i][j].finite

\* An optimizer step averages the samples of its own step, as many as the
\* algorithm has: one, m3po_m or decoupled_mc_samples.
SamplesPerStep ==
    applied # <<>> =>
        /\ Len(applied) = TrainSamples
        /\ \A i \in DOMAIN applied : \A j \in DOMAIN applied[i] :
              applied[i][j].step = mean[Len(mean)]

\* With one mini batch step() finds the sample it needs: one perturbation a step.
StepNeverRaises == miniBatches = 1 => pc # "raised"

\* Unless an update was skipped, no optimizer step is made from a gradient taken at
\* the mean: the noise is gone after the first of several mini batches, and step()
\* refuses to run without a sample restored with train=True since the step before.
UnperturbedNeverApplied ==
    nonFinite = 0 => \A i \in DOMAIN applied : \A j \in DOMAIN applied[i] : applied[i][j].at.offset # {}

\* Every optimizer step is one of a perturbed gradient, and is made if there is one mini batch.
StepHasItsSample == StepNeverRaises /\ UnperturbedNeverApplied

\* A step is applied once, in order, and every checkpoint on disk contains every step
\* up to its own that was not skipped, whatever crashed before.
EachStepOnce ==
    /\ \A i, j \in DOMAIN mean : i < j => mean[i] < mean[j]
    /\ \A step \in DOMAIN disk : \A checkpoint \in disk[step] :
          1..step \subseteq Range(checkpoint.mean) \union skipped

\* A job that can load what the tracker names repeats save_freq steps at most, and
\* one that cannot died between emptying the tracker and writing it.
RecoveryPoint ==
    /\ tracker # EmptyTracker => global_steps - tracker <= SaveFreq
    /\ tracker = EmptyTracker => pc \in {"track", "unloadable"}
=============================================================================
