--------------------------------- MODULE Ivon ---------------------------------
(***************************************************************************)
(* The IVON optimizer: parameters that are perturbed by a noise sample,    *)
(* restored, and updated from the gradients collected under the samples.   *)
(*                                                                         *)
(* The noise is never stored: restoring draws it again from the saved      *)
(* generator state and subtracts it.  What a draw is scaled by (ess and    *)
(* the Hessian of the moment) is the token scale, a new one whenever       *)
(* either changes, so a vector of noise is a pair <<draw, scale>>.         *)
(* Parameters are the mean, named by the steps whose updates it contains,  *)
(* plus offset, the noise vectors added to it and not taken away.          *)
(***************************************************************************)
EXTENDS Integers, Sequences, FiniteSets

CONSTANTS TrainSamples,   \* train_mc_samples
          Isotropic       \* isotropic_noise: the Hessian is never learned

ASSUME IvonAssumption == TrainSamples \in Nat \ {0} /\ Isotropic \in BOOLEAN

VARIABLES noised, genState, drawn,
          mean, offset, scale,
          grad,           \* the backward passes summed in p.grad
          count,          \* state["count"]
          avg             \* the values of p.grad averaged in state["avg_grad"]

noiseVars == <<noised, genState, drawn, offset>>
statVars == <<count, avg>>
ivonVars == <<noiseVars, mean, scale, grad, statVars>>

SingleSample == TrainSamples = 1

Weights == [mean |-> mean, offset |-> offset]

IvonInit == /\ noised = FALSE /\ genState = 0 /\ drawn = 0
            /\ mean = <<>> /\ offset = {} /\ scale = 0
            /\ grad = <<>> /\ count = 0 /\ avg = <<>>

\* adding or subtracting one vector
Plus(v) == IF <<-v[1], v[2]>> \in offset THEN offset \ {<<-v[1], v[2]>>} ELSE offset \union {v}
Minus(v) == IF v \in offset THEN offset \ {v} ELSE offset \union {<<-v[1], v[2]>>}

\* mutant: a sample that was collected and never stepped with is kept
SampleParamsKeeps ==
    \/ noised /\ UNCHANGED ivonVars
    \/ /\ ~noised
       /\ drawn' = drawn + 1 /\ genState' = drawn + 1
       /\ offset' = Plus(<<drawn + 1, scale>>)
       /\ noised' = TRUE
       /\ UNCHANGED <<mean, scale, grad, statVars>>

\* _sample_params
SampleParams ==
    \/ noised /\ UNCHANGED ivonVars
    \/ /\ ~noised
       /\ drawn' = drawn + 1 /\ genState' = drawn + 1
       /\ offset' = Plus(<<drawn + 1, scale>>)
       /\ noised' = TRUE
       /\ count' = IF SingleSample THEN 0 ELSE count
       /\ UNCHANGED <<mean, scale, grad, avg>>

\* mutant: the noise is drawn from the generator as it stands now
RestoreParamAverageFresh(train) ==
    \/ ~noised /\ UNCHANGED ivonVars
    \/ /\ noised
       /\ offset' = Minus(<<drawn + 1, scale>>)
       /\ noised' = FALSE
       /\ IF train
          THEN /\ count' = count + 1
               /\ avg' = IF SingleSample THEN avg ELSE Append(avg, grad)
          ELSE UNCHANGED statVars
       /\ UNCHANGED <<genState, drawn, mean, scale, grad>>

\* _restore_param_average(train): with a single sample only the count is kept
RestoreParamAverage(train) ==
    \/ ~noised /\ UNCHANGED ivonVars
    \/ /\ noised
       /\ offset' = Minus(<<genState, scale>>)
       /\ noised' = FALSE
       /\ IF train
          THEN /\ count' = count + 1
               /\ avg' = IF SingleSample THEN avg ELSE Append(avg, grad)
          ELSE UNCHANGED statVars
       /\ UNCHANGED <<genState, drawn, mean, scale, grad>>

\* what _update averages
Collected == IF SingleSample THEN <<grad>> ELSE avg

\* mutant: a single sample is taken for granted
CanUpdateAlways == SingleSample \/ avg # <<>>

\* without it _update raises
CanUpdate == IF SingleSample THEN count = 1 ELSE avg # <<>>

\* step: _update, which moves the mean and the Hessian, then _reset_samples
Step(step) ==
    /\ CanUpdate
    /\ mean' = Append(mean, step)
    /\ scale' = IF Isotropic THEN scale ELSE scale + 1
    /\ count' = 0 /\ avg' = <<>> /\ genState' = 0
    /\ UNCHANGED <<noised, drawn, offset, grad>>

IvonTypeOK ==
    /\ noised \in BOOLEAN
    /\ drawn \in Nat /\ genState \in 0..drawn
    /\ mean \in Seq(Nat)
    /\ offset \subseteq Int \X Nat
    /\ scale \in Nat
    /\ count \in Nat
    /\ ~SingleSample => count = Len(avg)
=============================================================================
