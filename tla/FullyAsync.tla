------------------------------ MODULE FullyAsync ------------------------------
(***************************************************************************)
(* Fully asynchronous training: the Rollouter with its message queue, the  *)
(* FullyAsyncTrainer that consumes the queue, and the ParameterSynchronizer*)
(* the trainer calls after every trigger_parameter_sync_step batches.      *)
(***************************************************************************)
EXTENDS Rollouter, Functions

CONSTANT TestFreq    \* rollout.test_freq

ASSUME TrainerAssumption ==
    /\ TestFreq \in Nat \ {0}
    /\ Consumers = {"trainer"}

VARIABLES trainPc,
          batch,             \* samples collected for the next batch
          trained,           \* samples the trainer has trained on
          local_trigger_step,
          trainer_version,   \* the trainer's current_param_version
          finishing,         \* the training loop has ended
          transferring,      \* weights are being written into the rollout engines
          engine_version     \* the version of the weights the engines hold

trainerVars == <<trainPc, batch, trained, local_trigger_step, trainer_version, finishing>>
engineVars == <<transferring, engine_version>>
vars == <<rollouterVars, trainerVars, engineVars>>

\* everything of the rollouter but the queue and the calls it receives
rollouterInside == <<lock, sampleVars, taskVars, procVars, flagVars, versionVars, loopVars>>

\* The state after the first sync_weights, which fully_async_main runs before the loops.
Init == /\ RolloutInit
        /\ trainPc = "get"
        /\ batch = {} /\ trained = {}
        /\ local_trigger_step = 1
        /\ trainer_version = 0
        /\ finishing = FALSE
        /\ transferring = FALSE
        /\ engine_version = 0

-----------------------------------------------------------------------------
(* FullyAsyncTrainer: _get_samples_from_queue and the loop of fit *)

TrainerWait ==
    /\ trainPc = "get"
    /\ WaitSample("trainer")
    /\ UNCHANGED <<rollouterInside, callVars, dropped, trainerVars, engineVars>>

TrainerGet ==
    /\ trainPc = "get"
    /\ TakeSample("trainer")
    /\ Head(queue) # NoSample
    /\ batch' = batch \union {Head(queue)}
    /\ trainPc' = IF Cardinality(batch') = RequiredSamples THEN "train" ELSE "get"
    /\ UNCHANGED <<rollouterInside, callVars, dropped, trained, local_trigger_step,
                   trainer_version, finishing, engineVars>>

\* None ends the loop; what was collected for an unfinished batch stays unused
TrainerGetNone ==
    /\ trainPc = "get"
    /\ TakeSample("trainer")
    /\ Head(queue) = NoSample
    /\ trainPc' = "drained"
    /\ UNCHANGED <<rollouterInside, callVars, dropped, batch, trained, local_trigger_step,
                   trainer_version, finishing, engineVars>>

\* mutant: the count of steps is not reset
StartSyncNoReset == /\ trainer_version' = trainer_version + 1
                    /\ local_trigger_step' = local_trigger_step + 1
                    /\ trainPc' = "waitLast"

\* _trigger_parameter_sync_after_step when a synchronization is due
StartSync == /\ trainer_version' = trainer_version + 1
             /\ local_trigger_step' = 1
             /\ trainPc' = "waitLast"

TrainerTrain ==
    /\ trainPc = "train"
    /\ trained' = trained \union batch
    /\ batch' = {}
    /\ \/ /\ local_trigger_step < TriggerStep
          /\ local_trigger_step' = local_trigger_step + 1
          /\ trainPc' = "get"
          /\ UNCHANGED trainer_version
       \/ local_trigger_step >= TriggerStep /\ StartSync
    /\ UNCHANGED <<rollouterInside, callVars, queueVars, finishing, engineVars>>

LastSyncDone == updatePc = "done" /\ resumePc = "done"

\* the end of fit: wait for the last synchronization, then synchronize once more
\* if the loop stopped between two of them or the last version was not tested
TrainerDrained ==
    /\ trainPc = "drained"
    /\ LastSyncDone
    /\ finishing' = TRUE
    /\ IF trainer_version % TestFreq # 0 \/ local_trigger_step > 1
       THEN StartSync
       ELSE trainPc' = "ended" /\ UNCHANGED <<trainer_version, local_trigger_step>>
    /\ UNCHANGED <<rollouterInside, callVars, queueVars, batch, trained, engineVars>>

TrainerEnd ==
    /\ trainPc = "waitEnd"
    /\ LastSyncDone
    /\ trainPc' = "ended"
    /\ UNCHANGED <<rollouterInside, callVars, queueVars, batch, trained, local_trigger_step,
                   trainer_version, finishing, engineVars>>

Trainer == \/ TrainerWait \/ TrainerGet \/ TrainerGetNone \/ TrainerTrain
           \/ TrainerDrained \/ TrainerEnd

-----------------------------------------------------------------------------
(* ParameterSynchronizer: wait_last_valid, then sync_weights *)

SyncPause ==
    /\ trainPc = "waitLast"
    /\ LastSyncDone
    /\ pausePc' = "called"
    /\ trainPc' = "pausing"
    /\ UNCHANGED <<rollouterInside, updatePc, resumePc, newVersion, count, queueVars, batch,
                   trained, local_trigger_step, trainer_version, finishing, engineVars>>

\* pause() has returned: tell the queue, start writing weights
SyncWeights ==
    /\ trainPc = "pausing"
    /\ pausePc = "done"
    /\ pausePc' = "idle"
    /\ UpdateMQVersion(trainer_version)
    /\ transferring' = TRUE
    /\ trainPc' = "syncing"
    /\ UNCHANGED <<rollouterInside, updatePc, resumePc, newVersion, count, dropped, batch,
                   trained, local_trigger_step, trainer_version, finishing, engine_version>>

\* the weights are written: start update_param_version and resume, and do not wait
SyncDone ==
    /\ trainPc = "syncing"
    /\ transferring' = FALSE
    /\ engine_version' = trainer_version
    /\ updatePc' = "called" /\ resumePc' = "called"
    /\ newVersion' = trainer_version
    /\ trainPc' = IF finishing THEN "waitEnd" ELSE "get"
    /\ UNCHANGED <<rollouterInside, pausePc, count, queueVars, batch, trained,
                   local_trigger_step, trainer_version, finishing>>

Synchronizer == SyncPause \/ SyncWeights \/ SyncDone

-----------------------------------------------------------------------------
Stopped == trainPc = "ended" /\ mainPc = "ended" /\ monPc = "ended"

Next == \/ RollouterNext /\ UNCHANGED <<trainerVars, engineVars>>
        \/ (Trainer \/ Synchronizer) /\ External
        \/ Stopped /\ UNCHANGED vars

Spec == Init /\ [][Next]_vars

(***************************************************************************)
(* Fairness.  The event loop runs as long as a coroutine is ready, every   *)
(* remote call and the timer answer, a generation ends (it has a token     *)
(* limit), and the other two actors do not stop.  A subscript names what   *)
(* every step of its action changes.                                       *)
(***************************************************************************)
Fairness ==
    /\ WF_rollouterVars(EventLoop)
    /\ WF_monPc(MonTimer) /\ WF_mainPc(MainSentinel)
    /\ WF_pausePc(CancelReply \/ ClearReply)
    /\ WF_updatePc(SizeReply \/ ValidateReply)
    /\ WF_resumePc(ServersReply)
    /\ \A s \in Samples : WF_stage(Task(s))
    /\ WF_<<trainerVars, engineVars, queueVars>>(Trainer \/ Synchronizer)

FairSpec == Spec /\ Fairness

-----------------------------------------------------------------------------
TrainerTypeOK ==
    /\ trainPc \in {"get", "train", "waitLast", "pausing", "syncing", "drained", "waitEnd",
                    "ended"}
    /\ batch \subseteq Samples /\ trained \subseteq Samples
    /\ local_trigger_step \in 1..TriggerStep
    /\ trainer_version \in Nat
    /\ finishing \in BOOLEAN

EngineTypeOK == engine_version \in Nat /\ transferring \in BOOLEAN

\* Every variable holds a value of its kind, and local_trigger_step stays a
\* position in the window between two synchronizations.
TypeOK == RollouterTypeOK /\ TrainerTypeOK /\ EngineTypeOK

\* the samples whose task has not handed them over yet
Underway == {s \in Samples : stage[s] \in {"new", "call", "gen", "cut", "put"}}

Places == <<Range(pending_queue), {hand}, Underway, Range(cancel_queue), Range(queue),
            batch, trained, dropped, failed>>

\* A sample that was fed is in exactly one place: still pending, in the
\* processor's hand, in a task, interrupted, queued, collected, trained on,
\* dropped by a full queue, or failed.  No interleaving of pause, resume and the
\* processor trains on a sample twice or forgets one.
EachSampleOnce ==
    LET places == Places
    IN  \A s \in Samples :
            Cardinality({i \in DOMAIN places : s \in places[i]}) = IF s <= fed THEN 1 ELSE 0

\* samples whose generation was begun or asked for and that no batch holds yet
Outstanding == ({hand} \union Underway \union Range(cancel_queue) \union Range(queue))
                 \ {NoSample}

\* staleness_samples is recounted after every synchronization while the processor
\* goes on: the recount misses at most the one sample in its hand, so at most one
\* sample more than max_required_samples is outstanding.
OutstandingBound == Cardinality(Outstanding) <= MaxRequired + 1

\* While a sample is being generated no weights are written, and the engines hold
\* the version it was stamped with, or the next one: a request that is on its way
\* while weights are written may be generated by them after resume(), but it is
\* over, or refused, before the version after those is written.
GenerationNearStamp ==
    \A s \in Samples :
        stage[s] = "gen" => /\ ~transferring
                            /\ engine_version \in {started_version[s], started_version[s] + 1}

StampedIn(where) == {<<s, started_version[s]>> : s \in {r \in Samples : stage[r] = where}}

WS == INSTANCE WeightSync WITH
          Requests <- Samples,
          asked <- StampedIn("call"),
          generating <- StampedIn("gen"),
          told <- current_param_version,
          writing <- transferring,
          version <- engine_version

\* pause, the transfer, update_param_version and resume together are a weight
\* synchronization that no generation overlaps, and that begins to write only when
\* every request still under way is of the version then in the engines.
ImplementsWeightSync == WS!Spec

\* A batch holds no sample that started more versions ago than the queue fills
\* windows, and two: a sample begun late in a synchronization reaches the queue
\* during the next one at the latest, and from then on the samples ahead of it
\* bound its wait.
BoundedStaleness ==
    trainPc = "train" =>
        \A s \in batch :
            trainer_version - started_version[s] <= 2 + (MaxRequired - 1) \div WindowSamples

\* With staleness_threshold = 0 training is synchronous: a batch holds samples of the
\* current version only, and the rollouter keeps to the number its README gives,
\* (1 + staleness_threshold) * window.
SynchronousTraining ==
    /\ trainPc = "train" => \A s \in batch : started_version[s] = trainer_version
    /\ Cardinality(Outstanding) <= MaxRequired

\* Only a failed generation ends the processor with an exception; done_tasks is
\* never read before it is assigned.
ProcessorSurvives == procPc = "crashed" => failed # {}

\* When everything has stopped, and not because a failed generation ended the
\* processor, every sample that did not fail was trained on or is left in an
\* unfinished batch: the end sentinel overtakes and evicts nothing.
NothingLost == Stopped /\ procPc # "crashed" => trained \union batch = Samples \ failed

\* as many samples as the limit allows are counted, interrupted ones among them,
\* and the limit is tested before cancel_queue is looked at
Starved == procPc = "sleeping" /\ cancel_queue # <<>> /\ ShouldPause

\* With staleness and interruptions the run ends, or it waits for ever for
\* samples in cancel_queue that count against the limit themselves; nothing else
\* (the lock, the servers, a lost notification) makes it wait for ever.
EndsUnlessStarved == <>Stopped \/ <>[]Starved

\* An interrupted sample continues to be generated after a synchronization, unless
\* the processor has ended before, after DONE or by a failure.
InterruptedContinue ==
    \A s \in Samples :
        s \in Range(cancel_queue)
            ~> s \notin Range(cancel_queue) \/ procPc \in {"ended", "crashed"}
=============================================================================
