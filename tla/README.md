# Verification of C3PO

C3PO explores with perturbed weights: an optimizer (IVON) that keeps a posterior over the weights, and a
training loop that generates rollouts and takes gradients at samples of it. The code is a fork of verl, whose
processes (trainer, rollout engines, agent loops, queues) run as Ray actors. This directory holds TLA+ models of
the parts where the order of steps decides correctness, the TLC configurations that check them on small
instances, and theorems about them checked by TLAPS.

Paths below are relative to `src/`; `fa/` stands for `verl/verl/experimental/fully_async_policy/` and `v/` for
`verl/verl/`.

## 1. Inventory

| Component | State | Operations | Interacts with | Must hold |
|---|---|---|---|---|
| **MessageQueue** (`fa/message_queue.py`) | bounded deque, waiting consumers, counters, version | `put_sample`, `get_sample`, `update_param_version`, `clear_queue`, `shutdown`; a second deque of validation metrics | called by Rollouter, Trainer, ParameterSynchronizer | keeps the newest samples in order, accounts for each, no lost wake-up |
| **FullyAsyncRollouter** (`fa/fully_async_rollouter.py`) | `pending_queue`, `cancel_queue`, `active_tasks`, `staleness_samples`, `paused`, `running`, `monitor_loop_trigger`, version; one lock, one condition | `_feed_samples`, `_processor_worker`, `_process_single_sample_streaming`, `_async_monitor_loop`, `_streaming_generation_main`, `pause`, `update_param_version`, `resume` | puts into the queue, drives the servers, is paused and resumed by the synchronizer | each sample once, bounded staleness, no dead lock, no generation while weights are written |
| **FullyAsyncTrainer** (`fa/fully_async_trainer.py`) | batch, `local_trigger_step`, version | `_get_samples_from_queue`, `fit`, `_trigger_parameter_sync_after_step` | takes from the queue, calls the synchronizer | trains on each sample once, ends |
| **ParameterSynchronizer** (`fa/param_sync.py`) | references to the last update and resume | `sync_weights`, `wait_last_valid` | `pause` of the Rollouter, weights, then `update_param_version` and `resume`, not awaited | synchronizations do not overlap one another or a generation |
| **Partial generation** (`fa/vllm_rollout/`, `fa/agent_loop/`, `v/experimental/agent_loop/`) | servers: `paused`, `req_output`, `cancel_event`; server manager: request counts, sticky sessions; worker: `cancellation_event`; a saved output or agent state per response | `generate_for_partial`, `cancel`, `resume`, `_choose_server`; the run of a single-turn and of a tool agent | the Rollouter's tasks, a synchronization | an interrupted response goes on where it stopped, tools run once, nothing generates while weights are written |
| **Weight transfer** (`v/checkpoint_engine/`, `v/workers/rollout/vllm_rollout/`) | two buffers per process, bucket metadata, sockets or agent messages; a shared buffer per rollout rank | `prepare`, `init_process_group`, `send_weights`, `receive_weights`, `finalize`; `update_weights`, `update_weights_from_ipc` | trainer ranks → rollout ranks → inference workers | every worker loads every tensor of one version whole, and the transfer ends |
| **IVON** (`ivon/ivon/_ivon.py`) | parameters, `_is_noised`, generator state, `count`, `avg_*`, momentum, Hessian | `_sample_params`, `_restore_param_average`, `step`, `_reset_samples`, `state_dict` | the actor worker | what is taken off is what was put on; a step uses its own samples |
| **3PO loop** (`v/trainer/ppo/ray_trainer.py` `fit`, `v/workers/actor/dp_actor.py`, `v/workers/fsdp_workers.py`) | `global_steps`, four loop counters, the batch, `p.grad` | noise, `update_weights`, generate, denoise, reorder, `update_actor`, save, validate, resume | driver → actor worker → optimizer; driver → engine | gradient and rollouts at the intended weights, groups split evenly, one step each |
| **Checkpoints** (`v/utils/checkpoint/`, `ray_trainer.py` `_save_checkpoint`, `_load_checkpoint`) | folders, `previous_saved_paths`, the tracker file | make room, write, register, track, find, load | the training loop, a crash | the tracker leads to a whole checkpoint, few steps are lost |
| **Batch pipeline** (`v/utils/seqlen_balancing.py`, `_balance_batch`, `dp_actor.py`, dispatch) | the order of the batch, micro-batches, the heap of the partitioning | balance, dispatch, split, forward, restore, collect, union | driver ↔ data-parallel ranks | outputs meet their rows, partitions are sound and balanced, ranks agree on the number of forwards |
| SFT with IVON, one-step-off-policy, reward loop, core algorithms, other back ends, merger, tools | data | pure, I/O, or variants of the above | – | – |

**Hard behaviours.** In the asynchronous job seven coroutines of one event loop interleave at each `await`, under
one lock that some of them hold across an `await` and others do not take at all; three actors call one another, two
of the calls without waiting; samples are interrupted and resubmitted; generations fail. Below them, a cancellation
reaches servers and workers one by one while requests begin, end and are answered. Weights travel through four
buffers that are all reused, by copies the device performs later. In perturbed training, noise is put on and taken
off by separate remote calls under conditions that differ per variant, and is not stored but drawn again; updates are
skipped; the job crashes, in the middle of a save too, and resumes. In the batch pipeline rows go through five
permutations and must come back. `PROJECT.json` lists each hazard at its line.

## 2. Modules

```
MessageQueue ── MessageQueueAlone ── MCMessageQueue
     │                 └──────────── MessageQueueProofs
     └─ Rollouter ── FullyAsync ──── MCFullyAsync
                        │  └──────── FullyAsyncProofs ── FullyAsyncSampleProofs
                        └ WeightSync (abstract, refined by FullyAsync)

PartialGeneration ─┬─ MCPartialGeneration
     │             └─ PartialGenerationProofs
     └ ResumableGeneration (abstract, refined by PartialGeneration)

TensorBuckets ── IpcAdapter ── WeightTransfer ─┬─ MCWeightTransfer
                                   │           └─ WeightTransferProofs
                                   └ WeightDelivery (abstract, refined by WeightTransfer)

Ivon ────────────┐
CheckpointFiles ─┴─ PerturbedTraining ── MCPerturbedTraining
                          └─ PerturbedTrainingProofs

KarmarkarKarp ─┬─ BatchPipeline (refines KarmarkarKarp's own specification) ─┐
               └─ KarmarkarKarpProofs ─────────────────────────────────────┴─ BatchPipelineProofs
```

### MessageQueue, MessageQueueAlone

One action per method of the Ray actor. A method body runs under the actor's asyncio lock and awaits nothing but the
condition, so it is one step; `get_sample` is the call (`WaitSample`, `TakeSample` or `TakeNothing`) and, after a
wait, the same test again when `notify_all` has given the consumer a turn (`woken`). `MessageQueueAlone` drives the
queue with any callers in any order, numbering the samples.

### Rollouter

The queue is part of the Rollouter's specification, as the actor that answers its calls. A coroutine is a program
counter (`procPc`, `monPc`, `mainPc`, `pausePc`, `updatePc`, `resumePc`; the feeder's is `fed`), and an action is the
code from one `await` that may suspend to the next. `lock` is the sequence of coroutines that asked for the asyncio lock, holder
first. `ready` is the run queue of the event loop: the coroutine at its head runs until it waits for something that
has not happened (`KeepsRunning`), and what a step makes runnable is appended (`Wake`). This matters: an `await` on a
free lock or a non-empty queue does *not* yield, so fewer interleavings exist than `await`s suggest, and properties
such as `ProcessorSurvives` depend on it.
The three loops that wait for tasks (pause, DONE, too many tasks) are one set of actions told apart by `reaping`;
`doneTasksBound` records whether the local `done_tasks` has been assigned.
`staleness_samples` is the code's counter, including DONE, which the code counts as well. A task is a stage per sample.
`ProcSubmit` only creates it (`new`), and a `"task"` queues up in `ready` behind what is ready already (`NewTask`); at its first turn
it stamps the sample with `current_param_version` and sends the request off (`TaskBegins`, `call`). The request is then on its way to a
worker and from there to a server for as long as it likes, across `update_param_version` and `resume` too, and only when it arrives
does the server look at its `paused` flag (`TaskArrives`): refused (`cut`) or generated (`gen`). `CancelReply` is the answer of the
servers and workers to `cancel`: nothing generates afterwards, of the requests being generated any subset had just been completed,
and those on their way will be refused. `TaskRaises` is a generation that fails.

`MaxQueueSize = MaxRequired` is what `set_max_required_samples` sets up.

### FullyAsync, WeightSync

`FullyAsync` adds the Trainer and the ParameterSynchronizer, both blocking callers, as one program counter
`trainPc`. The initial state is the one after the synchronization `fully_async_main` runs before the loops.
`WeightSync` is the abstract promise: a generation runs on one version from start to end, and weights are written
only when none runs. A request is stamped when it is made (`Ask`, with the version it was `told`) and begun later
(`Start`), possibly by the next version; a write begins only when the stamps have been told the version in the engines and all requests
still under way have it, so no request is begun two versions after its stamp. `FullyAsync` implements it with partial rollout
(`ImplementsWeightSync`); without partial rollout it does not, see the findings.

### PartialGeneration, ResumableGeneration

What `Rollouter` takes as one step (`CancelReply`, `TaskArrives`) is here the calls themselves. `Pause`, `DeliverCancel`, `Cancelled`,
`WeightsWritten`, `StartResume` and `DeliverResume` are the rollouter's pause, the synchronization and resume, a remote call
to each server and to the worker arriving at a time of its own. A server has the table of its requests
(`req_output`, `cancel_event`); `Refuse` and `Register` are the first critical section of `generate_for_partial`, `AnswerEmpty`
and `AnswerOutput` the second, and `EngineOutput` is one output of the engine by the weights it has. `Call` is
`_choose_server`: the server of the request id in the LRU cache, else the root of the heap; the counts are kept relative to
the smallest, which the heap cannot tell apart. The agent loops are the states of their code: the single-turn loop
makes one request under a new id per run, the tool agent goes through pending, generating and processing tools, looks
at the worker's cancellation event between any two, and keeps its id. `saved` is what outlives a run. A token has the
place and the version it was generated for; a tool call is at least two tokens (`open`, `close`), since only
then can an interruption fall inside it.

`Submit` may also happen while weights are written: the monitor can have un-paused the rollouter then (finding
`interrupted_for_ever`). `ResumableGeneration` is the promise to a response: it only grows, each token by the
weights of the moment for the place it takes, not while weights are written, and it ends.

### TensorBuckets, IpcAdapter, WeightTransfer, WeightDelivery

`TensorBuckets` is the layout all three implementations share: tensors packed one after the other into a buffer of
cells, described by an insertion-ordered dictionary. A cell holds the version and the parameter it was written for, so
a tensor that was mixed or overwritten shows.

`WeightTransfer` is `CheckpointEngineManager.update_weights` with either engine, chosen initially: its phases, each a
`ray.get` over all processes (`Prepare`, `BuildGroup`, `Finalize`), and the two coroutines `send_weights` and
`receive_weights` between their `await`s. The two engines have the same shape (wait for the previous announcement,
announce a bucket, swap), so they are one set of actions; what differs is how an announcement reaches the others.
*nccl*: a thread publishes the metadata (`Publish`) and all ranks enter the broadcast (`Broadcast`); a PUB socket drops what it
sends to a subscriber not yet connected (`Connected`, `lost`). *nixl*: the ranks form a chain, a bucket is announced to the
next rank, which reads it and notifies the owner (`Receive`, `ReadDone`). `IpcAdapter` is the consumer of
`receive_weights` on each rollout rank: it copies into a buffer shared with vLLM's worker by non-blocking copies
(`copies`, run in order at any later time by `CopyRuns`), and asks the worker for each full bucket. Trainer ranks other
than 0 only take part in gathering (`Consume`).

`WeightDelivery` is the promise: in an update every rank loads every parameter of the current version, in order, with
one value, and the update ends after the last has.

### Ivon

Weights are a mean, named by the steps whose updates it contains, and `offset`, the noise vectors on it. A draw from
the generator is a number; what scales it (`ess`, the Hessian) is the token `scale`, new whenever either changes. The
vector that restoring subtracts is *recomputed* from the saved generator state and the scale of the moment, exactly
as the code does, so `RestoresMean` fails if either moved in between. `count` and `avg` are the entries of
`optimizer.state` a checkpoint contains; in single-sample mode only `count` is used.

### CheckpointFiles

The folders on disk (`disk`: whole, or torn while the ranks write), the list `previous_saved_paths` the rotation works on, which
a crash forgets, and the tracker, which opening empties and closing writes. `Keep` is `max_actor_ckpt_to_keep`.

### PerturbedTraining

The body of `RayPPOTrainer.fit` as a program counter: `Start`, `Test`/`Validate`, `NextStep`, then per sample
`NoiseActor` → `SyncWeights` → `Generate` → `DenoiseActor` (repeated for the chunks of C3PO) → `Union` →
`NoiseAgain` → `Backward` → `Restore` → `TakeStep` (repeated for the mini batches) → `UpdateActorDone` → `SaveBegin` →
`SaveStep` (open, write, register, empty the tracker, write it) → `EndStep`. One set of constants gives all the variants:
`M3poM`, `DecoupledSamples`, `Chunks`, `RolloutOnly`, `MiniBatches` (the most; each behaviour has its number). `Backward`
may produce a gradient that is not finite, in which case `OptimizerStep` skips the update; where the code raises, `pc` becomes
`raised` (RuntimeError of `step`), `unbound` (UnboundLocalError of `fit`) or `unloadable` (the next start cannot read the
tracker). `Crash` may come anywhere and restarts from what is on disk.

Abstracted: rewards, advantages, the critic and `old_log_prob` (data, no control), ranks (each draws its own
noise; the norm that decides a skip is global, so all ranks take the same branch), sharding and offloading.
Assumed: optimizer `ivon`, the colocated (`naive`) checkpoint engine, no gradient scaler, `save_freq`, `test_freq` > 0,
`async_save` off, `resume_mode` auto.

### KarmarkarKarp, BatchPipeline

`KarmarkarKarp` is `karmarkar_karp` as a state machine, a merge of two heap entries per step, for any list, `k` and
`equal_size`; `KKSpec` allows jobs to follow one another and starts only those whose argument assertions hold. The order of
sets that tie is left open (`Arrangements`), as `list.sort` and the heap are only relied on for the order they define.
`BatchPipeline` is the way of a batch: `Balance` and `Reorder` at the trainer, chunks per rank, `Count` (an all-reduce),
`Split`/`SplitDone`, `Forward` (collective), `Collect` (`restore_dynamic_batch`, concatenation) and the comparison `union` makes
implicitly. Both partitions are made by `KarmarkarKarp`'s steps, and `PartitionsAsPrescribed` says that what is asked
of it is always a job it accepts. `SortBy` is `list.sort` for a key that tells any two elements apart: an element is put at the
place that has as many before it as come before it in the order. It stands for the checker's own sort, which has no definition to reason from.

## 3. What the runs check

Each property is stated in words above its definition. Every one has a mutant, a plausible bug in a mapped
definition that TLC shows to violate it; the mutated forms stand in the modules, marked as mutants, and no
specification uses them.

| Run | Question | Bounds |
|---|---|---|
| `message_queue` | `QueueIsNewestSuffix`, `Accounting`, `NoLostWakeup` | 2 consumers, capacity 2, 5 puts: overflow, waiting, clearing and shutdown combine |
| `async_partial` | `TypeOK`, `EachSampleOnce`, `OutstandingBound`, `GenerationNearStamp`, `ProcessorSurvives`, `BoundedStaleness`, refinement of `WeightSync`, `EndsUnlessStarved` | 5 samples, batches of 1, a synchronization after each, staleness 1 (limit 2), 2 generations at a time, 1 failing: interruptions, resubmission, requests on their way during a whole synchronization and generated by the next version, DONE during a pause |
| `synchronous` | `SynchronousTraining`, `NothingLost`, `ProcessorSurvives` | staleness 0, no partial rollout, 5 samples, 2 generations at a time, 1 failing, a synchronization every 2: the last window is half full when DONE comes |
| `generation` | `GenTypeOK`, `NothingStale`, `QuietWhileWriting`, `StampsBracket`, `ToolRunsOnce`, refinement of `ResumableGeneration` with its liveness | 2 servers; a response alone with up to 3 synchronizations and 4 or 5 tokens; two responses of one sample or of two samples with 1 synchronization; with tools and without |
| `transfer` | `TransferTypeOK`, `AnnouncedIntact`, refinement of `WeightDelivery`, `EndsUnlessLost` | both engines, 1 or 2 rollout ranks in replicas of 1 or 2, another trainer rank, 4 tensors in 3 buckets (two in one, a full one, one with room left), 2 updates in a row |
| `c3po` | `TrainingTypeOK`, `RestoresMean`, `MeanOnly`, `GroupSplit`, `StepHasItsSample`, `EachStepOnce`, `TrackerComplete`, `RecoveryPoint` | 2 prompts, groups of 4 in 2 chunks, 1 or 2 mini batches, 4 steps, a save every 2 and whenever the instance expires, 2 checkpoints kept, 1 skip, 2 crashes |
| `m3po` | `GradientAtRolloutWeights`, `SamplesPerStep` | 2 samples a step, 6 steps |
| `batch_pipeline` | `PipelineTypeOK`, `RowsMeetTheirOutputs`, `PartitionsSound`, `SpreadBounded`, `PartitionsAsPrescribed`, `Finishes` | 6 rows of 1 to 3 tokens, every assignment, 2 ranks, micro-batches of 4 tokens: 1 to 3 of them a rank, balanced or not |

The bounds are the smallest at which queue, limits, batches, window and run are all of different sizes or just
meet (a full queue, a full set of tasks, a half-collected window, the end of the run during a pause; a bucket exactly
full; three buckets, so that both buffers are used again). `MaxFailures`, `MaxNonFinite`, `MaxCrashes`, `MaxProduced`,
`MaxVersion`, `syncs` of a job and `Rounds` bound the environment, nothing in the code; `Room` is the tokens the engine
has beyond `response_length`, which decides which of the two limits ends a response.
`RequiredSamples` is 1: a larger batch only delays the trainer. With it `TestFreq = 2` decides whether the run ends with one
more synchronization. `OutstandingBound` is reached in `async_partial`, `BoundedStaleness` comes within one version of its
bound (a batch two versions old). `synchronous` also passes with `FairSpec` and `EndsUnlessStarved` (9,127 states): without
interruptions the run always ends. `transfer` also passes with three rollout ranks (442,243 states), where the middle rank of
the chain both receives and forwards; with two ranks the first does.

`async_partial` has a `VIEW`: two states that differ only in the stamp of a sample already trained on count as one
(443,421 states). No guard and no property reads such a stamp, and the sample is never stamped again, so the states it
unites have the same behaviours. Without it the run passes too, with `MaxFailures = 0` as it stands (685,956 states) and with
`MaxFailures = 1` for its invariants (1,214,056 states); the view leaves time for both together.
`CHECK_DEADLOCK FALSE` stands in the two configurations whose behaviours are finite (`transfer`, `batch_pipeline`);
`EndsUnlessLost` and `Finishes` say that they stop only where they should.

**Notable.** `OutstandingBound` is `max_required_samples + 1`: one more than the component's README promises, see
below. `BoundedStaleness` does not follow from it. After the monitor's late decision a sample can be stamped while the weights
after its stamp are written, reach its server after `resume()` and be generated by them; `pause()` of the next synchronization waits for its task, so
it is queued before that synchronization is over, and from then on the `max_required_samples - 1` samples that can stand before it are all it
waits for: a batch is at most `2 + (max_required_samples - 1) \div window` versions older than the trainer. A limit of 4 with
windows of 1, 3 generations at a time and `PendingSize = 1` reaches it within 8 samples; the search for that was confined to behaviours without
an interruption, as the whole instance is too large.
For the same reason `GenerationNearStamp` allows the engines one version more than the stamp. That a generation runs on the very version of its stamp is false: TLC finds
such a request in this run's instance (5 samples; not with 4), and `StampsBracket` has the same behaviour seen from the servers. `m3po` is run without skip and crash because each of them breaks it, see below. `StampsBracket` allows a token
one version newer than `param_version_end`: a run submitted while weights are written is stamped with the version
before. `SpreadBounded` holds of every State in the heap, not only of the result.

### Findings

Each is a run that TLC ends with a counterexample.

| Run | What the code does | What it says |
|---|---|---|
| `interrupted_for_ever` | interrupted samples count against the limit that is tested before they are taken: when they fill it nothing is generated any more and the job waits for ever | `fa/README.md:246` |
| `rollout_only` | `use_ivon_rollout_only=true` raises at the first step | `README.md:77` |
| `m3po_non_finite` | a skipped update leaves its gradient in `avg_grad` | `v/workers/actor/dp_actor.py:377,389` |
| `tool_calls` | a tool call cut by an interruption is never recognized, since only the tokens of the last request are searched for calls | `fa/agent_loop/partial_tool_agent_loop.py:32`, `fa/README.md:527` |

The models show more, at other values of the constants or in passing; these explain the assumptions of the theorems
and the shape of the properties:

*Asynchronous training.*
* How `interrupted_for_ever` comes about: `pause()` cancels the servers; the monitor, which decided to un-pause before it waited for
  the lock `pause()` held (`fully_async_rollouter.py:712`), wakes the processor during the synchronization; what it submits is
  refused and comes back interrupted; the recount (`:239`) counts those in `cancel_queue`, and those of them whose task has not been reaped yet
  a second time; `_should_pause_generation` is tested before `cancel_queue` (`:497`, `:520`) and stays true. No generation, no
  batch, no next synchronization. `EndsUnlessStarved` says that this is the only way not to end.
* Without partial rollout, where servers accept requests, the same late decision starts a generation while weights are written:
  `Synchronous.cfg` with `StaleNum = 1`, `MaxQueueSize = 3` and `GenerationNearStamp` is violated, although `fa/README.md:237` says
  that the rollouter adds no new tasks.
* The same configuration violates `NothingLost`: with one sample more than the limit outstanding, the queue fills up and drops its
  oldest, so a generated sample is never trained on.
* `AsyncPartial.cfg` with the second part of `SynchronousTraining` as an invariant: violated, the sample in the processor's hand is not
  recounted (`fa/fully_async_rollouter.py:238-240` against `fa/README.md:139-141`). `OutstandingBound` is what holds.
* With partial rollout a `pause()` after DONE was taken interrupts the last samples, and the processor, which waits only
  for `active_tasks`, returns: they stay in `cancel_queue` (`fully_async_rollouter.py:531` against `fa/README.md:246-247`).
  `EachSampleOnce` has them as a place of its own, and `NothingLost` is checked without partial rollout.
* `Synchronous.cfg` with `TriggerStep = 1`, `StaleNum = 2`, `StaleDen = 1`, `MaxQueueSize = 3` and `PendingSize = 1` violates
  `ProcessorSurvives`: `done_tasks` is read before it is assigned (`fully_async_rollouter.py:510`). The processor must submit two fillings
  of `pending_queue` (128 each) before it first waits for a task, which takes sixteen servers or more: while it waits for the feeder
  the second time, the first batch is trained on and `pause()` comes before it in the run queue.
* vLLM's server keeps the entries of a request interrupted before its first output for good
  (`fa/vllm_rollout/vllm_async_server.py:121`); the SGLang variant removes them. They are empty and harmless (`LeftoversAreEmpty`).

*Weight transfer.*
* Nothing waits for the subscriptions of the nccl engine: the barrier at `nccl_checkpoint_engine.py:217` orders the process group
  only. If the first metadata message is dropped, every rank waits for ever (`EndsUnlessLost` excepts it).
* The nixl engine with one rollout rank fails its own length assertion: `metadata[-rollout_world_size + 1 :]` is then the
  whole list (`nixl_checkpoint_engine.py:297`).
* `add_replicas` and `remove_replicas` have no callers; with `rebuild_group=False` a changed world size would fail
  the assertion at `nccl_checkpoint_engine.py:210`, although `checkpoint_engine/base.py:354` says the process group is rebuilt.

*Perturbed training.*
* `C3PO.cfg` with "`pc # "raised"`" for several mini batches: violated, only the first mini batch is perturbed. The recipes give
  `grpo_cliphigh` and `grpo_clipcov` four (`verl/recipes/run_rl.sh:139,154`), which `README.md:89` calls composable.
  With a skip among them even the check in `step()` (`ivon/ivon/_ivon.py:359`) is passed: a skipped update does not reset
  `count`, and the unperturbed gradient of the next mini batch is applied. `UnperturbedNeverApplied` excepts this case. In M3PO with several mini
  batches unperturbed gradients are averaged with the others.
* M3PO does not zero `p.grad` between samples (`dp_actor.py:550`), and the optimizer averages snapshots of it, running
  sums: the first gradient of a step has weight M/M, the last 1/M (`Backward` and `Restore` have both facts).
* M3PO writes its checkpoint inside the loop over the samples (`ray_trainer.py:1645`), with `count` and `avg_grad` of the samples so
  far, under the number of the running step. A job resumed from one begins the next step with them, so that step averages
  samples of two steps (`README.md:13` says M per step). The same path is registered once per sample, so with
  `Keep = 1` the rotation deletes the checkpoint just written.
* `Keep = 1`: between registering a checkpoint and writing the tracker, the tracker names a folder the rotation has removed,
  although `checkpoint_manager.py:148` says the existing one is kept until the new save completes. `TrackerComplete` and its theorem exclude it.
* The tracker is opened with `"w"` (`ray_trainer.py:952`), so it is empty until it is closed, and `int('')` raises at the next
  start; the comment at `ray_trainer.py:945` says "for atomic usage". `RecoveryPoint` says that this is the only such moment.
* After a restart `previous_saved_paths` is empty, so older folders are never rotated.
* `CriticWarmup = 2` ends every execution in `unbound`: `actor_output` is read before it is assigned
  (`ray_trainer.py:1655`), after a checkpoint of the perturbed parameters may have been written.

*Batch pipeline.*
* `rearrange_micro_batches` balances by workload and not by tokens, so a micro-batch can exceed `max_token_len`, which its
  docstring (`seqlen_balancing.py:362`) gives as the most it holds; three rows of 7, 7 and 6 with `max_token_len` 10 make two.
* The bound by the number of rows (`seqlen_balancing.py:387`) never decides: the assertion before it implies it.

### Fairness

`FairSpec` of FullyAsync has weak fairness only: the event loop runs when a coroutine is ready (asyncio's loop is FIFO, which the model
has as data, so no fairness between coroutines is assumed), every remote call and the timer answer, a started
generation ends (it has a token limit), the Trainer and the Synchronizer take their next step. No fairness is
given to a failing generation. `EndsUnlessStarved` needs no strong fairness: the lock is served in order.

`PartialGeneration` has weak fairness of a synchronization that has begun, of submitting what waits while the rollouter
runs, and per response of the server's and of the agent loop's steps. Nothing makes a synchronization begin, and their number is
bounded: with unbounded ones a response could be interrupted before its first token for ever.

`FairTransfer` and `FairPipeline` have weak fairness of the next-state relation alone. Their behaviours are finite (an update
moves each bucket once), so this only says that the program does not stop by itself; which process runs next is open.

## 4. What is proved

For every value of the constants their assumptions allow, by TLAPS:

* **MessageQueueProofs.** `MQInv` is the conjunction of the type invariant, the order of the queue, the accounting and
  the wake-up condition; it is inductive as it stands. `QueueAccounting`, `QueueOrder` and `NoWakeupIsLost` follow.
* **FullyAsyncProofs.** `TypeCorrect`: types, the position of `local_trigger_step` in its window, and that the
  counters stay natural numbers across the recount. Inductive, one lemma per group of actions.
  With partial rollout, `StampsAreNear` (`GenerationNearStamp`) and `WeightSyncImplemented` (`ImplementsWeightSync`). The inductive
  invariant `SyncInv`, which holds without partial rollout too, is needed because neither property says why: the servers' flag keeps
  generations out and is up from the answer to `cancel` until `resume` lowers it (`FlagInv`), the calls of one synchronization end before
  those of the next (`CallsInv`), and who knows which version at each moment (`VersionInv`). A request may be on its way for any time, so
  its stamp is what must be bounded: a task that has begun is stamped with the engines' version or the one before, and with the
  former from the moment `pause()` has waited for its predecessors until the next version is written (`StampInv`). That rests on
  the lock: when `gather` has returned no task is left, and none can be created before `pause()` has released the lock (`GoneInv`).
  The refinement then maps each step to a step or a stutter of `WeightSync`, in one lemma per kind of step.
* **FullyAsyncSampleProofs.** `EachSampleInOnePlace` (`EachSampleOnce`) and `OneSampleBeyondLimit` (`OutstandingBound`), both
  with and without partial rollout. For the first, `PlacesOf` counts the nine places of a sample as a sum, and every step
  changes at most two of its terms. `CountInv` alone is not inductive: a queue that held a sample twice would still have it after
  its head is taken (`QueuesInv`), and a sample in the hand would be overwritten by the next (`HandInv`). For the second,
  `RecountInv` says that `update_param_version` holds the lock between its first term and the assignment, so that nothing is submitted
  and what it has counted only becomes less; the sample in the processor's hand, taken without the lock, is all it misses
  (`LimitInv`). Hence the one sample by which `staleness_samples` can be exceeded, and why it is never two.
  `StalenessIsBounded` (`BoundedStaleness`) measures time in samples the trainer has taken (`Progress`), and gives each sample
  the `Progress` at which it must have been taken (`Latest`). `AgeInv` says that a batch has the size its place in the
  loop requires (`BatchInv`) and that each queued sample is near enough to the head (`StaleInv`). That a sample is queued before the
  second version after its stamp is in the engines is `StampInv`, for any time its request takes. It needs no
  assumption on the constants: without partial rollout `pause()` waits for the generations instead of interrupting them. `SynchronousIsOnPolicy` (`SynchronousTraining`) assumes `StaleNum = 0`
  alone. Its invariant `OneWindowInv` says that what is outstanding, collected and trained since the last synchronization is
  one window at most, and that the next one is not begun before the recount; hence a synchronization, for which the trainer needs
  the whole window, finds nothing outstanding, and every stamp is the current version (a task that waits for its first turn has
  none yet: `Waiting`, `Stamped`). The other parts are the sizes of batches, `SyncInv` for who knows which version, and that nothing comes
  after the end marker (`EndInv`).
  `NothingIsLost` (`NothingLost`) also assumes `~PartialRollout`, which is what
  `staleness_threshold = 0` amounts to (`fa/README.md:152`). DONE is fed last (`FedInv`); it was counted like a sample, so when the
  processor takes it one place of the window, and hence of the queue, is free (`FinishInv`), which the end marker takes: neither it nor a
  sample finds the queue full, and nothing stands behind it when the trainer stops at it (`MarkerInv`). With staleness the
  property is false: one sample beyond the limit may be outstanding, and a full queue drops its oldest.
  `DoneTasksAreAssigned` (`ProcessorSurvives`) assumes `PendingSize > MaxConcurrent`: `pending_queue` has 128 places, and
  `max_concurrent_samples` is 16 for each server and at most the limit, so it covers up to seven servers and, with a limit below 128,
  any number. The property is false from `MaxConcurrent = 2 * PendingSize` on (section 3); between the two it is only model-checked, on
  instances with `PendingSize = 2` and `MaxConcurrent` 2 and 3. Its
  invariant `FirstWait` follows the run queue: the monitor goes to sleep and the feeder fills `pending_queue` before the processor's
  first turn (`BeforeTurn`), which does not end before there are tasks to wait for (`InTurn`), because every sample counted was
  submitted and the feeder has left enough for as many tasks as may run at once. From then to the first return of `asyncio.wait`
  the processor holds the lock, so that `pause()` cannot empty `active_tasks`, and afterwards `done_tasks` stays assigned.
* **PartialGenerationProofs.** For any number of servers, responses and synchronizations. `GenInv` has, beside the types,
  three parts of the whole system: `SyncInv` says which servers and whether the worker have been told of a cancellation
  or of its end, and which version they have then; `IdsInv`, that a pause leaves at most one request id behind, so that
  `FreshId` always finds a new one; `LeftoversAreEmpty`, that entries left by a pause hold no tokens. The fourth is `RowInv` of each
  response: where its request stands in the tables of its server (`Served`, `Answered`), what runs when (`Running`),
  the versions of its tokens against its stamps (`Versions`), and that calls, answers and `called` keep step
  (`CallsAndAnswers`). A step of one response leaves `RowInv` of the others alone unless they share a server (`OthersRowInv`).
  From it follow `GenTypesCorrect`, `NothingIsStale`, `WritingIsQuiet`, `StampsAreBrackets`, `ToolsRunOnce`, and that every step
  is one of `ResumableGeneration` or a stutter (`ResumableRefinement`, the safety part of `ImplementsResumable`).
* **WeightTransferProofs.** For any number of rollout ranks, replicas, tensors and their sizes, and for both engines.
  `TransferInv` has a part for each process and a part for each link. `SenderOK` and `RankOK` say how far a process has
  got in the sequence of parameters: what a worker has loaded and cloned, what stands in the adapter's bucket, what the engine is
  yielding and what it is receiving follow one another without gap (`WorkerOK`, `AdapterOK`, `EngineOK`), the copies that
  have not run are the last ones of the bucket, and each buffer holds what its metadata says for as long as somebody reads it. `LinkOK`
  ties a rank to the one it receives from: an announced bucket begins where the receiver's ends, until it has been received;
  then both stand at the same parameter. This is why waiting for the previous announcement suffices for two buffers.
  `CallInv` follows the call of a replica's first rank to all its workers, and is what makes
  `Finalize` come after the last load. Then `TransferTypesCorrect` (`TransferTypeOK`: no socket ever queues a second
  message), `AnnouncedStaysIntact` (`AnnouncedIntact`), and `WeightDeliveryImplemented` (`ImplementsDelivery`): `Prepare` begins an
  update of the abstract specification, `LoadWeights` delivers, `Finalize` ends it, and everything else stutters. Assumed are
  `MaxRanks > 0` and `Sizes` no larger than a bucket, which the code asserts.
  `NoUpdateGetsStuck` is the safety side of `EndsUnlessLost`: unless nccl's socket lost a message, or nixl refused a
  single rollout rank, somebody can go on until the last update has ended. `ProgressInv` adds to `TransferInv` where the messages of
  a link are (`FlowInv`: what was announced is on its way, and the last bucket is announced once and received once), that a notification
  names the last announced bucket (`NoteInv`), and that a replica's first rank has called its workers (`CalledInv`).
  Suppose nobody can go on. A process that waits for its announcement to be received has a successor that waits for the same
  (`BlockedNext`), and the last rank has no successor, so nobody waits for that (`NobodyBlocked`). Then the sender has returned, hence each rank in the order
  of the chain (`AllReturned`), hence each adapter, and the update can end. As the prover has no `ENABLED`, `CanGoOn` spells out the guards of the
  actions, all but the late subscription of a rank (`Connected`), which frees nobody. To repeat the comparison with TLC, a module that extends
  this one and defines the invariant `CanGoOn => ENABLED TransferNext` is enough; it holds on instances of the size of the run `transfer`.
* **PerturbedTrainingProofs, checkpoints.** `TrainingTypesCorrect` for all variants; its invariant `TrainingInv` also bounds the counters of the
  loops and the steps found on disk. `TrackerNeverMisleads`: with one sample a step and all checkpoints or at least two kept
  (`KeepsTwo`), the tracker, unless empty, names a checkpoint that is whole, wherever the job crashed. The invariant
  `TrackInv` says where in `previous_saved_paths` the tracked step stands at each point of a save: it is the last when room
  is made, the last but one after registering, and absent after a restart, when nothing the rotation knows of is
  tracked. `FewStepsAreRepeated` (`RecoveryPoint`) has no hypothesis: the tracker is the last multiple of `save_freq`
  before the current step unless a save is under way, or something later (an expiring instance, the last step).
* **PerturbedTrainingProofs, perturbation.** `RestoreTakesAwayWhatWasAdded` for every variant, schedule, skip and crash, from
  `NoiseInv`, which says at which points of the loop the parameters are the mean, and that every checkpoint on disk was written at
  one of them. It and `NoiseStaysInside` need `CriticWarmup <= 1` (`NoWarmup`), since otherwise perturbed parameters are
  saved.
  `EveryStepHasItsSample` (`StepHasItsSample`) needs one sample and no rollout-only mode without chunks, and each of these is
  needed (see the findings); its invariant `SampleInv` follows `count` and the kind of gradient through the loop and
  through the mini batches.
  `EachStepIsMadeOnce` (`EachStepOnce`) is proved for `M3poM = 1` and `NoWarmup`: a warm-up saves a step
  that was not made, M3PO one whose samples are half collected. `SamplesOfTheirOwnStep` (`SamplesPerStep`) holds with a single
  sample always, and otherwise when no update is skipped (a skip keeps `avg_grad`) and, with M3PO, no crash comes between two samples;
  both exceptions are in the findings. `GroupsAreSplitEvenly` (`GroupSplit`) holds for any number of prompts, responses and
  chunks: every draw is larger than those before it, so that the vectors of the chunks differ, and row `k` of the
  reordered batch of `G` rows a prompt comes from prompt `k \div G` and from chunk `(k % G) \div PerIter`.
  `GradientsAreOfTheRollouts` (`GradientAtRolloutWeights`) needs that the perturbation is kept from the rollouts to the update
  (`KeepsNoise`: one chunk, no decoupled samples, not rollout-only) and a single mini batch, as only the first of several is perturbed.
* **KarmarkarKarpProofs.** `KKPartitionsSound` and `KKSpreadBounded`: what `karmarkar_karp` and its caller assert of the
  partitions, and how far apart they can be, for every list of weights and every `k` its callers may pass. The invariant `KKInv`
  adds to both what they rest on: the sets of a State stand in decreasing order (`InOrder`), a set without items weighs
  nothing (`EmptyIsLight`), and the sets of a State are all of one size, or none is empty or none has two items (`Alike`). The two
  `Start` lemmas need that sorting is a permutation (`Sorted`, by counting places) and that `L` positions cut into rows of `n`; a
  merge opposes heavy and light sets, so of two results the one with more from `s` has less from `t`. `SizesAreEqual` counts items by a
  bijection with pairs of a set and a place in it.
* **BatchPipelineProofs.** For any number of rows and ranks, any lengths and any `max_token_len` that holds the longest row.
  `PipelineInv` has `KKInv` for the job under way, whose list is that of the whole batch or of one chunk (`JobLength`), and
  follows the rows: `order` lists each once; the micro-batches of a rank, in a row, list the indices of its chunk, each once
  (`MicroSound`, `CutsUp`); what a rank has computed are the rows of its first micro-batches, in their order (`OutputsSound`). From it follow
  `PipelineTypesAlways`, `OutputsMeetRows` (`RowsMeetTheirOutputs`) and `PipelineImplementsKK` (`PartitionsAsPrescribed`), a
  refinement through which `PipelinePartitions` takes over what is proved of `karmarkar_karp`.
  The reorderings are proved one by one to keep a list of a set a list of it (`Lists`): sorting (`SortLists`), dealing into even and odd
  places, reversing, concatenating, and flattening (`EndsLightLists`, `ReorderLists`, `MicroLists`); `Restored` is about the inverse.
  Sums over sets and `FlattenSeq` are recursive functions of the library, chosen for satisfying an equation.
  That there is such a function, and what it computes, would be induction over data; instead of an induction theorem with an
  operator as its parameter, each proof takes a least counterexample (`LeastNumber`, from the well-foundedness of `<`; `SmallestSet`) or
  climbs from 1 to `n` in the set of numbers reached (`Climb`).
  Three theorems are the safety side of `Finishes`: `RanksForwardTogether`, that no rank waits in a collective forward for one that is
  done (its invariant `RanksAgree`: equally many micro-batches, equally many computed); `PartitioningGoesOn`, that while two States
  are left there is a first one, a second one, and a decreasing order of their united sets; `EachStepIsCloser`, that every
  step leaves fewer stages to come or less to do in the same stage.

**Only model-checked.** `EndsUnlessStarved`, `EndsUnlessLost`, `Finishes` and the liveness in `ImplementsResumable`: liveness
under fairness is out of the prover's reach, as it needs `ENABLED`. Of `Finishes` and `EndsUnlessLost` the safety side is proved (above). Every invariant and action property of the passing runs
is stated by a theorem. The invariants that a `violation` run refutes are of course not.

## 5. Not modelled, and why

* Of the modelled components: validation and its metrics queue, checkpoints of the asynchronous job, its initial
  synchronization and the cleanup of a failed job; `sync=True` and closures of IVON; asynchronous saving and remote copies;
  several agent-loop workers, limits on turns, interactions; the hccl and kimi engines, the other adapters (naive in
  the asynchronous job, sglang, trtllm), the shared-memory variant of the IPC buffer, LoRA adapters sent in several buckets;
  group and mini-batch balancing, automatic padding.
* SFT with IVON: a second client of Ivon whose order of calls is a special case. One-step-off-policy: planned.
* Everything else is `not_modelled` in `PROJECT.json` with its reason. Most of the repository by size is tensor
  programs: loss and advantage formulas, model definitions, kernels, Megatron and VLA variants, conversion tools. They have no
  state whose order of change could be wrong, or they copy the modelled loops for another back end; a model of their
  lines would be a transliteration of arithmetic.

## 6. Plan

1. (done) MessageQueue, Rollouter, FullyAsync with WeightSync; Ivon, PerturbedTraining, CheckpointFiles; PartialGeneration with
   ResumableGeneration; WeightTransfer with WeightDelivery; KarmarkarKarp, BatchPipeline; the proofs above.
2. Proofs of the safety side of the other liveness properties, as for `Finishes`: for `EndsUnlessLost` the measure that every step
   brings down (that somebody can go on is proved); for `EndsUnlessStarved` and `ImplementsResumable` both.
3. The validation queue and `validate_task` in MessageQueue and Rollouter; checkpoints of the asynchronous job with a crash.
4. `PosteriorTraining`, an abstract specification (draw, roll out, collect, step at the mean) that
   PerturbedTraining implements for B3PO and C3PO.
5. One-step-off-policy, with the modelled weight transfer between its two actors.
