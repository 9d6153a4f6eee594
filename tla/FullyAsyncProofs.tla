------------------------- MODULE FullyAsyncProofs -------------------------
(***************************************************************************)
(* Type correctness of the composed system, and the synchronization of the *)
(* weights.                                                                *)
(*                                                                         *)
(* TypeOK is inductive as it stands; there is one lemma per coroutine and  *)
(* actor, and in it one step per group of variables the actions change.    *)
(*                                                                         *)
(* With partial_rollout, pause ... resume is a weight synchronization that *)
(* no generation overlaps, for every number of samples, servers' answers   *)
(* and order of the coroutines.  That nothing generates rests on the flag  *)
(* of the servers, which stays up from the moment cancel has been answered *)
(* until resume lowers it.  That a request is begun by the version it is   *)
(* stamped with, or the next, rests on the lock: pause() waits for every   *)
(* task and keeps the lock until it returns, so the tasks of a             *)
(* synchronization are created, and stamped, after its pause() and are     *)
(* over before the next one returns.                                       *)
(***************************************************************************)
EXTENDS FullyAsync, FiniteSetTheorems, TLAPS

\* Every step of the system, one disjunct per coroutine, task and actor.
LEMMA NextCases ==
    ASSUME Next
    PROVE  \/ /\ \/ TaskBegins \/ Feed \/ Processor \/ Monitor \/ Main \/ Pause \/ Update \/ Resume
                 \/ Reply \/ \E s \in Samples : Task(s) \/ TaskRaises(s)
              /\ UNCHANGED <<trainerVars, engineVars>>
           \/ Trainer \/ Synchronizer
           \/ UNCHANGED vars
BY Zenon DEF Next, RollouterNext, EventLoop

\* len(active_tasks) is a number: there are finitely many tasks.
LEMMA LiveTasksCount ==
    ASSUME TaskTypeOK
    PROVE  Cardinality(LiveTasks) \in Nat /\ ActiveCount \in Nat
<1>1. IsFiniteSet(1..TotalSamples)
  BY FS_Interval, RolloutAssumption
<1>2. IsFiniteSet(LiveTasks)
  BY <1>1, FS_Subset DEF LiveTasks, Samples
<1>3. Cardinality(LiveTasks) \in Nat
  BY <1>2, FS_CardinalityType
<1>. QED  BY <1>3 DEF ActiveCount, TaskTypeOK

\* what the event loop's queue holds
Turns == Coroutines \union {"task"}

\* What a step has made runnable are coroutines.
LEMMA WakeType ==
    ASSUME NEW rest \in Seq(Turns), Wake(rest)
    PROVE  ready' \in Seq(Turns)
<1>1. ASSUME NEW c \in Coroutines
      PROVE  Enters(c, rest) \in Seq(Turns)
  <2>1. c \in Turns
    BY DEF Turns
  <2>2. <<c>> \in Seq(Turns) /\ <<>> \in Seq(Turns)
    BY ONLY <2>1
  <2>. QED  BY <2>2, Zenon DEF Enters
<1>2. /\ Enters("feed", rest) \in Seq(Turns) /\ Enters("proc", rest) \in Seq(Turns)
      /\ Enters("mon", rest) \in Seq(Turns) /\ Enters("main", rest) \in Seq(Turns)
      /\ Enters("pause", rest) \in Seq(Turns) /\ Enters("update", rest) \in Seq(Turns)
      /\ Enters("resume", rest) \in Seq(Turns)
  BY <1>1 DEF Coroutines
<1>. QED  BY <1>2 DEF Wake

\* Taking and releasing the lock keep its queue a queue of coroutines.
LEMMA LockType ==
    ASSUME lock \in Seq(Coroutines)
    PROVE  /\ \A c \in Coroutines : Request(c) => lock' \in Seq(Coroutines)
           /\ lock # <<>> /\ Unlock => lock' \in Seq(Coroutines)
BY DEF Request, Unlock

\* A step that leaves a group of variables alone keeps their types.
LEMMA Frames ==
    ASSUME TypeOK
    PROVE /\ UNCHANGED flagVars => FlagTypeOK'
          /\ UNCHANGED versionVars => VersionTypeOK'
          /\ UNCHANGED sampleVars => SampleTypeOK'
          /\ UNCHANGED taskVars => TaskTypeOK'
          /\ UNCHANGED procVars => ProcTypeOK'
          /\ UNCHANGED loopVars => LoopTypeOK'
          /\ UNCHANGED callVars => CallTypeOK'
          /\ UNCHANGED queueVars => QueueTypeOK'
          /\ UNCHANGED trainerVars => TrainerTypeOK'
          /\ UNCHANGED engineVars => EngineTypeOK'
<1>. USE DEF TypeOK, RollouterTypeOK
<1>1. UNCHANGED flagVars => FlagTypeOK'
  BY DEF flagVars, FlagTypeOK
<1>2. UNCHANGED versionVars => VersionTypeOK'
  BY DEF versionVars, VersionTypeOK
<1>3. UNCHANGED sampleVars => SampleTypeOK'
  BY DEF sampleVars, SampleTypeOK
<1>4. UNCHANGED taskVars => TaskTypeOK'
  BY DEF taskVars, TaskTypeOK
<1>5. UNCHANGED procVars => ProcTypeOK'
  BY DEF procVars, ProcTypeOK
<1>6. UNCHANGED loopVars => LoopTypeOK'
  BY DEF loopVars, LoopTypeOK
<1>7. UNCHANGED callVars => CallTypeOK'
  BY DEF callVars, CallTypeOK
<1>8. UNCHANGED queueVars => QueueTypeOK'
  BY DEF queueVars, mqVars, QueueTypeOK, MQTypeOK
<1>9. UNCHANGED trainerVars => TrainerTypeOK'
  BY DEF trainerVars, TrainerTypeOK
<1>10. UNCHANGED engineVars => EngineTypeOK'
  BY DEF engineVars, EngineTypeOK
<1>. QED  BY <1>1, <1>2, <1>3, <1>4, <1>5, <1>6, <1>7, <1>8, <1>9, <1>10

\* put_sample keeps the types of the message queue.
LEMMA RemotePutType ==
    ASSUME TypeOK, NEW s \in Samples \union {NoSample}, RemotePut(s)
    PROVE  QueueTypeOK'
<1>. USE DEF TypeOK, RollouterTypeOK, QueueTypeOK, MQTypeOK, RemotePut, PutSample
<1>1. MQTypeOK'
  <2>1. /\ UNCHANGED <<closed, total_consumed, cleared, mq_param_version>>
        /\ total_produced' \in Nat /\ dropped_samples' \in Nat
    OBVIOUS
  <2>2. queue' \in Seq(Nat)
    <3>1. s \in Nat /\ queue \in Seq(Nat)
      BY RolloutAssumption DEF Samples, NoSample
    <3>2. QueueFull => queue # <<>>
      BY MessageQueueAssumption DEF QueueFull
    <3>. QED  BY ONLY <3>1, <3>2, RemotePut(s) DEF RemotePut, PutSample
  <2>3. getter' \in [Consumers -> {"idle", "waiting", "woken"}]
    BY DEF Notified
  <2>. QED  BY <2>1, <2>2, <2>3, Zenon
<1>2. queue' \in Seq(Samples \union {NoSample})
  BY MessageQueueAssumption DEF QueueFull
<1>3. dropped' \subseteq Samples
  <2>1. QueueFull => Head(queue) \in Samples \union {NoSample}
    BY MessageQueueAssumption DEF QueueFull
  <2>. QED  BY <2>1
<1>. QED  BY <1>1, <1>2, <1>3

\* The steps of _processor_worker.
LEMMA ProcType ==
    ASSUME TypeOK, Processor
    PROVE  /\ lock' \in Seq(Coroutines)
           /\ FlagTypeOK' /\ VersionTypeOK' /\ SampleTypeOK' /\ TaskTypeOK' /\ ProcTypeOK'
           /\ LoopTypeOK' /\ CallTypeOK' /\ QueueTypeOK'
<1>. USE DEF Processor, ProcPause, ProcMark, ProcReapLock, ProcReapWait,
     ProcReapNothing, ProcReap, ProcFinished, ProcReaped, ProcSleep, ProcWoken, ProcRestart,
     ProcTakeCancelled, ProcAwaitPending, ProcTakePending, ProcSubmit, procFrame
<1>1. lock' \in Seq(Coroutines)
  BY LockType DEF TypeOK, RollouterTypeOK, SchedTypeOK, Coroutines, Holds
<1>2. UNCHANGED <<loopVars, callVars, queueVars>>
  OBVIOUS
<1>3. FlagTypeOK'
  <2>1. UNCHANGED <<running, monitor_loop_trigger>> /\ (paused' = TRUE \/ paused' = paused)
    BY DEF flagVars
  <2>. QED  BY <2>1, Zenon DEF TypeOK, RollouterTypeOK, FlagTypeOK
<1>4. VersionTypeOK'
  <2>1. /\ current_param_version' = current_param_version
        /\ staleness_samples' = staleness_samples \/ staleness_samples' = staleness_samples + 1
    BY DEF versionVars
  <2>2. current_param_version \in Nat /\ staleness_samples \in Nat
    BY DEF TypeOK, RollouterTypeOK, VersionTypeOK
  <2>. QED  BY ONLY <2>1, <2>2 DEF VersionTypeOK
<1>5. SampleTypeOK'
  <2>1. /\ fed' = fed
        /\ pending_queue' = pending_queue \/ (pending_queue # <<>> /\ pending_queue' = Tail(pending_queue))
        /\ cancel_queue' = cancel_queue \/ (cancel_queue # <<>> /\ cancel_queue' = Tail(cancel_queue))
    BY DEF sampleVars
  <2>2. SampleTypeOK
    BY DEF TypeOK, RollouterTypeOK
  <2>3. pending_queue' \in Seq(Samples \union {NoSample})
    BY ONLY <2>1, <2>2 DEF SampleTypeOK
  <2>4. cancel_queue' \in Seq(Samples)
    BY ONLY <2>1, <2>2 DEF SampleTypeOK
  <2>. QED  BY ONLY <2>1, <2>2, <2>3, <2>4 DEF SampleTypeOK
<1>6. TaskTypeOK'
  <2>1. serversPaused' = serversPaused /\ failed' = failed
    BY DEF taskVars
  <2>2. /\ stage' \in [Samples -> {"none", "new", "call", "gen", "cut", "put", "ret"}]
        /\ finished' \in Nat /\ raised' \in Nat
        /\ started_version' \in [Samples -> Nat]
    BY DEF TypeOK, RollouterTypeOK, TaskTypeOK, VersionTypeOK, taskVars
  <2>3. created' \in Seq(Samples \union {NoSample})
    <3>1. created' = created \/ created' = Append(created, hand)
      BY DEF taskVars
    <3>2. created \in Seq(Samples \union {NoSample}) /\ hand \in Samples \union {NoSample}
      BY DEF TypeOK, RollouterTypeOK, TaskTypeOK, ProcTypeOK
    <3>. QED  BY ONLY <3>1, <3>2
  <2>. QED  BY <2>1, <2>2, <2>3, Zenon DEF TypeOK, RollouterTypeOK, TaskTypeOK
<1>7. ProcTypeOK'
  <2>1. doneTasksBound' = TRUE \/ doneTasksBound' = doneTasksBound
    OBVIOUS
  <2>2. /\ procPc' \in {"top", "mark", "reap", "reapLocked", "reapWait", "sleep", "sleeping",
               "sleepWoken", "submit", "submitting", "submitWoken", "get", "ended", "crashed"}
        /\ reaping' \in {"drain", "finish", "limit"}
    BY DEF TypeOK, RollouterTypeOK, ProcTypeOK, ProcGoto
  <2>3. hand' \in Samples \union {NoSample}
    BY DEF TypeOK, RollouterTypeOK, ProcTypeOK, SampleTypeOK
  <2>. QED  BY <2>1, <2>2, <2>3, Zenon DEF TypeOK, RollouterTypeOK, ProcTypeOK
<1>. QED  BY <1>1, <1>2, <1>3, <1>4, <1>5, <1>6, <1>7, Frames

\* The steps of _feed_samples, the monitor and the main coroutine.
LEMMA LoopsType ==
    ASSUME TypeOK, Feed \/ Monitor \/ Main \/ MonTimer \/ MainSentinel
    PROVE  /\ lock' \in Seq(Coroutines)
           /\ FlagTypeOK' /\ VersionTypeOK' /\ SampleTypeOK' /\ TaskTypeOK' /\ ProcTypeOK'
           /\ LoopTypeOK' /\ CallTypeOK' /\ QueueTypeOK'
<1>1. CASE Feed
  <2>. USE <1>1 DEF Feed, FeedSample, FeedDone, FeedItem
  <2>1. UNCHANGED <<lock, taskVars, procVars, callVars, flagVars, versionVars, queueVars,
                    loopVars>>
    OBVIOUS
  <2>2. SampleTypeOK'
    <3>1. /\ fed' = fed + 1 /\ cancel_queue' = cancel_queue
          /\ \/ fed < TotalSamples /\ pending_queue' = Append(pending_queue, fed + 1)
             \/ pending_queue' = Append(pending_queue, NoSample)
      OBVIOUS
    <3>2. SampleTypeOK
      BY DEF TypeOK, RollouterTypeOK
    <3>3. fed < TotalSamples => fed + 1 \in Samples
      BY <3>2, RolloutAssumption DEF SampleTypeOK, Samples
    <3>4. pending_queue' \in Seq(Samples \union {NoSample})
      BY ONLY <3>1, <3>2, <3>3 DEF SampleTypeOK
    <3>. QED  BY ONLY <3>1, <3>2, <3>4 DEF SampleTypeOK
  <2>. QED  BY <2>1, <2>2, Frames DEF TypeOK, RollouterTypeOK, SchedTypeOK
<1>2. CASE Monitor \/ MonTimer
  <2>. USE <1>2 DEF Monitor, MonLock, MonTest, MonTimer, MonDecide, MonSkip, MonKick, monFrame
  <2>1. UNCHANGED <<sampleVars, taskVars, callVars, versionVars, queueVars>>
    OBVIOUS
  <2>2. lock' \in Seq(Coroutines)
    BY LockType DEF TypeOK, RollouterTypeOK, SchedTypeOK, Coroutines, Holds
  <2>3. LoopTypeOK'
    BY DEF TypeOK, RollouterTypeOK, LoopTypeOK
  <2>4. UNCHANGED <<running, monitor_loop_trigger>> /\ (paused' = FALSE \/ paused' = paused)
    OBVIOUS
  <2>5. FlagTypeOK'
    BY <2>4, Zenon DEF TypeOK, RollouterTypeOK, FlagTypeOK
  <2>6. /\ UNCHANGED <<hand, reaping, doneTasksBound>>
        /\ procPc' \in {procPc, "sleepWoken", "submitWoken"}
    BY DEF NotifyAll
  <2>7. ProcTypeOK'
    BY <2>6 DEF TypeOK, RollouterTypeOK, ProcTypeOK
  <2>. QED  BY <2>1, <2>2, <2>3, <2>5, <2>7, Frames
<1>3. CASE Main \/ MainSentinel
  <2>. USE <1>3 DEF Main, MainFinish, MainSentinel, MainLock, MainStop, mainFrame
  <2>1. UNCHANGED <<sampleVars, taskVars, procVars, callVars, versionVars>>
    OBVIOUS
  <2>2. lock' \in Seq(Coroutines)
    BY LockType DEF TypeOK, RollouterTypeOK, SchedTypeOK, Coroutines, Holds
  <2>3. LoopTypeOK'
    BY DEF TypeOK, RollouterTypeOK, LoopTypeOK
  <2>4. UNCHANGED <<paused, monitor_loop_trigger>> /\ (running' = FALSE \/ running' = running)
    OBVIOUS
  <2>5. FlagTypeOK'
    BY <2>4, Zenon DEF TypeOK, RollouterTypeOK, FlagTypeOK
  <2>6. QueueTypeOK'
    BY RemotePutType, Frames
  <2>. QED  BY <2>1, <2>2, <2>3, <2>5, <2>6, Frames
<1>. QED  BY <1>1, <1>2, <1>3

\* The types after a task's first turn.
LEMMA BeginType ==
    ASSUME TypeOK, TaskBegins
    PROVE  /\ lock' \in Seq(Coroutines)
           /\ FlagTypeOK' /\ VersionTypeOK' /\ SampleTypeOK' /\ TaskTypeOK' /\ ProcTypeOK'
           /\ LoopTypeOK' /\ CallTypeOK' /\ QueueTypeOK'
<1>1. UNCHANGED <<lock, sampleVars, procVars, callVars, flagVars, versionVars, queueVars, loopVars>>
  BY DEF TaskBegins
<1>2. TaskTypeOK'
  <2>1. UNCHANGED <<finished, raised, serversPaused, failed>>
    BY DEF TaskBegins
  <2>2. stage' \in [Samples -> {"none", "new", "call", "gen", "cut", "put", "ret"}]
    BY DEF TaskBegins, TypeOK, RollouterTypeOK, TaskTypeOK
  <2>3. started_version' \in [Samples -> Nat]
    BY DEF TaskBegins, TypeOK, RollouterTypeOK, TaskTypeOK, VersionTypeOK
  <2>4. created' \in Seq(Samples \union {NoSample})
    BY DEF TaskBegins, TypeOK, RollouterTypeOK, TaskTypeOK
  <2>. QED  BY <2>1, <2>2, <2>3, <2>4, Zenon DEF TypeOK, RollouterTypeOK, TaskTypeOK
<1>. QED  BY <1>1, <1>2, Frames DEF TypeOK, RollouterTypeOK, SchedTypeOK

\* A step of a task changes the task's own state, cancel_queue and the message queue.
LEMMA TaskType ==
    ASSUME TypeOK, NEW s \in Samples, Task(s) \/ TaskRaises(s)
    PROVE  /\ lock' \in Seq(Coroutines)
           /\ FlagTypeOK' /\ VersionTypeOK' /\ SampleTypeOK' /\ TaskTypeOK' /\ ProcTypeOK'
           /\ LoopTypeOK' /\ CallTypeOK' /\ QueueTypeOK'
<1>. USE DEF Task, TaskArrives, TaskGenerated, TaskPut, TaskReturned, TaskCancelled, TaskRaises, taskFrame
<1>1. UNCHANGED <<lock, procVars, callVars, flagVars, versionVars, loopVars>>
  OBVIOUS
<1>2. SampleTypeOK'
  <2>1. /\ fed' = fed /\ pending_queue' = pending_queue
        /\ cancel_queue' = cancel_queue \/ cancel_queue' = Append(cancel_queue, s)
    OBVIOUS
  <2>2. SampleTypeOK
    BY DEF TypeOK, RollouterTypeOK
  <2>. QED  BY ONLY <2>1, <2>2, s \in Samples DEF SampleTypeOK
<1>3. TaskTypeOK'
  <2>1. serversPaused' = serversPaused /\ created' = created
    OBVIOUS
  <2>2. /\ stage' \in [Samples -> {"none", "new", "call", "gen", "cut", "put", "ret"}]
        /\ finished' \in Nat /\ raised' \in Nat
        /\ started_version' \in [Samples -> Nat]
        /\ failed' \subseteq Samples
    BY DEF TypeOK, RollouterTypeOK, TaskTypeOK
  <2>. QED  BY <2>1, <2>2, Zenon DEF TypeOK, RollouterTypeOK, TaskTypeOK
<1>4. QueueTypeOK'
  BY RemotePutType, Frames DEF NoSample
<1>. QED  BY <1>1, <1>2, <1>3, <1>4, Frames DEF TypeOK, RollouterTypeOK, SchedTypeOK

\* The steps of pause() and of the servers' answers to it.
LEMMA PauseType ==
    ASSUME TypeOK, Pause \/ CancelReply \/ ClearReply
    PROVE  /\ lock' \in Seq(Coroutines)
           /\ FlagTypeOK' /\ VersionTypeOK' /\ SampleTypeOK' /\ TaskTypeOK' /\ ProcTypeOK'
           /\ LoopTypeOK' /\ CallTypeOK' /\ QueueTypeOK'
<1>. USE DEF Pause, PauseLock, PauseBegin, CancelReply, PauseGather, PauseGathered, ClearReply,
             PauseDone, pauseFrame
<1>1. UNCHANGED <<sampleVars, procVars, versionVars, queueVars, loopVars>>
  OBVIOUS
<1>2. lock' \in Seq(Coroutines)
  BY LockType DEF TypeOK, RollouterTypeOK, SchedTypeOK, Coroutines, Holds
<1>3. FlagTypeOK'
  <2>1. /\ running' = running /\ (paused' = TRUE \/ paused' = paused)
        /\ monitor_loop_trigger' = FALSE \/ monitor_loop_trigger' = monitor_loop_trigger
    OBVIOUS
  <2>. QED  BY <2>1, Zenon DEF TypeOK, RollouterTypeOK, FlagTypeOK
<1>4. CallTypeOK'
  BY DEF TypeOK, RollouterTypeOK, CallTypeOK, updateVars
<1>5. TaskTypeOK'
  <2>1. /\ created' = created /\ started_version' = started_version /\ failed' = failed
        /\ serversPaused' = TRUE \/ serversPaused' = serversPaused
        /\ finished' = 0 \/ finished' = finished
        /\ raised' = 0 \/ raised' = raised
    OBVIOUS
  <2>2. stage' \in [Samples -> {"none", "new", "call", "gen", "cut", "put", "ret"}]
    BY DEF TypeOK, RollouterTypeOK, TaskTypeOK
  <2>3. finished' \in Nat /\ raised' \in Nat
    BY <2>1 DEF TypeOK, RollouterTypeOK, TaskTypeOK
  <2>. QED  BY <2>1, <2>2, <2>3, Zenon DEF TypeOK, RollouterTypeOK, TaskTypeOK
<1>. QED  BY <1>1, <1>2, <1>3, <1>4, <1>5, Frames

\* The steps of update_param_version().
LEMMA UpdateType ==
    ASSUME TypeOK, Update \/ SizeReply \/ ValidateReply
    PROVE  /\ lock' \in Seq(Coroutines)
           /\ FlagTypeOK' /\ VersionTypeOK' /\ SampleTypeOK' /\ TaskTypeOK' /\ ProcTypeOK'
           /\ LoopTypeOK' /\ CallTypeOK' /\ QueueTypeOK'
<1>. USE DEF Update, UpdateLock, UpdateCount, SizeReply, UpdateAssign, ValidateReply, UpdateDone,
             updateFrame
<1>1. UNCHANGED <<sampleVars, taskVars, procVars, flagVars, queueVars, loopVars>>
  OBVIOUS
<1>2. lock' \in Seq(Coroutines)
  BY LockType DEF TypeOK, RollouterTypeOK, SchedTypeOK, Coroutines, Holds
<1>3. VersionTypeOK'
  BY DEF TypeOK, RollouterTypeOK, VersionTypeOK, versionVars, CallTypeOK
<1>4. CallTypeOK'
  <2>1. ActiveCount \in Nat /\ Len(cancel_queue) \in Nat /\ Len(queue) \in Nat
    BY LiveTasksCount DEF TypeOK, RollouterTypeOK, SampleTypeOK, QueueTypeOK
  <2>2. count' \in Nat
    BY <2>1 DEF TypeOK, RollouterTypeOK, CallTypeOK
  <2>. QED  BY <2>2 DEF TypeOK, RollouterTypeOK, CallTypeOK
<1>. QED  BY <1>1, <1>2, <1>3, <1>4, Frames

\* The steps of resume().
LEMMA ResumeType ==
    ASSUME TypeOK, Resume \/ ServersReply
    PROVE  /\ lock' \in Seq(Coroutines)
           /\ FlagTypeOK' /\ VersionTypeOK' /\ SampleTypeOK' /\ TaskTypeOK' /\ ProcTypeOK'
           /\ LoopTypeOK' /\ CallTypeOK' /\ QueueTypeOK'
<1>. USE DEF Resume, ResumeLock, ResumeBegin, ServersReply, ResumeDone, resumeFrame
<1>1. UNCHANGED <<sampleVars, versionVars, queueVars, loopVars>>
  OBVIOUS
<1>2. lock' \in Seq(Coroutines)
  BY LockType DEF TypeOK, RollouterTypeOK, SchedTypeOK, Coroutines, Holds
<1>3. FlagTypeOK'
  <2>1. /\ running' = running /\ (paused' = FALSE \/ paused' = paused)
        /\ monitor_loop_trigger' = TRUE \/ monitor_loop_trigger' = monitor_loop_trigger
    OBVIOUS
  <2>. QED  BY <2>1, Zenon DEF TypeOK, RollouterTypeOK, FlagTypeOK
<1>4. CallTypeOK'
  BY DEF TypeOK, RollouterTypeOK, CallTypeOK, updateVars
<1>5. TaskTypeOK'
  <2>1. /\ UNCHANGED <<created, stage, finished, raised, started_version, failed>>
        /\ serversPaused' = FALSE \/ serversPaused' = serversPaused
    OBVIOUS
  <2>. QED  BY <2>1, Zenon DEF TypeOK, RollouterTypeOK, TaskTypeOK
<1>6. ProcTypeOK'
  <2>1. /\ UNCHANGED <<hand, reaping, doneTasksBound>>
        /\ procPc' \in {procPc, "sleepWoken", "submitWoken"}
    BY DEF NotifyAll
  <2>. QED  BY <2>1 DEF TypeOK, RollouterTypeOK, ProcTypeOK
<1>. QED  BY <1>1, <1>2, <1>3, <1>4, <1>5, <1>6, Frames

\* The trainer takes samples from the queue and starts the synchronizer's calls.
LEMMA TrainerType ==
    ASSUME TypeOK, Trainer \/ Synchronizer
    PROVE  /\ lock' \in Seq(Coroutines)
           /\ FlagTypeOK' /\ VersionTypeOK' /\ SampleTypeOK' /\ TaskTypeOK' /\ ProcTypeOK'
           /\ LoopTypeOK' /\ CallTypeOK' /\ QueueTypeOK' /\ TrainerTypeOK' /\ EngineTypeOK'
<1>. USE DEF Trainer, TrainerWait, TrainerGet, TrainerGetNone, TrainerTrain, TrainerDrained,
             TrainerEnd, Synchronizer, SyncPause, SyncWeights, SyncDone, rollouterInside
<1>1. UNCHANGED <<lock, sampleVars, taskVars, procVars, flagVars, versionVars, loopVars>>
  OBVIOUS
<1>2. CallTypeOK'
  BY DEF TypeOK, RollouterTypeOK, CallTypeOK, callVars, TrainerTypeOK
<1>3. QueueTypeOK'
  <2>1. CASE UNCHANGED queueVars
    BY <2>1, Frames
  <2>2. CASE UpdateMQVersion(trainer_version) /\ dropped' = dropped
    BY <2>2, Zenon DEF UpdateMQVersion, TypeOK, RollouterTypeOK, QueueTypeOK, MQTypeOK,
       TrainerTypeOK
  <2>3. CASE (WaitSample("trainer") \/ TakeSample("trainer")) /\ dropped' = dropped
    <3>. USE DEF TypeOK, RollouterTypeOK, QueueTypeOK, MQTypeOK
    <3>1. /\ UNCHANGED <<closed, total_produced, dropped_samples, cleared, mq_param_version>>
          /\ queue' = queue \/ (queue # <<>> /\ queue' = Tail(queue))
          /\ total_consumed' \in Nat
      BY <2>3 DEF WaitSample, TakeSample
    <3>2. getter' \in [Consumers -> {"idle", "waiting", "woken"}]
      BY <2>3 DEF WaitSample, TakeSample
    <3>3. queue' \in Seq(Nat) /\ queue' \in Seq(Samples \union {NoSample})
      BY <3>1, SMTT(30)
    <3>. QED  BY <2>3, <3>1, <3>2, <3>3, Zenon
  <2>. QED  BY <2>1, <2>2, <2>3
<1>4. TrainerTypeOK'
  <2>1. trainPc' \in {"get", "train", "waitLast", "pausing", "syncing", "drained", "waitEnd",
                      "ended"}
    BY DEF TypeOK, TrainerTypeOK, trainerVars, StartSync
  <2>2. /\ batch' \subseteq Samples /\ trained' \subseteq Samples
        /\ finishing' = TRUE \/ finishing' = finishing
    <3>1. TakeSample("trainer") => Head(queue) \in Samples \union {NoSample}
      BY DEF TakeSample, TypeOK, RollouterTypeOK, QueueTypeOK
    <3>. QED  BY <3>1 DEF TypeOK, TrainerTypeOK, trainerVars
  <2>3. local_trigger_step' \in 1..TriggerStep /\ trainer_version' \in Nat
    <3>1. local_trigger_step \in 1..TriggerStep /\ trainer_version \in Nat
      BY DEF TypeOK, TrainerTypeOK
    <3>. QED  BY <3>1, RolloutAssumption DEF trainerVars, StartSync
  <2>. QED  BY <2>1, <2>2, <2>3, Zenon DEF TypeOK, TrainerTypeOK
<1>5. EngineTypeOK'
  <2>1. /\ transferring' \in {TRUE, FALSE, transferring}
        /\ engine_version' \in {engine_version, trainer_version}
    BY DEF engineVars
  <2>. QED  BY <2>1, Zenon DEF TypeOK, TrainerTypeOK, EngineTypeOK
<1>. QED  BY <1>1, <1>2, <1>3, <1>4, <1>5, Frames DEF TypeOK, RollouterTypeOK, SchedTypeOK

\* What a step may have created is a task.
LEMMA NewTaskType == NewTask \in Seq(Turns)
<1>1. "task" \in Turns
  BY DEF Turns
<1>2. <<"task">> \in Seq(Turns) /\ <<>> \in Seq(Turns)
  BY ONLY <1>1
<1>. QED  BY <1>2, Zenon DEF NewTask

\* Whatever runs, the event loop's queue holds coroutines and new tasks.
LEMMA ReadyType ==
    ASSUME TypeOK, [Next]_vars
    PROVE  ready' \in Seq(Turns)
<1>1. ready \in Seq(Turns)
  BY DEF TypeOK, RollouterTypeOK, SchedTypeOK, Turns
<1>2. External => ready' \in Seq(Turns)
  BY <1>1, WakeType DEF External
<1>3. ready # <<>> => Tail(ready) \in Seq(Turns)
  BY <1>1
<1>4. ASSUME NEW c \in Coroutines, Runs(c), KeepsRunning(c)
      PROVE  ready' \in Seq(Turns)
  <2>1. PICK rest \in Seq(Turns) : Wake(rest \o NewTask)
    BY <1>1, <1>3, <1>4 DEF Runs, KeepsRunning
  <2>2. rest \o NewTask \in Seq(Turns)
    BY NewTaskType
  <2>. QED  BY <2>1, <2>2, WakeType
<1>5. Runs("task") /\ Wake(Tail(ready)) => ready' \in Seq(Turns)
  BY <1>3, WakeType DEF Runs
<1>6. EventLoop => ready' \in Seq(Turns)
  BY <1>4, <1>5, Zenon DEF EventLoop, Coroutines
<1>. QED  BY <1>1, <1>2, <1>6, Zenon DEF Next, RollouterNext, vars, rollouterVars

\* The initial state.
LEMMA InitType == Init => TypeOK
<1>. SUFFICES ASSUME Init PROVE TypeOK
  OBVIOUS
<1>. USE DEF Init, RolloutInit, MQInit
<1>1. SchedTypeOK /\ SampleTypeOK /\ CallTypeOK /\ LoopTypeOK /\ VersionTypeOK
  BY DEF SchedTypeOK, Coroutines, SampleTypeOK, CallTypeOK, LoopTypeOK, VersionTypeOK
<1>2. FlagTypeOK /\ ProcTypeOK
  BY DEF FlagTypeOK, ProcTypeOK
<1>3. TaskTypeOK
  <2>1. created \in Seq(Samples \union {NoSample})
    OBVIOUS
  <2>2. serversPaused \in BOOLEAN
    BY Zenon
  <2>3. /\ stage \in [Samples -> {"none", "new", "call", "gen", "cut", "put", "ret"}]
        /\ finished \in Nat /\ raised \in Nat /\ failed \subseteq Samples
        /\ started_version \in [Samples -> Nat]
    OBVIOUS
  <2>. QED  BY <2>1, <2>2, <2>3, Zenon DEF TaskTypeOK
<1>4. QueueTypeOK
  <2>1. closed \in BOOLEAN
    BY Zenon
  <2>2. /\ queue \in Seq(Nat) /\ queue \in Seq(Samples \union {NoSample})
        /\ getter \in [Consumers -> {"idle", "waiting", "woken"}]
        /\ total_produced \in Nat /\ total_consumed \in Nat /\ dropped_samples \in Nat
        /\ cleared \in Nat /\ mq_param_version \in Nat /\ dropped \subseteq Samples
    OBVIOUS
  <2>. QED  BY <2>1, <2>2 DEF QueueTypeOK, MQTypeOK
<1>5. TrainerTypeOK /\ EngineTypeOK
  <2>1. finishing \in BOOLEAN /\ transferring \in BOOLEAN
    BY Zenon
  <2>2. local_trigger_step \in 1..TriggerStep
    BY RolloutAssumption
  <2>. QED  BY <2>1, <2>2 DEF TrainerTypeOK, EngineTypeOK
<1>. QED  BY <1>1, <1>2, <1>3, <1>4, <1>5 DEF TypeOK, RollouterTypeOK

\* No step leaves the types, for every configuration.
LEMMA TypeStep ==
    ASSUME TypeOK, [Next]_vars
    PROVE  TypeOK'
<1>1. ready' \in Seq(Coroutines \union {"task"})
  BY ReadyType DEF Turns
<1>2. CASE UNCHANGED vars
  BY <1>2, Frames DEF vars, rollouterVars, TypeOK, RollouterTypeOK, SchedTypeOK
<1>3. CASE Trainer \/ Synchronizer
  BY <1>1, <1>3, TrainerType DEF TypeOK, RollouterTypeOK, SchedTypeOK
<1>4. CASE /\ \/ TaskBegins \/ Feed \/ Processor \/ Monitor \/ Main \/ Pause \/ Update \/ Resume
              \/ Reply \/ \E s \in Samples : Task(s) \/ TaskRaises(s)
           /\ UNCHANGED <<trainerVars, engineVars>>
  <2>1. /\ lock' \in Seq(Coroutines)
        /\ FlagTypeOK' /\ VersionTypeOK' /\ SampleTypeOK' /\ TaskTypeOK' /\ ProcTypeOK'
        /\ LoopTypeOK' /\ CallTypeOK' /\ QueueTypeOK'
    BY <1>4, LoopsType, ProcType, BeginType, TaskType, PauseType, UpdateType, ResumeType DEF Reply
  <2>2. TrainerTypeOK' /\ EngineTypeOK'
    BY <1>4, Frames
  <2>. QED  BY <1>1, <2>1, <2>2 DEF TypeOK, RollouterTypeOK, SchedTypeOK
<1>. QED  BY <1>2, <1>3, <1>4, NextCases

\* Type correctness, for every configuration.
THEOREM TypeCorrect == Spec => []TypeOK
BY TypeStep, InitType, PTL DEF Spec

-----------------------------------------------------------------------------
(* The lock *)

\* Only the holder releases the lock: pause() and update_param_version() keep it to
\* their end, and the processor while it waits for its tasks.
LEMMA LockKept ==
    ASSUME TypeOK, [Next]_vars, NEW h \in {"pause", "update", "proc"}, Holds(h),
           h = "pause" => ~PauseDone,
           h = "update" => updatePc # "validated",
           h = "proc" => procPc = "reapWait" /\ ~ProcReap
    PROVE  Holds(h)'
<1>1. lock \in Seq(Coroutines) /\ lock # <<>> /\ Head(lock) = h
    BY DEF TypeOK, RollouterTypeOK, SchedTypeOK, Holds
<1>2. ASSUME NEW c \in Coroutines, Request(c)
      PROVE  Holds(h)'
  <2>1. lock' = Append(lock, c) /\ lock' # <<>> /\ Head(lock') = Head(lock)
      BY <1>1, <1>2 DEF Request
  <2> QED
      BY <1>1, <2>1 DEF Holds
<1>3. \A c \in Coroutines : Holds(c) => c = h
    BY <1>1 DEF Holds
<1>4. UNCHANGED lock => Holds(h)'
    BY DEF Holds
<1> USE DEF Coroutines
<1>5. CASE Processor
    BY <1>2, <1>3, <1>4, <1>5 DEF Processor, ProcPause, ProcMark, ProcReapLock, ProcReapWait,
       ProcReapNothing, ProcReap, ProcFinished, ProcReaped, ProcSleep, ProcWoken, ProcRestart,
       ProcAwaitPending, ProcTakePending, ProcTakeCancelled, ProcSubmit
<1>6. CASE Monitor \/ MonTimer
    BY <1>2, <1>3, <1>4, <1>6 DEF Monitor, MonLock, MonTest, MonTimer, MonDecide, MonSkip, MonKick
<1>7. CASE Feed \/ Main \/ MainSentinel
    BY <1>2, <1>3, <1>4, <1>7 DEF Feed, FeedSample, FeedDone, FeedItem, Main, MainFinish, MainLock,
       MainStop, MainSentinel
<1>8. CASE Pause \/ CancelReply \/ ClearReply
    BY <1>2, <1>3, <1>4, <1>8 DEF Pause, PauseLock, PauseBegin, PauseGather, PauseGathered,
       ClearReply, CancelReply, PauseDone
<1>9. CASE Update \/ SizeReply \/ ValidateReply
    BY <1>2, <1>3, <1>4, <1>9 DEF Update, UpdateLock, UpdateCount, SizeReply, UpdateAssign,
       ValidateReply, UpdateDone
<1>10. CASE Resume \/ ServersReply
    BY <1>2, <1>3, <1>4, <1>10 DEF Resume, ResumeLock, ResumeBegin, ServersReply, ResumeDone
<1>11. CASE TaskBegins \/ \E s \in Samples : Task(s) \/ TaskRaises(s)
    BY <1>4, <1>11 DEF TaskBegins, Task, TaskArrives, TaskGenerated, TaskPut, TaskReturned, TaskCancelled,
       TaskRaises, taskFrame
<1>12. CASE Trainer \/ Synchronizer
    BY <1>4, <1>12 DEF Trainer, TrainerWait, TrainerGet, TrainerGetNone, TrainerTrain,
       TrainerDrained, TrainerEnd, Synchronizer, SyncPause, SyncWeights, SyncDone, rollouterInside
<1>13. CASE UNCHANGED vars
    BY <1>4, <1>13 DEF vars, rollouterVars
<1> QED
    BY <1>5, <1>6, <1>7, <1>8, <1>9, <1>10, <1>11, <1>12, <1>13, NextCases DEF Reply

-----------------------------------------------------------------------------
(* The synchronization of the weights *)

\* pause() has been answered by the servers and has not been left behind
Quiet == \/ pausePc \in {"cancelled", "gather", "clearing", "clear", "done"}
         \/ trainPc = "syncing"
         \/ resumePc \in {"called", "locked", "starting"}

\* with partial_rollout, the flag keeps generations out, and it is up while the engines
\* are quiet
FlagInv ==
    PartialRollout => /\ serversPaused => \A s \in Samples : stage[s] # "gen"
                      /\ Quiet => serversPaused

\* the calls of a synchronization do not overlap those of the next one
CallsInv ==
    /\ trainPc = "pausing" <=> pausePc # "idle"
    /\ transferring <=> trainPc = "syncing"
    /\ trainPc \in {"pausing", "syncing"} => updatePc = "done" /\ resumePc = "done"
    /\ updatePc # "done" => resumePc = "called"

\* the tasks pause() has waited for are gone, and it holds the lock a new one needs
GoneInv == pausePc \in {"clearing", "clear"} => Holds("pause") /\ LiveTasks = {}

\* who knows which version, and when
VersionInv ==
    /\ trainer_version = IF trainPc \in {"waitLast", "pausing", "syncing"}
                         THEN engine_version + 1 ELSE engine_version
    /\ updatePc # "done" => newVersion = engine_version
    /\ engine_version = IF updatePc \in {"called", "locked"}
                        THEN current_param_version + 1 ELSE current_param_version

\* the tasks that have had their first turn
Begun == {s \in Samples : stage[s] \notin {"none", "new"}}

\* a task is stamped with the engines' version or the one before, and with the former
\* if pause() has waited for its predecessors and the next version is not written
StampInv ==
    /\ \A s \in Begun : engine_version \in {started_version[s], started_version[s] + 1}
    /\ pausePc \in {"clearing", "clear", "done"} \/ trainPc = "syncing" =>
          \A s \in Begun : started_version[s] = engine_version

Functional == /\ stage \in [Samples -> {"none", "new", "call", "gen", "cut", "put", "ret"}]
              /\ started_version = [s \in Samples |-> started_version[s]]
              /\ engine_version \in Nat

SyncInv == Functional /\ FlagInv /\ CallsInv /\ GoneInv /\ VersionInv /\ StampInv

-----------------------------------------------------------------------------
\* what the invariant speaks of, but for the lock
syncVars == <<stage, started_version, serversPaused, pausePc, updatePc, resumePc, newVersion,
              current_param_version, trainPc, transferring, trainer_version, engine_version>>

\* A step of the system that changes nothing the invariant speaks of keeps it.
LEMMA SyncInvStutter ==
    ASSUME TypeOK, SyncInv, [Next]_vars, UNCHANGED syncVars
    PROVE  SyncInv'
<1>1. GoneInv'
  <2>1. ~PauseDone
    BY DEF PauseDone, syncVars
  <2>2. Holds("pause") => Holds("pause")'
    BY <2>1, LockKept
  <2>. QED  BY <2>2 DEF SyncInv, GoneInv, LiveTasks, syncVars
<1>2. Functional' /\ FlagInv' /\ CallsInv' /\ VersionInv' /\ StampInv'
  BY DEF SyncInv, Functional, FlagInv, Quiet, CallsInv, VersionInv, StampInv, Begun, syncVars
<1>. QED  BY <1>1, <1>2 DEF SyncInv

\* After the first synchronization, run before the loops, the invariant holds.
LEMMA SyncInvInit == Init => SyncInv
BY DEF Init, RolloutInit, SyncInv, Functional, FlagInv, Quiet, CallsInv, GoneInv, VersionInv,
   StampInv, Begun

\* The loops of the Rollouter leave alone what a synchronization is about, but
\* for the processor that submits a sample.
LEMMA LoopsKeepSync ==
    ASSUME TypeOK, SyncInv, [Next]_vars, UNCHANGED <<trainerVars, engineVars>>,
           \/ Feed \/ (Processor /\ ~ProcSubmit) \/ Monitor \/ Main \/ MonTimer \/ MainSentinel
    PROVE  SyncInv'
<1>1. CASE Feed
  BY <1>1, SyncInvStutter DEF Feed, FeedSample, FeedDone, FeedItem, taskVars, callVars,
     versionVars, trainerVars, engineVars, syncVars
<1>2. CASE Processor /\ ~ProcSubmit
  BY <1>2, SyncInvStutter DEF Processor, ProcPause, ProcMark, ProcReapLock, ProcReapWait,
     ProcReapNothing, ProcReap, ProcFinished, ProcReaped, ProcSleep, ProcWoken, ProcRestart,
     ProcTakeCancelled, ProcAwaitPending, ProcTakePending, procFrame, taskVars, callVars,
     versionVars, trainerVars, engineVars, syncVars
<1>3. CASE Monitor \/ MonTimer
  BY <1>3, SyncInvStutter DEF Monitor, MonLock, MonTest, MonTimer, MonDecide, MonSkip, MonKick,
     monFrame, taskVars, callVars, versionVars, trainerVars, engineVars, syncVars
<1>4. CASE Main \/ MainSentinel
  BY <1>4, SyncInvStutter DEF Main, MainFinish, MainSentinel, MainLock, MainStop, mainFrame,
     taskVars, callVars, versionVars, trainerVars, engineVars, syncVars
<1>. QED  BY <1>1, <1>2, <1>3, <1>4

\* The processor submits a sample with the lock: not while pause() holds it.
LEMMA SubmitKeepsSync ==
    ASSUME SyncInv, ProcSubmit, UNCHANGED <<trainerVars, engineVars>>
    PROVE  SyncInv'
<1>. USE DEF SyncInv, ProcSubmit, trainerVars, engineVars, callVars, versionVars
<1>1. Functional'
  BY DEF Functional
<1>2. FlagInv'
  BY DEF FlagInv, Quiet, Functional
<1>3. CallsInv' /\ VersionInv'
  BY DEF CallsInv, VersionInv
<1>4. GoneInv'
  BY DEF GoneInv, Holds
<1>5. StampInv'
  <2>1. Begun' \subseteq Begun
    BY DEF Begun, Functional
  <2>. QED  BY <2>1 DEF StampInv
<1>. QED  BY <1>1, <1>2, <1>3, <1>4, <1>5

\* A task's first turn: it is stamped with the version the rollouter knows, and none
\* is left to have it when pause() has waited for the tasks.
LEMMA BeginKeepsSync ==
    ASSUME SyncInv, TaskBegins, UNCHANGED <<trainerVars, engineVars>>
    PROVE  SyncInv'
<1>. DEFINE h == Head(created)
<1>1. /\ stage[h] = "new" /\ stage' = [stage EXCEPT ![h] = "call"]
      /\ started_version' = [started_version EXCEPT ![h] = current_param_version]
      /\ UNCHANGED <<lock, serversPaused, callVars, versionVars>>
  BY DEF TaskBegins
<1>. HIDE DEF h
<1>. USE DEF SyncInv, trainerVars, engineVars, callVars, versionVars
<1>2. Functional'
  BY <1>1 DEF Functional
<1>3. FlagInv'
  BY <1>1 DEF FlagInv, Quiet, Functional
<1>4. CallsInv' /\ VersionInv'
  BY <1>1 DEF CallsInv, VersionInv
<1>5. LiveTasks = {} => LiveTasks' = {}
  BY <1>1 DEF LiveTasks, Functional
<1>6. GoneInv'
  BY <1>1, <1>5 DEF GoneInv, Holds
<1>7. StampInv'
  <2>1. \A s \in Begun' : \/ s = h /\ started_version'[s] = current_param_version
                          \/ s \in Begun /\ started_version'[s] = started_version[s]
    BY <1>1 DEF Begun, Functional
  <2>2. engine_version \in {current_param_version, current_param_version + 1}
    BY DEF VersionInv
  <2>3. trainPc \in {"pausing", "syncing"} => current_param_version = engine_version
    BY DEF VersionInv, CallsInv
  <2>. QED  BY <1>1, <2>1, <2>2, <2>3 DEF StampInv, CallsInv
<1>. QED  BY <1>2, <1>3, <1>4, <1>6, <1>7

\* A step of a task: a request that arrives is generated by servers that accept.
LEMMA TaskKeepsSync ==
    ASSUME SyncInv, NEW s \in Samples, Task(s) \/ TaskRaises(s),
           UNCHANGED <<trainerVars, engineVars>>
    PROVE  SyncInv'
<1>1. /\ stage[s] \notin {"none", "new"}
      /\ \E to \in {"none", "gen", "cut", "put", "ret"} :
            stage' = [stage EXCEPT ![s] = to] /\ (to = "gen" => ~serversPaused)
  BY DEF Task, TaskArrives, TaskGenerated, TaskPut, TaskReturned, TaskCancelled, TaskRaises
<1>2. UNCHANGED <<lock, started_version, serversPaused, callVars, versionVars>>
  BY DEF Task, TaskArrives, TaskGenerated, TaskPut, TaskReturned, TaskCancelled, TaskRaises,
     taskFrame
<1>. USE DEF SyncInv, trainerVars, engineVars, callVars, versionVars
<1>3. Functional'
  BY <1>1, <1>2 DEF Functional
<1>4. FlagInv'
  BY <1>1, <1>2 DEF FlagInv, Quiet, Functional
<1>5. CallsInv' /\ VersionInv'
  BY <1>2 DEF CallsInv, VersionInv
<1>6. GoneInv'
  BY <1>1, <1>2 DEF GoneInv, Holds, LiveTasks
<1>7. Begun' \subseteq Begun
  BY <1>1 DEF Begun, Functional
<1>8. StampInv'
  BY <1>2, <1>7 DEF StampInv
<1>. QED  BY <1>3, <1>4, <1>5, <1>6, <1>8

\* pause(): once the servers have answered, nothing generates; once it has waited for
\* the tasks, none is left.
LEMMA PauseKeepsSync ==
    ASSUME TypeOK, SyncInv, [Next]_vars, Pause \/ CancelReply \/ ClearReply,
           UNCHANGED <<trainerVars, engineVars>>
    PROVE  SyncInv'
<1>. USE DEF SyncInv, trainerVars, engineVars, updateVars, versionVars, pauseFrame
<1>1. /\ stage' \in [Samples -> {"none", "new", "call", "gen", "cut", "put", "ret"}]
      /\ \A r \in Samples : stage'[r] \in {"none", "new"} <=> stage[r] \in {"none", "new"}
      /\ \A r \in Samples : stage'[r] = "none" <=> stage[r] = "none"
      /\ \A r \in Samples : stage'[r] = "gen" => stage[r] = "gen" /\ stage' = stage
  BY DEF Pause, PauseLock, PauseBegin, PauseGather, PauseGathered, ClearReply, PauseDone,
     CancelReply, Functional
<1>2. UNCHANGED <<started_version, updatePc, resumePc, newVersion, current_param_version>>
  BY DEF Pause, PauseLock, PauseBegin, PauseGather, PauseGathered, ClearReply, PauseDone,
     CancelReply
<1>3. pausePc # "idle" /\ pausePc' # "idle"
  BY DEF Pause, PauseLock, PauseBegin, PauseGather, PauseGathered, ClearReply, PauseDone,
     CancelReply
<1>4. Functional' /\ CallsInv' /\ VersionInv'
  BY <1>1, <1>2, <1>3 DEF Functional, CallsInv, VersionInv
<1>5. FlagInv'
  <2>1. CASE CancelReply
    <3>1. serversPaused' /\ \A r \in Samples : stage'[r] # "gen"
      BY <2>1 DEF CancelReply, Functional
    <3>. QED  BY <3>1 DEF FlagInv
  <2>2. CASE Pause \/ ClearReply
    <3>1. stage' = stage /\ serversPaused' = serversPaused
      BY <2>2 DEF Pause, PauseLock, PauseBegin, PauseGather, PauseGathered, ClearReply, PauseDone
    <3>2. PartialRollout /\ pausePc' \in {"cancelled", "gather", "clearing", "clear", "done"}
             => Quiet
      BY <2>2 DEF Pause, PauseLock, PauseBegin, PauseGather, PauseGathered, ClearReply,
         PauseDone, Quiet
    <3>. QED  BY <1>2, <3>1, <3>2 DEF FlagInv, Quiet
  <2>. QED  BY <2>1, <2>2
<1>6. pausePc' \in {"clearing", "clear"} =>
         /\ ~PauseDone
         /\ Holds("pause") /\ LiveTasks = {}
  BY DEF Pause, PauseLock, PauseBegin, PauseGather, PauseGathered, ClearReply, PauseDone,
     CancelReply, GoneInv
<1>7. GoneInv'
  <2>1. LiveTasks' = LiveTasks
    BY <1>1 DEF LiveTasks
  <2>. QED  BY <1>6, <2>1, LockKept DEF GoneInv
<1>8. StampInv'
  <2>1. Begun' = Begun
    BY <1>1 DEF Begun
  <2>2. pausePc' \in {"clearing", "clear", "done"} => LiveTasks = {}
    BY DEF Pause, PauseLock, PauseBegin, PauseGather, PauseGathered, ClearReply, PauseDone,
       CancelReply, GoneInv
  <2>3. LiveTasks = {} => Begun = {}
    BY DEF LiveTasks, Begun
  <2>. QED  BY <1>2, <2>1, <2>2, <2>3 DEF StampInv
<1>. QED  BY <1>4, <1>5, <1>7, <1>8

\* update_param_version() runs while resume() still waits for it.
LEMMA UpdateKeepsSync ==
    ASSUME TypeOK, SyncInv, [Next]_vars, Update \/ SizeReply \/ ValidateReply,
           UNCHANGED <<trainerVars, engineVars>>
    PROVE  SyncInv'
<1>1. UNCHANGED <<stage, started_version, serversPaused, pausePc, resumePc, newVersion>>
  BY DEF Update, UpdateLock, UpdateCount, SizeReply, UpdateAssign, ValidateReply, UpdateDone,
     updateFrame, taskVars
<1>2. /\ updatePc # "done"
      /\ \/ /\ updatePc' \in {"called", "locked"} <=> updatePc \in {"called", "locked"}
            /\ current_param_version' = current_param_version
         \/ updatePc' \notin {"called", "locked"} /\ current_param_version' = newVersion
  BY DEF Update, UpdateLock, UpdateCount, SizeReply, UpdateAssign, ValidateReply, UpdateDone,
     updateFrame, versionVars
<1>3. pausePc = "idle" /\ trainPc # "syncing"
  BY <1>2 DEF SyncInv, CallsInv
<1>. QED  BY <1>1, <1>2, <1>3 DEF SyncInv, Functional, FlagInv, Quiet, CallsInv, GoneInv,
              VersionInv, StampInv, Begun, trainerVars, engineVars

\* resume() lowers the flag after update_param_version() has returned.
LEMMA ResumeKeepsSync ==
    ASSUME SyncInv, Resume \/ ServersReply, UNCHANGED <<trainerVars, engineVars>>
    PROVE  SyncInv'
<1>. USE DEF SyncInv, Functional, FlagInv, Quiet, CallsInv, GoneInv, VersionInv, StampInv, Begun,
             trainerVars, engineVars, resumeFrame, updateVars, versionVars
<1>1. CASE ResumeLock
  BY <1>1 DEF ResumeLock
<1>2. CASE ResumeBegin
  BY <1>2 DEF ResumeBegin
<1>3. CASE ServersReply
  BY <1>3 DEF ServersReply
<1>4. CASE ResumeDone
  BY <1>4 DEF ResumeDone
<1>. QED  BY <1>1, <1>2, <1>3, <1>4 DEF Resume

\* The trainer and the synchronizer start one call after the other.
LEMMA TrainerKeepsSync ==
    ASSUME SyncInv, Trainer \/ Synchronizer
    PROVE  SyncInv'
<1>. USE DEF SyncInv, Functional, FlagInv, Quiet, CallsInv, GoneInv, Holds, LiveTasks, VersionInv,
             StampInv, Begun, rollouterInside, taskVars, versionVars, callVars, engineVars
<1>1. CASE TrainerWait \/ TrainerGet \/ TrainerGetNone
  BY <1>1 DEF TrainerWait, TrainerGet, TrainerGetNone, trainerVars
<1>2. CASE TrainerTrain
  BY <1>2 DEF TrainerTrain, StartSync
<1>3. CASE TrainerDrained
  BY <1>3 DEF TrainerDrained, StartSync
<1>4. CASE TrainerEnd
  BY <1>4 DEF TrainerEnd
<1>5. CASE SyncPause
  BY <1>5 DEF SyncPause, LastSyncDone
<1>6. CASE SyncWeights
  BY <1>6 DEF SyncWeights
<1>7. CASE SyncDone
  BY <1>7 DEF SyncDone
<1>. QED  BY <1>1, <1>2, <1>3, <1>4, <1>5, <1>6, <1>7 DEF Trainer, Synchronizer

\* SyncInv is inductive.
LEMMA SyncInvStep ==
    ASSUME TypeOK, SyncInv, [Next]_vars
    PROVE  SyncInv'
<1>1. CASE UNCHANGED vars
  BY <1>1, SyncInvStutter DEF vars, rollouterVars, taskVars, callVars, versionVars, trainerVars,
     engineVars, syncVars
<1>2. CASE Next
  BY <1>1, <1>2, NextCases, LoopsKeepSync, SubmitKeepsSync, BeginKeepsSync, TaskKeepsSync,
     PauseKeepsSync, UpdateKeepsSync, ResumeKeepsSync, TrainerKeepsSync DEF Reply
<1>. QED  BY <1>1, <1>2

\* The synchronization invariant holds at all times, with and without partial_rollout.
THEOREM SyncInvariant == Spec => []SyncInv
<1>1. TypeOK /\ SyncInv /\ [Next]_vars => SyncInv'
  BY SyncInvStep
<1>. QED  BY <1>1, SyncInvInit, TypeCorrect, PTL DEF Spec

\* With partial_rollout no weights are written under a generation, and a generation runs
\* on the version it is stamped with (param_version, which the trainer uses to correct for
\* staleness) or, if its request was on its way while weights were written, on the next.
THEOREM StampsAreNear ==
    ASSUME PartialRollout
    PROVE  Spec => []GenerationNearStamp
<1>1. SyncInv => GenerationNearStamp
  BY DEF SyncInv, FlagInv, Quiet, CallsInv, StampInv, Begun, GenerationNearStamp
<1>. QED  BY <1>1, SyncInvariant, PTL

-----------------------------------------------------------------------------
(* The refinement of WeightSync. *)

Asked == StampedIn("call")
Generating == StampedIn("gen")

\* tasks that are in a stage, and were in it before the step with the same stamp
Stay(where) == \A s \in Samples : stage'[s] = where =>
                  stage[s] = where /\ started_version'[s] = started_version[s]

\* A step that brings no task into these stages refuses, ends or interrupts some.
LEMMA OnlyStops ==
    ASSUME UNCHANGED <<current_param_version, engineVars>>, Stay("call"), Stay("gen")
    PROVE  WS!Stop
<1>1. Asked' \in SUBSET Asked /\ Generating' \in SUBSET Generating
  BY DEF Asked, Generating, StampedIn, Stay
<1>. QED  BY <1>1 DEF WS!Stop, Asked, Generating, engineVars

\* A task's first turn asks for a generation.
LEMMA BeginAsks ==
    ASSUME SyncInv, TaskBegins, UNCHANGED engineVars
    PROVE  WS!Stop \/ \E r \in Samples : WS!Ask(r)
<1>1. PICK h \in {Head(created)} :
         /\ stage[h] = "new" /\ stage' = [stage EXCEPT ![h] = "call"]
         /\ started_version' = [started_version EXCEPT ![h] = current_param_version]
  BY DEF TaskBegins
<1>2. UNCHANGED current_param_version
  BY DEF TaskBegins, versionVars
<1>3. CASE h \notin Samples
  <2>1. Stay("call") /\ Stay("gen")
    BY <1>1, <1>3 DEF Stay, SyncInv, Functional
  <2>. QED  BY <1>2, <2>1, OnlyStops
<1>4. CASE h \in Samples
  <2>1. \A s \in Samples : /\ stage'[s] = IF s = h THEN "call" ELSE stage[s]
                           /\ started_version'[s] = IF s = h THEN current_param_version
                                                             ELSE started_version[s]
    BY <1>1, <1>4 DEF SyncInv, Functional
  <2>2. Asked' = Asked \union {<<h, current_param_version>>}
    BY <1>1, <1>4, <2>1 DEF Asked, StampedIn
  <2>3. Generating' = Generating
    BY <1>1, <1>4, <2>1 DEF Generating, StampedIn
  <2>4. WS!Ask(h)
    BY <1>2, <2>2, <2>3 DEF WS!Ask, Asked, Generating, engineVars
  <2>. QED  BY <1>4, <2>4
<1>. QED  BY <1>3, <1>4

\* A request that arrives is generated by engines no weights are written into, or refused.
LEMMA ArrivalStarts ==
    ASSUME PartialRollout, SyncInv, NEW s \in Samples, TaskArrives(s), UNCHANGED engineVars
    PROVE  WS!Stop \/ WS!Start
<1>1. UNCHANGED <<current_param_version, started_version>>
  BY DEF TaskArrives, taskFrame, versionVars
<1>2. CASE serversPaused
  <2>1. Stay("call") /\ Stay("gen")
    BY <1>1, <1>2 DEF Stay, TaskArrives, SyncInv, Functional
  <2>. QED  BY <1>1, <2>1, OnlyStops
<1>3. CASE ~serversPaused
  <2>. DEFINE q == <<s, started_version[s]>>
  <2>1. ~transferring
    BY <1>3 DEF SyncInv, FlagInv, Quiet, CallsInv
  <2>2. /\ stage[s] = "call"
        /\ \A r \in Samples : stage'[r] = IF r = s THEN "gen" ELSE stage[r]
    BY <1>3 DEF TaskArrives, SyncInv, Functional
  <2>3. q \in Asked
    BY <2>2 DEF Asked, StampedIn
  <2>4. Asked' = Asked \ {q}
    BY <1>1, <2>2 DEF Asked, StampedIn
  <2>5. Generating' = Generating \union {q}
    BY <1>1, <2>2 DEF Generating, StampedIn
  <2>. HIDE DEF q
  <2>. QED  BY <1>1, <2>1, <2>3, <2>4, <2>5 DEF WS!Start, Asked, Generating, engineVars
<1>. QED  BY <1>2, <1>3

\* The steps of the Rollouter that only take tasks out of these stages.
LEMMA OthersStop ==
    ASSUME SyncInv,
           \/ Feed \/ Processor \/ Monitor \/ Main \/ Pause \/ Resume
           \/ (Update /\ ~UpdateCount) \/ Reply
           \/ \E s \in Samples : (Task(s) /\ ~TaskArrives(s)) \/ TaskRaises(s)
    PROVE  UNCHANGED current_param_version /\ Stay("call") /\ Stay("gen")
<1>. USE DEF Stay
<1>1. CASE Feed \/ (Processor /\ ~ProcSubmit)
  BY <1>1 DEF Feed, FeedSample, FeedDone, FeedItem, Processor, ProcPause, ProcMark,
     ProcReapLock, ProcReapWait, ProcReapNothing, ProcReap, ProcFinished, ProcReaped,
     ProcSleep, ProcWoken, ProcRestart, ProcTakeCancelled, ProcAwaitPending,
     ProcTakePending, procFrame, taskVars, versionVars
<1>2. CASE ProcSubmit
  BY <1>2 DEF ProcSubmit, SyncInv, Functional, versionVars
<1>3. CASE Monitor \/ Main \/ MonTimer \/ MainSentinel
  BY <1>3 DEF Monitor, MonLock, MonTest, MonTimer, MonDecide, MonSkip, MonKick, monFrame,
     Main, MainFinish, MainSentinel, MainLock, MainStop, mainFrame, taskVars, versionVars
<1>4. CASE \E s \in Samples : (Task(s) /\ ~TaskArrives(s)) \/ TaskRaises(s)
  BY <1>4 DEF Task, TaskGenerated, TaskPut, TaskReturned, TaskCancelled, TaskRaises,
     taskFrame, SyncInv, Functional, versionVars
<1>5. CASE CancelReply
  BY <1>5 DEF CancelReply, pauseFrame, versionVars
<1>6. CASE Pause \/ ClearReply
  BY <1>6 DEF Pause, PauseLock, PauseBegin, PauseGather, PauseGathered, ClearReply,
     PauseDone, pauseFrame, versionVars
<1>7. CASE (Update /\ ~UpdateCount) \/ SizeReply \/ ValidateReply
  BY <1>7 DEF Update, UpdateLock, SizeReply, UpdateAssign, ValidateReply, UpdateDone, updateFrame,
     taskVars, versionVars
<1>8. CASE Resume \/ ServersReply
  BY <1>8 DEF Resume, ResumeLock, ResumeBegin, ServersReply, ResumeDone, resumeFrame, versionVars
<1>. QED  BY <1>1, <1>2, <1>3, <1>4, <1>5, <1>6, <1>7, <1>8 DEF Reply

\* The rollouter learns the version the engines hold.
LEMMA UpdateTells ==
    ASSUME SyncInv, UpdateCount, UNCHANGED engineVars
    PROVE  WS!Tell
<1>1. current_param_version' = engine_version
  BY DEF UpdateCount, SyncInv, VersionInv
<1>2. UNCHANGED <<stage, started_version>>
  BY DEF UpdateCount, updateFrame, taskVars
<1>. QED  BY <1>1, <1>2 DEF WS!Tell, StampedIn, engineVars

\* Writing begins when nothing generates and every request is of the engines' version.
LEMMA WeightsBegin ==
    ASSUME PartialRollout, SyncInv, SyncWeights
    PROVE  WS!BeginWrite
<1>1. UNCHANGED <<stage, started_version, current_param_version>>
  BY DEF SyncWeights, rollouterInside, taskVars, versionVars
<1>2. ~transferring /\ transferring' /\ engine_version' = engine_version
  BY DEF SyncWeights, SyncInv, CallsInv
<1>3. Generating = {}
  BY DEF Generating, StampedIn, SyncWeights, SyncInv, FlagInv, Quiet
<1>4. current_param_version = engine_version
  BY DEF SyncWeights, SyncInv, CallsInv, VersionInv
<1>5. \A q \in Asked : q[2] = engine_version
  BY DEF Asked, StampedIn, SyncWeights, SyncInv, StampInv, Begun
<1>. QED  BY <1>1, <1>2, <1>3, <1>4, <1>5 DEF WS!BeginWrite, StampedIn, Asked, Generating

\* The engines hold the next version when the weights are written.
LEMMA WeightsEnd ==
    ASSUME SyncInv, SyncDone
    PROVE  WS!EndWrite
<1>1. UNCHANGED <<stage, started_version, current_param_version>>
  BY DEF SyncDone, rollouterInside, taskVars, versionVars
<1>2. transferring /\ ~transferring' /\ engine_version' = engine_version + 1
  BY DEF SyncDone, SyncInv, CallsInv, VersionInv
<1>. QED  BY <1>1, <1>2, SyncDone DEF WS!EndWrite, StampedIn, SyncDone

\* Every step is a step of WeightSync or a stutter.
LEMMA RefinementStep ==
    ASSUME PartialRollout, SyncInv, [Next]_vars
    PROVE  WS!Next
<1>1. CASE TaskBegins /\ UNCHANGED <<trainerVars, engineVars>>
  BY <1>1, BeginAsks DEF WS!Next
<1>2. CASE UpdateCount /\ UNCHANGED <<trainerVars, engineVars>>
  BY <1>2, UpdateTells DEF WS!Next
<1>3. CASE (\E s \in Samples : TaskArrives(s)) /\ UNCHANGED <<trainerVars, engineVars>>
  BY <1>3, ArrivalStarts DEF WS!Next
<1>4. CASE /\ \/ Feed \/ Processor \/ Monitor \/ Main \/ Pause \/ Resume
              \/ (Update /\ ~UpdateCount) \/ Reply
              \/ \E s \in Samples : (Task(s) /\ ~TaskArrives(s)) \/ TaskRaises(s)
           /\ UNCHANGED <<trainerVars, engineVars>>
  <2>1. UNCHANGED current_param_version /\ Stay("call") /\ Stay("gen")
    BY <1>4, OthersStop
  <2>. QED  BY <1>4, <2>1, OnlyStops DEF WS!Next
<1>5. CASE SyncWeights
  BY <1>5, WeightsBegin DEF WS!Next
<1>6. CASE SyncDone
  BY <1>6, WeightsEnd DEF WS!Next
<1>7. CASE Trainer \/ SyncPause \/ UNCHANGED vars
  <2>1. UNCHANGED <<stage, started_version, current_param_version, engineVars>>
    BY <1>7 DEF Trainer, TrainerWait, TrainerGet, TrainerGetNone, TrainerTrain,
       TrainerDrained, TrainerEnd, SyncPause, rollouterInside, taskVars, versionVars, vars,
       rollouterVars
  <2>2. Stay("call") /\ Stay("gen")
    BY <2>1 DEF Stay
  <2>. QED  BY <2>1, <2>2, OnlyStops DEF WS!Next
<1>. QED  BY <1>1, <1>2, <1>3, <1>4, <1>5, <1>6, <1>7, NextCases DEF Synchronizer

\* With partial_rollout, pause(), the transfer of the weights, update_param_version()
\* and resume() implement the synchronization WeightSync specifies.
THEOREM WeightSyncImplemented ==
    ASSUME PartialRollout
    PROVE  Spec => ImplementsWeightSync
<1>1. Init => WS!Init
  BY DEF Init, RolloutInit, WS!Init, StampedIn
<1>2. SyncInv /\ [Next]_vars => [WS!Next]_(WS!wsVars)
  BY RefinementStep
<1>. QED  BY <1>1, <1>2, SyncInvariant, PTL DEF Spec, ImplementsWeightSync, WS!Spec
=============================================================================
